---------------------------- MODULE HistoryFile ----------------------------
(***************************************************************************)
(* One history file of NetCheck: a JSON list that an operation reads,      *)
(* changes, writes to <file>.tmp and renames.  fix/engine.py (the repairs) *)
(* does so under _history_lock; bandwidth/service.py, monitor/sampler.py   *)
(* and monitor/alerts.py without a lock, in any number of threads.         *)
(***************************************************************************)
EXTENDS Lists, SequencesExt

CONSTANTS
  Threads,
  Entries,   \* records; each has an id of its own (secrets.token_hex)
  Keep,      \* items[-200:], or retention.bandwidth_history
  Inodes,    \* files on the disk, by whatever name
  None,      \* no file, no thread
  Torn       \* what an inode holds that is no JSON list: nothing, or a part

ASSUME FileAssumption ==
  /\ Keep \in Nat \ {0}
  /\ None \notin Inodes /\ None \notin Threads /\ Torn \notin Seq(Entries)

VARIABLES
  locked,   \* whether an operation on this file holds a lock from read to rename
  name,     \* the inodes of the file and of its .tmp
  data,     \* inode -> what it holds
  lock,     \* the thread that holds _history_lock
  at,       \* thread -> the step it takes next
  items,    \* thread -> its local list
  fd,       \* thread -> the inode it has open for writing
  begun,    \* the records that were ever made, in their order
  failed    \* the last operation ended in an OSError

fileVars == <<locked, name, data, lock, at, items, fd, begun, failed>>

FileInit ==
  /\ locked \in BOOLEAN
  /\ name = [json |-> None, tmp |-> None]
  /\ data = [i \in Inodes |-> Torn]
  /\ lock = None
  /\ at = [t \in Threads |-> "idle"]
  /\ items = [t \in Threads |-> <<>>]
  /\ fd = [t \in Threads |-> None]
  /\ begun = <<>>
  /\ failed = FALSE

\* What a reader finds: [] if there is no file, or if it cannot be parsed.
Shown == IF name.json = None THEN <<>>
         ELSE IF data[name.json] = Torn THEN <<>> ELSE data[name.json]

NewestAndOne(s) == SubSeq(s, IF Len(s) > Keep + 1 THEN Len(s) - Keep ELSE 1, Len(s))
Newest(s) == SubSeq(s, IF Len(s) > Keep THEN Len(s) - Keep + 1 ELSE 1, Len(s))

\* The lock, if there is one, is taken and the file is read: what list is to
\* be written is settled here.
BeginUnlocked(t, list) ==
  /\ at[t] = "idle"
  /\ at' = [at EXCEPT ![t] = "open"]
  /\ items' = [items EXCEPT ![t] = Newest(list)]
  /\ UNCHANGED <<name, data, lock, fd, failed>>
Begin(t, list) ==
  /\ at[t] = "idle"
  /\ IF locked THEN lock = None /\ lock' = t ELSE UNCHANGED lock
  /\ at' = [at EXCEPT ![t] = "open"]
  /\ items' = [items EXCEPT ![t] = Newest(list)]
  /\ UNCHANGED <<name, data, fd, failed>>

InsertBegins(t, e) ==
  /\ ~ Contains(begun, e)
  /\ begun' = Append(begun, e)
  /\ Begin(t, Cons(e, Shown))
AppendBegins(t, e) ==
  /\ ~ Contains(begun, e)
  /\ begun' = Append(begun, e)
  /\ Begin(t, Append(Shown, e))

\* Only the repairs can be deleted and cleared; an unknown id changes nothing.
DeleteBegins(t, e) ==
  /\ locked /\ Contains(Shown, e)
  /\ Begin(t, Without(Shown, {e}))
  /\ UNCHANGED begun

ClearBegins(t) == locked /\ Begin(t, <<>>) /\ UNCHANGED begun

\* open(tmp, "w") cuts the .tmp that is there, or makes one.
InUse == {name.json, name.tmp} \cup Range(fd)
OpenInPlace(t) ==
  /\ at[t] = "open"
  /\ \E i \in Inodes :
       /\ IF name.json = None THEN i \notin InUse ELSE i = name.json
       /\ name' = [json |-> i, tmp |-> i]
       /\ data' = [data EXCEPT ![i] = Torn]
       /\ fd' = [fd EXCEPT ![t] = i]
  /\ at' = [at EXCEPT ![t] = "write"]
  /\ UNCHANGED <<lock, items, begun, failed>>
Open(t) ==
  /\ at[t] = "open"
  /\ \E i \in Inodes :
       /\ IF name.tmp = None THEN i \notin InUse ELSE i = name.tmp
       /\ name' = [name EXCEPT !.tmp = i]
       /\ data' = [data EXCEPT ![i] = Torn]
       /\ fd' = [fd EXCEPT ![t] = i]
  /\ at' = [at EXCEPT ![t] = "write"]
  /\ UNCHANGED <<lock, items, begun, failed>>

\* The list is written and the file closed.  Whoever writes to an inode that
\* another one writes to as well may leave a mixture of both.
Write(t) ==
  /\ at[t] = "write"
  /\ \/ data' = [data EXCEPT ![fd[t]] = items[t]]
     \/ /\ data[fd[t]] # Torn \/ \E u \in Threads \ {t} : fd[u] = fd[t]
        /\ data' = [data EXCEPT ![fd[t]] = Torn]
  /\ fd' = [fd EXCEPT ![t] = None]
  /\ at' = [at EXCEPT ![t] = "replace"]
  /\ UNCHANGED <<name, lock, items, begun, failed>>

\* The end of an operation: the lock is released, whatever happened.
End(t) ==
  /\ at' = [at EXCEPT ![t] = "idle"]
  /\ items' = [items EXCEPT ![t] = <<>>]
  /\ fd' = [fd EXCEPT ![t] = None]
  /\ lock' = IF lock = t THEN None ELSE lock
  /\ UNCHANGED begun

\* os.replace(tmp, file)
Replace(t) ==
  /\ at[t] = "replace" /\ name.tmp # None
  /\ name' = [json |-> name.tmp, tmp |-> None]
  /\ failed' = FALSE
  /\ End(t) /\ UNCHANGED data

\* A full disk, or a .tmp that another thread has renamed (FileNotFoundError).
FileFails(t) ==
  /\ at[t] # "idle"
  /\ failed' = TRUE
  /\ End(t) /\ UNCHANGED <<name, data>>

\* The service dies at any moment, and is started again.
FileCrash ==
  /\ at' = [t \in Threads |-> "idle"]
  /\ items' = [t \in Threads |-> <<>>]
  /\ fd' = [t \in Threads |-> None]
  /\ lock' = None
  /\ UNCHANGED <<name, data, begun, failed>>

FileStep(t) ==
  \/ \E e \in Entries : AppendBegins(t, e) \/ DeleteBegins(t, e)
  \/ ClearBegins(t) \/ Open(t) \/ Write(t) \/ Replace(t) \/ FileFails(t)

FileNext == UNCHANGED locked /\ (FileCrash \/ \E t \in Threads : FileStep(t))

FileSpec == FileInit /\ [][FileNext]_fileVars

-----------------------------------------------------------------------------
\* Every variable has its type, and no list is longer than what is kept.
FileTypeOK ==
  /\ locked \in BOOLEAN
  /\ name \in [{"json", "tmp"} -> Inodes \cup {None}]
  /\ data \in [Inodes -> Seq(Entries) \cup {Torn}]
  /\ lock \in Threads \cup {None}
  /\ at \in [Threads -> {"idle", "open", "write", "replace"}]
  /\ items \in [Threads -> Seq(Entries)] /\ \A t \in Threads : Len(items[t]) <= Keep
  /\ fd \in [Threads -> Inodes \cup {None}]
  /\ begun \in Seq(Entries)
  /\ failed \in BOOLEAN

\* With the lock a reader, who takes no lock, finds a whole list at every moment,
\* and after a crash at any moment (engine.py:246-249, 270-277).
NeverTorn == locked /\ name.json # None => data[name.json] # Torn

\* With the lock a disk error loses nothing that was there (engine.py:291-296).
FailureKeeps == [][locked /\ failed' => Shown' = Shown]_fileVars

\* With the lock the file is a log of the newest records: none is lost to an
\* operation that runs at the same time (engine.py:250-302).
LogSeen == IF locked THEN Shown ELSE <<>>
FileLog == INSTANCE BoundedLog WITH Items <- Entries, log <- LogSeen, failed <- locked /\ failed
ImplementsFileLog == FileLog!Spec

\* Even without the lock, with lists that overwrite each other, a file has no
\* record twice and none before an older one: "oldest-first" (sampler.py:161).
\* It may lose records, although the same line says that a shard is append-only.
InOrder(s, b) == \A j \in 1..Len(s), i \in 1..(Len(s) - 1) : i < j =>
                   \E l \in 1..Len(b), k \in 1..(Len(b) - 1) : k < l /\ b[k] = s[i] /\ b[l] = s[j]
OldestFirst == InOrder(Shown, begun)
=============================================================================
