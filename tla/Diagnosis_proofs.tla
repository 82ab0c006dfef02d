-------------------------- MODULE Diagnosis_proofs --------------------------
(***************************************************************************)
(* Proofs about diagnoses, for any number of jobs, of checks and of        *)
(* threads, for any size of the registry, and for any number of days and   *)
(* of reports to keep: what the registry evicts, what a report holds, what *)
(* a client that sees "done" may rely on, and that the files of the days   *)
(* are one log of the newest reports.                                      *)
(***************************************************************************)
EXTENDS Diagnosis, Facts, FiniteSetTheorems, SequenceTheorems, TLAPS

-----------------------------------------------------------------------------
(* The slice of finished jobs that create() evicts *)

\* The n oldest of at least n jobs are at least n.
LEMMA OldestMany ==
  ASSUME NEW S, S \subseteq Nat, IsFiniteSet(S),
         NEW n \in Nat, n <= Cardinality(S)
  PROVE  Cardinality(OldestOf(S, n)) >= n
<1> DEFINE Old == OldestOf(S, n)
<1>1. Old \subseteq S /\ IsFiniteSet(Old)
  BY FS_Subset DEF OldestOf
<1>2. CASE S \subseteq Old
  <2>1. Old = S
    BY <1>1, <1>2
  <2> QED  BY <2>1, FS_CardinalityType
<1>3. CASE ~ (S \subseteq Old)
  <2>1. PICK m \in S \ Old : \A k \in S \ Old : m <= k
    BY <1>3, Least
  <2> DEFINE L == {i \in S : i < m}
  <2>2. ~ (Cardinality(L) < n)
    BY <2>1 DEF OldestOf
  <2>3. L \subseteq Old
    <3>1. SUFFICES ASSUME NEW i \in S, i < m, i \notin Old PROVE FALSE
      OBVIOUS
    <3>2. m <= i /\ m \in Nat /\ i \in Nat
      BY <2>1, <3>1
    <3> QED  BY <3>1, <3>2
  <2>4. IsFiniteSet(L) /\ Cardinality(L) <= Cardinality(Old)
    BY <1>1, <2>3, FS_Subset
  <2>5. Cardinality(L) \in Nat /\ Cardinality(Old) \in Nat
    BY <1>1, <2>4, FS_CardinalityType
  <2> QED  BY <2>2, <2>4, <2>5
<1> QED  BY <1>2, <1>3

\* The newest of them is not among the n oldest, if there are more than n.
LEMMA NewestNot ==
  ASSUME NEW S, S \subseteq Nat, IsFiniteSet(S), NEW n \in Nat, n < Cardinality(S),
         NEW m \in S, \A k \in S : k <= m
  PROVE  m \notin OldestOf(S, n)
<1> DEFINE L == {i \in S : i < m}
<1>1. L = S \ {m}
  <2>1. ASSUME NEW i \in S PROVE i < m <=> i # m
    <3>1. i \in Nat /\ m \in Nat /\ i <= m
      OBVIOUS
    <3> QED  BY <3>1
  <2> QED  BY <2>1
<1>2. Cardinality(L) = Cardinality(S) - 1
  BY <1>1, FS_RemoveElement
<1>3. Cardinality(S) \in Nat
  BY FS_CardinalityType
<1>4. ~ (Cardinality(L) < n)
  BY <1>2, <1>3
<1> QED  BY <1>4 DEF OldestOf

\* The slice of Python, for both signs of its end.
LEMMA Slice ==
  ASSUME NEW n \in Nat, NEW max \in Nat \ {0}
  PROVE  LET len == SliceLen(n, n - max + 1)
         IN  /\ len \in Nat /\ len <= n
             /\ n >= max => len = n - max + 1
             /\ max > 1 /\ n > 0 => len < n
BY DEF SliceLen

-----------------------------------------------------------------------------
(* The registry *)

JobsInv == JobsTypeOK /\ RunningTracked

LEMMA RegistryFinite ==
  ASSUME JobsTypeOK
  PROVE  /\ Jobs \subseteq Nat /\ Finished \subseteq tracked /\ tracked \subseteq Jobs
         /\ IsFiniteSet(tracked) /\ IsFiniteSet(Finished)
         /\ Cardinality(tracked) \in Nat /\ Cardinality(Finished) \in Nat
         /\ Cardinality(Finished) <= Cardinality(tracked)
<1>1. Jobs \subseteq Nat /\ Finished \subseteq tracked /\ tracked \subseteq Jobs
  BY JobsAssumption DEF Jobs, Finished, JobsTypeOK
<1>2. IsFiniteSet(Jobs)
  BY JobsAssumption, FS_Interval DEF Jobs
<1>3. IsFiniteSet(tracked) /\ IsFiniteSet(Finished)
  BY <1>1, <1>2, FS_Subset
<1> QED  BY <1>1, <1>3, FS_Subset, FS_CardinalityType

\* Only finished jobs are evicted.
LEMMA EvictedFinished == Evicted \subseteq Finished
BY DEF Evicted, OldestOf

\* The steps of a diagnosis, as the registry sees them.
LEMMA RegistryStep ==
  ASSUME [Next]_vars
  PROVE  \/ UNCHANGED jobsVars
         \/ \E j \in Jobs : Create(j)
         \/ \E j \in Jobs, how \in {"done", "failed"} :
              jobState[j] = "running" /\ Finish(j, how)
BY DEF Next, vars, DiagRunRequest, ThreadFails, Job, RunStep, SaveReport, SaveRaises, FinishJob,
       Delete, Clear, jobsVars

LEMMA RegistryKeeps ==
  ASSUME JobsInv, [Next]_vars
  PROVE  JobsInv'
<1>1. CASE UNCHANGED jobsVars
  BY <1>1 DEF JobsInv, JobsTypeOK, RunningTracked, jobsVars
<1>2. ASSUME NEW j \in Jobs, Create(j) PROVE JobsInv'
  BY <1>2, EvictedFinished DEF Create, Finished, JobsInv, JobsTypeOK, RunningTracked
<1>3. ASSUME NEW j \in Jobs, NEW how \in {"done", "failed"},
             jobState[j] = "running", Finish(j, how)
      PROVE  JobsInv'
  BY <1>3 DEF Finish, JobsInv, JobsTypeOK, RunningTracked
<1> QED  BY <1>1, <1>2, <1>3, RegistryStep

LEMMA JobsInvariant == Spec => []JobsInv
<1>1. Init => JobsInv
  BY DEF Init, JobsInit, JobsInv, JobsTypeOK, RunningTracked
<1>2. JobsInv /\ [Next]_vars => JobsInv'
  BY RegistryKeeps
<1> QED  BY <1>1, <1>2, PTL DEF Spec

\* A job that runs is in the registry, so that its client can ask for it,
\* whatever the size of the registry and however many jobs run (jobs.py:43-47).
THEOREM RunningStays == Spec => []RunningTracked
<1>1. JobsInv => RunningTracked
  BY DEF JobsInv
<1> QED  BY <1>1, JobsInvariant, PTL

\* Where create() leaves the finished jobs.
LEMMA CreateLeaves ==
  ASSUME JobsTypeOK, NEW j \in Jobs, Create(j)
  PROVE  Finished' = Finished \ Evicted
BY EvictedFinished DEF Create, Finished, JobsTypeOK

\* Making room leaves fewer finished jobs than the registry has places, for
\* every size and any number of running jobs: the end of the slice may be
\* negative (jobs.py:43-47).
THEOREM FewFinished == Spec => FinishedBounded
<1>1. ASSUME JobsInv, [Next]_vars, tracked' # tracked
      PROVE  Cardinality(Finished') < MaxTracked
  <2>1. PICK j \in Jobs : Create(j)
    BY <1>1, RegistryStep DEF jobsVars, Finish
  <2> DEFINE n == Cardinality(Finished)
             len == SliceLen(n, n - MaxTracked + 1)
  <2>2. /\ n \in Nat /\ IsFiniteSet(Finished) /\ Finished \subseteq Nat
        /\ Cardinality(tracked) \in Nat /\ n <= Cardinality(tracked)
    BY <1>1, RegistryFinite DEF JobsInv
  <2>3. Finished' = Finished \ Evicted
    BY <1>1, <2>1, CreateLeaves DEF JobsInv
  <2>4. MaxTracked \in Nat \ {0}
    BY JobsAssumption
  <2>5. IsFiniteSet(Evicted) /\ Cardinality(Evicted) \in Nat
    BY <2>2, EvictedFinished, FS_Subset, FS_CardinalityType
  <2>6. Cardinality(Finished') = n - Cardinality(Evicted)
    <3>1. Finished \cap Evicted = Evicted
      BY EvictedFinished
    <3>2. Cardinality(Finished \ Evicted)
            = Cardinality(Finished) - Cardinality(Finished \cap Evicted)
      BY <2>2, FS_Difference
    <3> QED  BY <2>3, <3>1, <3>2
  <2>7. CASE n < MaxTracked
    BY <2>2, <2>4, <2>5, <2>6, <2>7
  <2>8. CASE n >= MaxTracked
    <3>1. len = n - MaxTracked + 1 /\ len \in Nat /\ len <= n
      BY <2>2, <2>4, <2>8, Slice
    <3>2. Evicted = OldestOf(Finished, len)
      BY <2>2, <2>4, <2>8 DEF Evicted
    <3> HIDE DEF len
    <3>3. Cardinality(Evicted) >= len
      BY <2>2, <3>1, <3>2, OldestMany
    <3> HIDE DEF n
    <3> QED  BY <2>2, <2>4, <2>5, <2>6, <3>1, <3>3
  <2> QED  BY <2>2, <2>4, <2>7, <2>8
<1>2. JobsInv /\ [Next]_vars => [tracked' # tracked => Cardinality(Finished') < MaxTracked]_jobsVars
  BY <1>1
<1> QED  BY <1>2, JobsInvariant, PTL DEF Spec, FinishedBounded

\* With room for two, an evicted job leaves a newer finished one behind: the
\* last result stays (jobs.py:43-47).
THEOREM LastResultKept == MaxTracked > 1 /\ Spec => NewestKept
<1> DEFINE Kept == \A j \in tracked \ tracked' : \E i \in Finished \cap tracked' : i > j
<1>1. ASSUME MaxTracked > 1, JobsInv, [Next]_vars, NEW k \in tracked \ tracked'
      PROVE  \E i \in Finished \cap tracked' : i > k
  <2>1. PICK j \in Jobs : Create(j)
    BY <1>1, RegistryStep DEF jobsVars, Finish
  <2> DEFINE n == Cardinality(Finished)
             len == SliceLen(n, n - MaxTracked + 1)
  <2>2. /\ n \in Nat /\ IsFiniteSet(Finished) /\ Finished \subseteq Nat
        /\ Finished \subseteq tracked /\ tracked \subseteq Jobs
    BY <1>1, RegistryFinite DEF JobsInv
  <2>3. tracked' = (tracked \ Evicted) \cup {j}
    BY <2>1 DEF Create
  <2>4. k \in Evicted
    BY <1>1, <2>3
  <2>5. Evicted = OldestOf(Finished, len)
    BY <2>4 DEF Evicted
  <2>6. k \in Finished /\ n > 0
    BY <2>2, <2>4, EvictedFinished, FS_EmptySet
  <2>7. len \in Nat /\ len < n
    BY <1>1, <2>2, <2>6, JobsAssumption, Slice
  <2>8. PICK m \in Finished : \A i \in Finished : i <= m
    <3>1. Finished \subseteq 0..LastJob /\ LastJob \in Nat
      BY <2>2, JobsAssumption DEF Jobs
    <3> QED  BY <2>6, <3>1, Greatest
  <2> HIDE DEF n, len
  <2>9. m \notin Evicted
    BY <2>2, <2>5, <2>7, <2>8, NewestNot DEF n
  <2>10. m # k /\ k <= m
    BY <2>4, <2>6, <2>8, <2>9
  <2> QED  BY <2>2, <2>3, <2>6, <2>8, <2>9, <2>10
<1>2. MaxTracked > 1 /\ JobsInv /\ [Next]_vars => [Kept]_jobsVars
  BY <1>1
<1>3. CASE MaxTracked > 1
  <2>1. JobsInv /\ [Next]_vars => [Kept]_jobsVars
    BY <1>2, <1>3
  <2>2. Spec => [][Kept]_jobsVars
    BY <2>1, JobsInvariant, PTL DEF Spec
  <2> QED  BY <2>2 DEF NewestKept
<1> QED  BY <1>3

\* With room for two, a client that polls its job finds it (jobs.py:36-59).
THEOREM RegistryKept == MaxTracked > 1 /\ Spec => Registry
BY RunningStays, FewFinished, LastResultKept, PTL DEF Registry

-----------------------------------------------------------------------------
(* A run: what is reported at each point, and where its checks may be.     *)

\* A check of job j: `todo' until its stage comes to it; then it waits or works
\* with a future that run_diag() has not read, or run_diag() has its one result
\* or passed over it, and only a late one still works.
Fits(j, c) ==
  /\ phase[j] \in {"none", "setup", "import"} =>
       stage[j] = 1 /\ check[j][c] = "todo"
  /\ phase[j] \in {"submit", "wait", "drop"} =>
       /\ stage[j] = 1 /\ c \in External => check[j][c] = "todo"
       /\ stage[j] = 2 /\ c \in Local => check[j][c] # "todo"
       /\ check[j][c] = "todo" => reported[j][c] = 0
       /\ c \in pending[j] => reported[j][c] = 0
       /\ check[j][c] # "todo" /\ c \notin pending[j] =>
            reported[j][c] = 1 \/ (reported[j][c] = 0 /\ c \notin Owed(j))
  /\ phase[j] \in {"wait", "drop"} /\ c \in StageChecks(stage[j]) => check[j][c] # "todo"
  /\ phase[j] \in {"none", "setup", "import", "report", "over"} =>
       check[j][c] \notin {"queued", "running"}
  /\ phase[j] \in {"report", "over"} =>
       reported[j][c] = 1 \/ (reported[j][c] = 0 /\ c \notin Owed(j))
  /\ c \in pending[j] => check[j][c] \notin {"todo", "gone"}
  /\ c \notin pending[j] =>
       /\ check[j][c] \in {"todo", "running", "gone"} \/ phase[j] = "unwind"
       /\ check[j][c] = "running" => phase[j] \in {"drop", "unwind"}
  /\ check[j][c] \in {"queued", "running"} =>
       /\ phase[j] \in {"submit", "wait", "drop", "unwind"}
       /\ c \in StageChecks(stage[j])
  /\ phase[j] = "unwind" => check[j][c] \in {"queued", "running", "gone"}

\* The run: no result is counted or awaited before or after its stages, and what
\* it answers for is in the registry when it comes to take the checks.
Whole(j) ==
  /\ phase[j] \notin {"submit", "wait", "drop"} => pending[j] = {}
  /\ phase[j] \in {"none", "setup", "import"} => \A c \in Checks : reported[j][c] = 0
  /\ phase[j] \in {"submit", "wait", "drop"} => Owed(j) \subseteq loaded

\* The state of the job and the phase of its run.
InStep(j) == /\ jobState[j] = "none" => phase[j] = "none"
             /\ jobState[j] = "done" => phase[j] = "over"
             /\ jobState[j] = "failed" => phase[j] = "raised"

JobInv(j) == InStep(j) /\ Whole(j) /\ \A c \in Checks : Fits(j, c)

RunTypes == RunTypeOK /\ pending \in [Jobs -> SUBSET Checks]
                      /\ jobState \in [Jobs -> {"none", "running", "done", "failed"}]

RunInv == RunTypes /\ \A j \in Jobs : JobInv(j)

LEMMA StageParts ==
  /\ StageChecks(1) = Local /\ StageChecks(2) = External
  /\ Checks = Local \cup External /\ Local \cap External = {}
<1>1. Local \cap External = {}
  <2>1. ASSUME NEW c \in Local \cap External PROVE FALSE
    <3>1. c \in Nat /\ c < c
      BY ChecksAssumption
    <3> QED  BY <3>1
  <2> QED  BY <2>1
<1> QED  BY <1>1 DEF StageChecks, Checks

\* Results are added to one job only, one for each check of the set.
LEMMA Added ==
  ASSUME RunTypeOK, NEW j \in Jobs, NEW S, AddResults(j, S)
  PROVE  /\ reported' \in [Jobs -> [Checks -> Nat]]
         /\ \A i \in Jobs \ {j} : reported'[i] = reported[i]
         /\ \A c \in Checks : reported'[j][c] = reported[j][c] + (IF c \in S THEN 1 ELSE 0)
<1> DEFINE row == [c \in Checks |-> reported[j][c] + (IF c \in S THEN 1 ELSE 0)]
<1>1. reported' = [reported EXCEPT ![j] = row]
  BY DEF AddResults
<1>2. reported \in [Jobs -> [Checks -> Nat]]
  BY DEF RunTypeOK
<1>3. row \in [Checks -> Nat]
  <2>1. ASSUME NEW c \in Checks PROVE reported[j][c] + (IF c \in S THEN 1 ELSE 0) \in Nat
    <3>1. reported[j][c] \in Nat
      BY <1>2
    <3> QED  BY <3>1
  <2> QED  BY <2>1
<1>4. \A c \in Checks : row[c] = reported[j][c] + (IF c \in S THEN 1 ELSE 0)
  OBVIOUS
<1> HIDE DEF row
<1> QED  BY <1>1, <1>2, <1>3, <1>4

\* One check of one job changes its place.
LEMMA Replaced ==
  ASSUME RunTypeOK, NEW j \in Jobs, NEW c \in Checks, NEW what \in Places, Becomes(j, c, what)
  PROVE  /\ check' \in [Jobs -> [Checks -> Places]]
         /\ \A i \in Jobs \ {j} : check'[i] = check[i]
         /\ \A d \in Checks \ {c} : check'[j][d] = check[j][d]
         /\ check'[j][c] = what
BY DEF Becomes, RunTypeOK

\* The next stage begins, or the report.
LEMMA StageTurns ==
  ASSUME RunTypeOK, NEW j \in Jobs, NextStage(j)
  PROVE  /\ phase' \in [Jobs -> Phases]
         /\ stage' \in [Jobs -> {1, 2}] /\ stage'[j] = 2
         /\ phase'[j] = IF stage[j] = 1 THEN "submit" ELSE "report"
         /\ \A i \in Jobs \ {j} : phase'[i] = phase[i] /\ stage'[i] = stage[i]
BY DEF NextStage, RunTypeOK, Phases

\* A phase is left for another one.
LEMMA Gone ==
  ASSUME RunTypeOK, NEW j \in Jobs, NEW from, NEW to \in Phases, Goto(j, from, to)
  PROVE  /\ phase[j] = from /\ phase'[j] = to
         /\ phase' \in [Jobs -> Phases]
         /\ \A i \in Jobs \ {j} : phase'[i] = phase[i]
BY DEF Goto, RunTypeOK

\* What a run answers for is settled when it looks into the registry.
LEMMA OwedKept ==
  ASSUME NEW j \in Jobs, saw'[j] = saw[j]
  PROVE  Owed(j)' = Owed(j)
BY DEF Owed

\* While its run is between its beginning and its end, a job runs.
LEMMA StaysInStep ==
  ASSUME NEW j \in Jobs, InStep(j), phase[j] \notin {"none", "over", "raised"},
         jobState' = jobState
  PROVE  InStep(j)'
BY DEF InStep

\* A step of one run leaves the others alone.
LEMMA OneRun ==
  ASSUME RunInv, RunTypes', NEW j \in Jobs, loaded \subseteq loaded',
         \A i \in Jobs \ {j} :
           UNCHANGED <<phase[i], stage[i], check[i], pending[i], reported[i], saw[i], jobState[i]>>,
         JobInv(j)'
  PROVE  RunInv'
<1>1. ASSUME NEW i \in Jobs \ {j} PROVE JobInv(i)'
  <2>1. JobInv(i) /\ Owed(i)' = Owed(i)
    BY OwedKept DEF RunInv
  <2>2. UNCHANGED <<phase[i], stage[i], check[i], pending[i], reported[i], jobState[i]>>
    OBVIOUS
  <2>3. InStep(i)' /\ Whole(i)'
    BY <2>1, <2>2 DEF JobInv, InStep, Whole
  <2>4. ASSUME NEW c \in Checks PROVE Fits(i, c)'
    <3>1. Fits(i, c)
      BY <2>1 DEF JobInv
    <3> QED  BY <2>1, <2>2, <3>1 DEF Fits, StageChecks
  <2> QED  BY <2>3, <2>4 DEF JobInv
<1> QED  BY <1>1 DEF RunInv

LEMMA LookUpKeeps ==
  ASSUME RunInv, NEW j \in Jobs, LookUp(j), UNCHANGED jobState
  PROVE  RunInv'
<1>1. RunTypes /\ RunTypeOK /\ JobInv(j)
  BY DEF RunInv, RunTypes
<1>2. /\ phase[j] = "setup" /\ phase' \in [Jobs -> Phases]
      /\ \A i \in Jobs \ {j} : phase'[i] = phase[i]
      /\ \/ phase'[j] = "raised" /\ saw' = saw
         \/ /\ phase'[j] = IF loaded = {} THEN "import" ELSE "submit"
            /\ saw' = [saw EXCEPT ![j] = loaded]
  <2>1. {"raised", "import", "submit"} \subseteq Phases
    BY DEF Phases
  <2> QED  BY <1>1, <2>1, Gone DEF LookUp
<1>3. UNCHANGED <<loaded, stage, check, pending, reported>>
  BY DEF LookUp, localVars
<1>4. /\ saw' \in [Jobs -> SUBSET Checks] /\ \A i \in Jobs \ {j} : saw'[i] = saw[i]
      /\ phase'[j] # "raised" => saw'[j] = loaded
  BY <1>1, <1>2 DEF RunTypeOK
<1>5. RunTypes'
  BY <1>1, <1>2, <1>3, <1>4 DEF RunTypes, RunTypeOK, StageChecks
<1>6. InStep(j)'
  BY <1>1, <1>2, StaysInStep DEF JobInv
<1>7. Whole(j)'
  BY <1>1, <1>2, <1>3, <1>4 DEF JobInv, Whole, Owed
<1>8. ASSUME NEW c \in Checks PROVE Fits(j, c)'
  <2>1. Fits(j, c) /\ pending[j] = {} /\ reported[j][c] = 0
    BY <1>1, <1>2 DEF JobInv, Whole
  <2> QED  BY <1>2, <1>3, <2>1 DEF Fits
<1> QED  BY <1>2, <1>3, <1>4, <1>5, <1>6, <1>7, <1>8, OneRun DEF JobInv

LEMMA ImportKeeps ==
  ASSUME RunInv, NEW j \in Jobs, Import(j), UNCHANGED jobState
  PROVE  RunInv'
<1>1. RunTypes /\ RunTypeOK /\ JobInv(j)
  BY DEF RunInv, RunTypes
<1>2. UNCHANGED <<stage, check, pending, reported, saw>>
  BY DEF Import, localVars
<1>3. /\ phase[j] = "import" /\ phase' \in [Jobs -> Phases]
      /\ \A i \in Jobs \ {j} : phase'[i] = phase[i]
      /\ phase'[j] \in {"import", "submit", "raised"}
      /\ phase'[j] = "submit" => loaded = Checks
      /\ loaded \subseteq loaded' /\ loaded' \subseteq Checks
  <2>1. CASE phase[j] = "import" /\ ImportOne /\ UNCHANGED phase
    BY <1>1, <2>1 DEF ImportOne, RunTypeOK
  <2>2. ASSUME NEW to \in {"submit", "raised"}, Goto(j, "import", to), UNCHANGED loaded,
               to = "submit" => loaded = Checks
        PROVE  <1>3
    <3>1. to \in Phases
      BY DEF Phases
    <3> QED  BY <1>1, <2>2, <3>1, Gone DEF RunTypeOK
  <2> QED  BY <2>1, <2>2 DEF Import
<1>4. RunTypes'
  BY <1>1, <1>2, <1>3 DEF RunTypes, RunTypeOK, StageChecks
<1>5. InStep(j)'
  BY <1>1, <1>3, StaysInStep DEF JobInv
<1>6. Owed(j) \subseteq Checks /\ Owed(j)' = Owed(j)
  BY <1>1, <1>2 DEF Owed, RunTypeOK
<1>7. Whole(j)'
  BY <1>1, <1>2, <1>3, <1>6 DEF JobInv, Whole
<1>8. ASSUME NEW c \in Checks PROVE Fits(j, c)'
  <2>1. Fits(j, c) /\ pending[j] = {} /\ reported[j][c] = 0
    BY <1>1, <1>3 DEF JobInv, Whole
  <2> QED  BY <1>2, <1>3, <2>1 DEF Fits
<1> QED  BY <1>2, <1>3, <1>4, <1>5, <1>7, <1>8, OneRun DEF JobInv

LEMMA TakeKeeps ==
  ASSUME RunInv, NEW j \in Jobs, NEW c \in Checks, Take(j, c), UNCHANGED jobState
  PROVE  RunInv'
<1>1. RunTypes /\ RunTypeOK /\ JobInv(j)
  BY DEF RunInv, RunTypes
<1>2. /\ phase[j] = "submit" /\ check[j][c] = "todo" /\ c \in StageChecks(stage[j])
      /\ UNCHANGED <<loaded, phase, stage, saw>>
  BY DEF Take, ToTake, At
<1>3. Fits(j, c) /\ Owed(j) \subseteq loaded /\ Owed(j)' = Owed(j)
  BY <1>1, <1>2, OwedKept DEF JobInv, Whole
<1>4. /\ reported[j][c] = 0 /\ c \notin pending[j]
      /\ ~ (stage[j] = 1 /\ c \in External)
  BY <1>1, <1>2, <1>3, StageParts DEF Fits, RunTypeOK
<1>5. PICK what \in {"gone", "queued"} :
        /\ Becomes(j, c, what)
        /\ \/ what = "gone" /\ c \notin loaded /\ UNCHANGED <<pending, reported>>
           \/ what = "gone" /\ AddResults(j, {c}) /\ UNCHANGED pending
           \/ what = "queued" /\ pending' = [pending EXCEPT ![j] = @ \cup {c}] /\ UNCHANGED reported
  BY DEF Take
<1>6. /\ check' \in [Jobs -> [Checks -> Places]]
      /\ \A i \in Jobs \ {j} : check'[i] = check[i]
      /\ \A d \in Checks \ {c} : check'[j][d] = check[j][d]
      /\ check'[j][c] = what
  <2>1. what \in Places
    BY DEF Places
  <2> QED  BY <1>1, <1>5, <2>1, Replaced
<1>7. /\ reported' \in [Jobs -> [Checks -> Nat]]
      /\ \A i \in Jobs \ {j} : reported'[i] = reported[i]
      /\ \A d \in Checks \ {c} : reported'[j][d] = reported[j][d]
      /\ IF what = "gone" THEN reported'[j][c] = 1 \/ (reported'[j][c] = 0 /\ c \notin loaded)
                          ELSE reported'[j][c] = 0
  <2>1. CASE UNCHANGED reported /\ (what = "gone" => c \notin loaded)
    BY <1>1, <1>4, <2>1 DEF RunTypeOK
  <2>2. CASE what = "gone" /\ AddResults(j, {c})
    <3>1. /\ reported' \in [Jobs -> [Checks -> Nat]]
          /\ \A i \in Jobs \ {j} : reported'[i] = reported[i]
          /\ \A d \in Checks : reported'[j][d] = reported[j][d] + (IF d \in {c} THEN 1 ELSE 0)
      BY <1>1, <2>2, Added
    <3>2. \A d \in Checks : reported[j][d] \in Nat
      BY <1>1 DEF RunTypeOK
    <3> QED  BY <1>4, <2>2, <3>1, <3>2
  <2> QED  BY <1>5, <2>1, <2>2
<1>8. /\ pending' \in [Jobs -> SUBSET Checks]
      /\ \A i \in Jobs \ {j} : pending'[i] = pending[i]
      /\ pending'[j] = IF what = "gone" THEN pending[j] ELSE pending[j] \cup {c}
  BY <1>1, <1>5 DEF RunTypes
<1>9. RunTypes'
  <2>1. pending'[j] \subseteq StageChecks(stage[j])
    BY <1>1, <1>2, <1>8 DEF RunTypeOK
  <2> QED  BY <1>1, <1>2, <1>6, <1>7, <1>8, <2>1 DEF RunTypes, RunTypeOK, StageChecks
<1>10. InStep(j)' /\ Whole(j)'
  <2>1. InStep(j)'
    BY <1>1, <1>2, StaysInStep DEF JobInv
  <2>2. Whole(j)'
    BY <1>2, <1>3 DEF Whole
  <2> QED  BY <2>1, <2>2
<1>11. Fits(j, c)'
  BY <1>2, <1>3, <1>4, <1>6, <1>7, <1>8 DEF Fits, StageChecks
<1>12. ASSUME NEW d \in Checks \ {c} PROVE Fits(j, d)'
  <2>1. Fits(j, d) /\ (d \in pending'[j] <=> d \in pending[j])
    BY <1>1, <1>8 DEF JobInv
  <2>2. reported'[j][d] = reported[j][d] /\ check'[j][d] = check[j][d]
    BY <1>6, <1>7
  <2> QED  BY <1>2, <1>3, <2>1, <2>2 DEF Fits, StageChecks
<1>13. JobInv(j)'
  BY <1>10, <1>11, <1>12 DEF JobInv
<1> QED  BY <1>2, <1>6, <1>7, <1>8, <1>9, <1>13, OneRun

LEMMA SubmittedKeeps ==
  ASSUME RunInv, NEW j \in Jobs, Submitted(j), UNCHANGED jobState
  PROVE  RunInv'
<1>1. RunTypes /\ RunTypeOK /\ JobInv(j)
  BY DEF RunInv, RunTypes
<1>2. /\ phase[j] = "submit" /\ UNCHANGED <<loaded, check, pending, reported, saw>>
      /\ \A c \in StageChecks(stage[j]) \cap Checks : check[j][c] # "todo"
  BY DEF Submitted, ToTake, At
<1>3. Owed(j) \subseteq loaded /\ Owed(j)' = Owed(j) /\ stage[j] \in {1, 2}
  BY <1>1, <1>2, OwedKept DEF JobInv, Whole, RunTypeOK
<1>4. /\ phase' \in [Jobs -> Phases] /\ stage' \in [Jobs -> {1, 2}]
      /\ \A i \in Jobs \ {j} : phase'[i] = phase[i] /\ stage'[i] = stage[i]
      /\ \/ /\ pending[j] = {} /\ stage'[j] = 2
            /\ phase'[j] = IF stage[j] = 1 THEN "submit" ELSE "report"
         \/ phase'[j] = "wait" /\ stage'[j] = stage[j]
  <2>1. CASE pending[j] = {}
    <3>1. NextStage(j)
      BY <2>1 DEF Submitted
    <3> QED  BY <1>1, <2>1, <3>1, StageTurns
  <2>2. CASE pending[j] # {}
    <3>1. Goto(j, "submit", "wait") /\ UNCHANGED stage /\ "wait" \in Phases
      BY <2>2 DEF Submitted, Phases
    <3> QED  BY <1>1, <3>1, Gone DEF RunTypeOK
  <2> QED  BY <2>1, <2>2
<1>5. RunTypes'
  <2>1. \A i \in Jobs : pending'[i] \subseteq StageChecks(stage'[i])
    BY <1>1, <1>2, <1>4 DEF RunTypeOK
  <2> QED  BY <1>1, <1>2, <1>4, <2>1 DEF RunTypes, RunTypeOK, StageChecks
<1>6. InStep(j)'
  BY <1>1, <1>2, StaysInStep DEF JobInv
<1>7. Whole(j)'
  BY <1>2, <1>3, <1>4 DEF Whole
<1>8. ASSUME NEW c \in Checks PROVE Fits(j, c)'
  <2>1. Fits(j, c) /\ (c \in StageChecks(stage[j]) => check[j][c] # "todo")
    BY <1>1, <1>2 DEF JobInv
  <2>2. CASE phase'[j] = "wait" /\ stage'[j] = stage[j]
    BY <1>2, <1>3, <2>1, <2>2 DEF Fits, StageChecks
  <2>3. CASE pending[j] = {} /\ stage'[j] = 2 /\ stage[j] = 1 /\ phase'[j] = "submit"
    BY <1>2, <1>3, <2>1, <2>3, StageParts DEF Fits
  <2>4. CASE pending[j] = {} /\ stage'[j] = 2 /\ stage[j] = 2 /\ phase'[j] = "report"
    BY <1>2, <1>3, <2>1, <2>4, StageParts DEF Fits
  <2> QED  BY <1>3, <1>4, <2>2, <2>3, <2>4
<1> QED  BY <1>2, <1>4, <1>5, <1>6, <1>7, <1>8, OneRun DEF JobInv

LEMMA RaiseKeeps ==
  ASSUME RunInv, NEW j \in Jobs, NEW from \in {"submit", "wait", "report"},
         Raise(j, from), UNCHANGED jobState
  PROVE  RunInv'
<1>1. RunTypes /\ RunTypeOK /\ JobInv(j)
  BY DEF RunInv, RunTypes
<1>2. /\ phase[j] = from /\ phase'[j] = "unwind" /\ phase' \in [Jobs -> Phases]
      /\ \A i \in Jobs \ {j} : phase'[i] = phase[i]
      /\ UNCHANGED <<loaded, stage>>
  <2>1. "unwind" \in Phases
    BY DEF Phases
  <2> QED  BY <1>1, <2>1, Gone DEF Raise
<1>3. /\ check' \in [Jobs -> [Checks -> Places]]
      /\ \A i \in Jobs \ {j} : check'[i] = check[i]
      /\ \A c \in Checks : check'[j][c] = IF c \in AtWork(j) THEN check[j][c] ELSE "gone"
  <2> DEFINE row == [c \in Checks |-> IF c \in AtWork(j) THEN check[j][c] ELSE "gone"]
  <2>1. check' = [check EXCEPT ![j] = row]
    BY DEF Raise
  <2>2. row \in [Checks -> Places]
    BY <1>1 DEF RunTypeOK, Places
  <2>3. \A c \in Checks : row[c] = IF c \in AtWork(j) THEN check[j][c] ELSE "gone"
    OBVIOUS
  <2> HIDE DEF row
  <2> QED  BY <1>1, <2>1, <2>2, <2>3 DEF RunTypeOK
<1>4. /\ pending' \in [Jobs -> SUBSET Checks] /\ pending'[j] = {}
      /\ \A i \in Jobs \ {j} : pending'[i] = pending[i]
      /\ saw' \in [Jobs -> SUBSET Checks] /\ \A i \in Jobs \ {j} : saw'[i] = saw[i]
  BY <1>1 DEF Raise, RunTypes, RunTypeOK
<1>5. /\ reported' \in [Jobs -> [Checks -> Nat]]
      /\ \A i \in Jobs \ {j} : reported'[i] = reported[i]
  BY <1>1 DEF Raise, RunTypeOK
<1>6. RunTypes'
  BY <1>1, <1>2, <1>3, <1>4, <1>5 DEF RunTypes, RunTypeOK, StageChecks
<1>7. InStep(j)' /\ Whole(j)'
  <2>1. InStep(j)'
    BY <1>1, <1>2, StaysInStep DEF JobInv
  <2>2. Whole(j)'
    BY <1>2, <1>4 DEF Whole
  <2> QED  BY <2>1, <2>2
<1>8. ASSUME NEW c \in Checks PROVE Fits(j, c)'
  <2>1. Fits(j, c)
    BY <1>1 DEF JobInv
  <2>2. check'[j][c] \in {"queued", "running", "gone"}
    BY <1>3 DEF AtWork, At
  <2>3. check'[j][c] \in {"queued", "running"} => check'[j][c] = check[j][c]
    BY <1>3
  <2> QED  BY <1>2, <1>4, <2>1, <2>2, <2>3 DEF Fits, StageChecks
<1> QED  BY <1>2, <1>3, <1>4, <1>5, <1>6, <1>7, <1>8, OneRun DEF JobInv

LEMMA PoolKeeps ==
  ASSUME RunInv, NEW j \in Jobs, Pool(j), UNCHANGED jobState
  PROVE  RunInv'
<1>1. RunTypes /\ RunTypeOK /\ JobInv(j)
  BY DEF RunInv, RunTypes
<1>2. PICK c \in Checks, to \in {"running", "ended", "broken", "gone"} :
        /\ check[j][c] \in {"queued", "running"}
        /\ check[j][c] = "queued" <=> to = "running"
        /\ to \in {"ended", "broken"} => c \in pending[j]
        /\ to = "gone" => c \notin pending[j]
        /\ Becomes(j, c, to)
        /\ UNCHANGED <<loaded, phase, stage, pending, reported, saw>>
  <2>1. PICK c \in Checks : BeginCheck(j, c) \/ EndCheck(j, c)
    BY DEF Pool
  <2>2. CASE BeginCheck(j, c)
    BY <2>2 DEF BeginCheck
  <2>3. CASE EndCheck(j, c)
    BY <2>3 DEF EndCheck
  <2> QED  BY <2>1, <2>2, <2>3
<1>3. /\ check' \in [Jobs -> [Checks -> Places]]
      /\ \A i \in Jobs \ {j} : check'[i] = check[i]
      /\ \A d \in Checks \ {c} : check'[j][d] = check[j][d]
      /\ check'[j][c] = to
  <2>1. to \in Places
    BY DEF Places
  <2> QED  BY <1>1, <1>2, <2>1, Replaced
<1>4. RunTypes'
  BY <1>1, <1>2, <1>3 DEF RunTypes, RunTypeOK, StageChecks
<1>5. Owed(j)' = Owed(j) /\ Fits(j, c) /\ (phase[j] = "unwind" => c \notin pending[j])
  BY <1>1, <1>2, OwedKept DEF JobInv, Whole
<1>6. InStep(j)' /\ Whole(j)'
  BY <1>1, <1>2, <1>5 DEF JobInv, InStep, Whole
<1>7. Fits(j, c)'
  BY <1>2, <1>3, <1>5 DEF Fits, StageChecks
<1>8. ASSUME NEW d \in Checks \ {c} PROVE Fits(j, d)'
  <2>1. Fits(j, d) /\ check'[j][d] = check[j][d]
    BY <1>1, <1>3 DEF JobInv
  <2> QED  BY <1>2, <1>5, <2>1 DEF Fits, StageChecks
<1>9. JobInv(j)'
  BY <1>6, <1>7, <1>8 DEF JobInv
<1> QED  BY <1>2, <1>3, <1>4, <1>9, OneRun

LEMMA WaitKeeps ==
  ASSUME RunInv, NEW j \in Jobs, WaitReturns(j), UNCHANGED jobState
  PROVE  RunInv'
<1> DEFINE done == pending[j] \cap At(j, "ended")
<1>1. RunTypes /\ RunTypeOK /\ JobInv(j)
  BY DEF RunInv, RunTypes
<1>2. /\ phase[j] = "wait" /\ phase'[j] = "drop" /\ phase' \in [Jobs -> Phases]
      /\ \A i \in Jobs \ {j} : phase'[i] = phase[i]
      /\ UNCHANGED <<loaded, stage, saw>>
  <2>1. "drop" \in Phases
    BY DEF Phases
  <2> QED  BY <1>1, <2>1, Gone DEF WaitReturns
<1>3. /\ reported' \in [Jobs -> [Checks -> Nat]]
      /\ \A i \in Jobs \ {j} : reported'[i] = reported[i]
      /\ \A c \in Checks : reported'[j][c] = reported[j][c] + (IF c \in done THEN 1 ELSE 0)
  BY <1>1, Added DEF WaitReturns
<1>4. /\ pending' \in [Jobs -> SUBSET Checks] /\ pending'[j] = pending[j] \ done
      /\ \A i \in Jobs \ {j} : pending'[i] = pending[i]
  BY <1>1 DEF WaitReturns, RunTypes
<1>5. /\ check' \in [Jobs -> [Checks -> Places]]
      /\ \A i \in Jobs \ {j} : check'[i] = check[i]
      /\ \A c \in Checks : check'[j][c] = IF c \in done THEN "gone" ELSE check[j][c]
  <2> DEFINE row == [c \in Checks |-> IF c \in done THEN "gone" ELSE check[j][c]]
  <2>1. check' = [check EXCEPT ![j] = row]
    BY DEF WaitReturns
  <2>2. row \in [Checks -> Places]
    BY <1>1 DEF RunTypeOK, Places
  <2>3. \A c \in Checks : row[c] = IF c \in done THEN "gone" ELSE check[j][c]
    OBVIOUS
  <2> HIDE DEF row, done
  <2> QED  BY <1>1, <2>1, <2>2, <2>3 DEF RunTypeOK
<1>6. \A c \in Checks : c \in done => c \in pending[j]
  OBVIOUS
<1> HIDE DEF done
<1>7. RunTypes'
  BY <1>1, <1>2, <1>3, <1>4, <1>5 DEF RunTypes, RunTypeOK, StageChecks
<1>8. Owed(j)' = Owed(j)
  BY <1>2, OwedKept
<1>9. InStep(j)' /\ Whole(j)'
  <2>1. InStep(j)'
    BY <1>1, <1>2, StaysInStep DEF JobInv
  <2>2. Whole(j)'
    BY <1>1, <1>2, <1>8 DEF JobInv, Whole
  <2> QED  BY <2>1, <2>2
<1>10. ASSUME NEW c \in Checks PROVE Fits(j, c)'
  <2>1. Fits(j, c) /\ reported[j][c] \in Nat
    BY <1>1 DEF JobInv, RunTypeOK
  <2>2. CASE c \in done
    <3>1. /\ c \in pending[j] /\ reported[j][c] = 0 /\ check[j][c] # "todo"
          /\ ~ (stage[j] = 1 /\ c \in External)
      BY <1>2, <1>6, <2>1, <2>2 DEF Fits
    <3>2. c \notin pending'[j] /\ reported'[j][c] = 1 /\ check'[j][c] = "gone"
      BY <1>3, <1>4, <1>5, <2>2, <3>1
    <3> QED  BY <1>2, <3>1, <3>2 DEF Fits
  <2>3. CASE c \notin done
    <3>1. (c \in pending'[j] <=> c \in pending[j])
          /\ reported'[j][c] = reported[j][c] /\ check'[j][c] = check[j][c]
      BY <1>3, <1>4, <1>5, <2>1, <2>3
    <3> QED  BY <1>2, <1>8, <2>1, <3>1 DEF Fits, StageChecks
  <2> QED  BY <2>2, <2>3
<1> QED  BY <1>2, <1>3, <1>4, <1>5, <1>7, <1>9, <1>10, OneRun DEF JobInv

LEMMA DropKeeps ==
  ASSUME RunInv, NEW j \in Jobs, NEW c \in Checks, Drop(j, c), UNCHANGED jobState
  PROVE  RunInv'
<1> DEFINE what == IF check[j][c] = "running" THEN "running" ELSE "gone"
<1>1. RunTypes /\ RunTypeOK /\ JobInv(j)
  BY DEF RunInv, RunTypes
<1>2. phase[j] = "drop" /\ c \in pending[j] /\ UNCHANGED <<loaded, phase, stage, saw>>
  BY DEF Drop
<1>3. /\ reported' \in [Jobs -> [Checks -> Nat]]
      /\ \A i \in Jobs \ {j} : reported'[i] = reported[i]
      /\ \A d \in Checks : reported'[j][d] = reported[j][d] + (IF d \in {c} THEN 1 ELSE 0)
  BY <1>1, Added DEF Drop
<1>4. /\ pending' \in [Jobs -> SUBSET Checks] /\ pending'[j] = pending[j] \ {c}
      /\ \A i \in Jobs \ {j} : pending'[i] = pending[i]
  BY <1>1 DEF Drop, RunTypes
<1>5. /\ check' \in [Jobs -> [Checks -> Places]]
      /\ \A i \in Jobs \ {j} : check'[i] = check[i]
      /\ \A d \in Checks \ {c} : check'[j][d] = check[j][d]
      /\ check'[j][c] = what
  <2>1. what \in Places /\ Becomes(j, c, what)
    BY DEF Places, Drop
  <2> HIDE DEF what
  <2> QED  BY <1>1, <2>1, Replaced
<1>6. Fits(j, c) /\ Owed(j)' = Owed(j) /\ reported[j][c] \in Nat
  BY <1>1, <1>2, OwedKept DEF JobInv, RunTypeOK
<1>7. RunTypes'
  BY <1>1, <1>2, <1>3, <1>4, <1>5 DEF RunTypes, RunTypeOK, StageChecks
<1>8. InStep(j)' /\ Whole(j)'
  <2>1. InStep(j)'
    BY <1>1, <1>2, StaysInStep DEF JobInv
  <2>2. Whole(j)'
    BY <1>1, <1>2, <1>6 DEF JobInv, Whole
  <2> QED  BY <2>1, <2>2
<1>9. Fits(j, c)'
  <2>1. reported'[j][c] = 1 /\ c \notin pending'[j]
    BY <1>2, <1>3, <1>4, <1>6 DEF Fits
  <2>2. check'[j][c] \in {"running", "gone"} /\ (check'[j][c] = "running" => check[j][c] = "running")
    BY <1>5
  <2>3. ~ (stage[j] = 1 /\ c \in External)
    BY <1>2, <1>6 DEF Fits
  <2> QED  BY <1>2, <1>6, <2>1, <2>2, <2>3 DEF Fits, StageChecks
<1>10. ASSUME NEW d \in Checks \ {c} PROVE Fits(j, d)'
  <2>1. /\ Fits(j, d) /\ (d \in pending'[j] <=> d \in pending[j])
        /\ check'[j][d] = check[j][d] /\ reported'[j][d] = reported[j][d]
    <3>1. reported[j][d] \in Nat
      BY <1>1 DEF RunTypeOK
    <3> QED  BY <1>1, <1>3, <1>4, <1>5, <3>1 DEF JobInv
  <2> QED  BY <1>2, <1>6, <2>1 DEF Fits, StageChecks
<1>11. JobInv(j)'
  BY <1>8, <1>9, <1>10 DEF JobInv
<1> QED  BY <1>2, <1>3, <1>4, <1>5, <1>7, <1>11, OneRun

LEMMA LeaveKeeps ==
  ASSUME RunInv, NEW j \in Jobs, LeavePool(j), UNCHANGED jobState
  PROVE  RunInv'
<1>1. RunTypes /\ RunTypeOK /\ JobInv(j)
  BY DEF RunInv, RunTypes
<1>2. /\ phase[j] = "drop" /\ pending[j] = {} /\ AtWork(j) = {} /\ NextStage(j)
      /\ UNCHANGED <<loaded, check, pending, reported, saw>>
  BY DEF LeavePool
<1>3. /\ phase' \in [Jobs -> Phases] /\ stage' \in [Jobs -> {1, 2}] /\ stage'[j] = 2
      /\ phase'[j] = IF stage[j] = 1 THEN "submit" ELSE "report"
      /\ \A i \in Jobs \ {j} : phase'[i] = phase[i] /\ stage'[i] = stage[i]
  BY <1>1, <1>2, StageTurns
<1>4. Owed(j)' = Owed(j) /\ Owed(j) \subseteq loaded /\ stage[j] \in {1, 2}
  BY <1>1, <1>2, OwedKept DEF JobInv, Whole, RunTypeOK
<1>5. RunTypes'
  <2>1. \A i \in Jobs : pending'[i] \subseteq StageChecks(stage'[i])
    BY <1>1, <1>2, <1>3 DEF RunTypeOK
  <2> QED  BY <1>1, <1>2, <1>3, <2>1 DEF RunTypes, RunTypeOK, StageChecks
<1>6. InStep(j)' /\ Whole(j)'
  <2>1. InStep(j)'
    BY <1>1, <1>2, StaysInStep DEF JobInv
  <2>2. Whole(j)'
    BY <1>2, <1>3, <1>4 DEF Whole
  <2> QED  BY <2>1, <2>2
<1>7. ASSUME NEW c \in Checks PROVE Fits(j, c)'
  <2>1. Fits(j, c) /\ check[j][c] \notin {"queued", "running"} /\ c \notin pending[j]
    BY <1>1, <1>2 DEF JobInv, AtWork, At
  <2>2. CASE stage[j] = 1
    BY <1>2, <1>3, <1>4, <2>1, <2>2, StageParts DEF Fits
  <2>3. CASE stage[j] = 2
    BY <1>2, <1>3, <1>4, <2>1, <2>3, StageParts DEF Fits
  <2> QED  BY <1>4, <2>2, <2>3
<1> QED  BY <1>2, <1>3, <1>5, <1>6, <1>7, OneRun DEF JobInv

LEMMA UnwindKeeps ==
  ASSUME RunInv, NEW j \in Jobs, Unwind(j), UNCHANGED jobState
  PROVE  RunInv'
<1>1. RunTypes /\ RunTypeOK /\ JobInv(j)
  BY DEF RunInv, RunTypes
<1>2. /\ phase[j] = "unwind" /\ phase'[j] = "raised" /\ phase' \in [Jobs -> Phases]
      /\ \A i \in Jobs \ {j} : phase'[i] = phase[i]
      /\ AtWork(j) = {} /\ UNCHANGED <<loaded, check, pending, reported, saw>>
  <2>1. "raised" \in Phases
    BY DEF Phases
  <2> QED  BY <1>1, <2>1, Gone DEF Unwind
<1>3. stage' \in [Jobs -> {1, 2}] /\ \A i \in Jobs \ {j} : stage'[i] = stage[i]
  BY <1>1 DEF Unwind, RunTypeOK
<1>4. pending[j] = {}
  BY <1>1, <1>2 DEF JobInv, Whole
<1>5. RunTypes'
  <2>1. \A i \in Jobs : pending'[i] \subseteq StageChecks(stage'[i])
    BY <1>1, <1>2, <1>3, <1>4 DEF RunTypeOK
  <2> QED  BY <1>1, <1>2, <1>3, <2>1 DEF RunTypes, RunTypeOK, StageChecks
<1>6. InStep(j)' /\ Whole(j)'
  <2>1. InStep(j)'
    BY <1>1, <1>2, StaysInStep DEF JobInv
  <2>2. Whole(j)'
    BY <1>2, <1>4 DEF Whole
  <2> QED  BY <2>1, <2>2
<1>7. ASSUME NEW c \in Checks PROVE Fits(j, c)'
  <2>1. check[j][c] \in Places /\ check[j][c] \notin {"queued", "running"}
    BY <1>1, <1>2 DEF AtWork, At, RunTypeOK
  <2>2. check[j][c] \in {"todo", "gone"}
    BY <1>1, <1>2, <1>4, <2>1 DEF JobInv, Fits, Places
  <2> QED  BY <1>2, <1>4, <2>2 DEF Fits
<1> QED  BY <1>2, <1>3, <1>5, <1>6, <1>7, OneRun DEF JobInv

LEMMA ReportKeeps ==
  ASSUME RunInv, NEW j \in Jobs, SaveReport(j)
  PROVE  RunInv'
<1>1. RunTypes /\ RunTypeOK /\ JobInv(j)
  BY DEF RunInv, RunTypes
<1>2. /\ phase[j] = "report" /\ phase'[j] = "over" /\ phase' \in [Jobs -> Phases]
      /\ \A i \in Jobs \ {j} : phase'[i] = phase[i]
      /\ UNCHANGED <<loaded, stage, check, pending, reported, saw, jobState>>
  <2>1. "over" \in Phases
    BY DEF Phases
  <2> QED  BY <1>1, <2>1, Gone DEF SaveReport, jobsVars, localVars
<1>3. RunTypes'
  BY <1>1, <1>2 DEF RunTypes, RunTypeOK, StageChecks
<1>4. InStep(j)' /\ Whole(j)'
  <2>1. InStep(j)'
    BY <1>1, <1>2, StaysInStep DEF JobInv
  <2>2. Whole(j)'
    BY <1>1, <1>2 DEF JobInv, Whole
  <2> QED  BY <2>1, <2>2
<1>5. ASSUME NEW c \in Checks PROVE Fits(j, c)'
  <2>1. Fits(j, c) /\ Owed(j)' = Owed(j)
    BY <1>1, <1>2, OwedKept DEF JobInv
  <2> QED  BY <1>2, <2>1 DEF Fits, StageChecks
<1> QED  BY <1>2, <1>3, <1>4, <1>5, OneRun DEF JobInv

\* The steps of a job outside run_diag(): its run stays as it is.
LEMMA StateKeeps ==
  ASSUME RunInv, NEW j \in Jobs, UNCHANGED runVars,
         NEW how \in {"running", "done", "failed"}, jobState' = [jobState EXCEPT ![j] = how],
         how = "done" => phase[j] = "over", how = "failed" => phase[j] = "raised"
  PROVE  RunInv'
<1>1. RunTypes /\ RunTypeOK /\ JobInv(j)
  BY DEF RunInv, RunTypes
<1>2. UNCHANGED <<loaded, phase, stage, check, pending, reported, saw>>
  BY DEF runVars, localVars
<1>3. RunTypes' /\ jobState'[j] = how /\ \A i \in Jobs \ {j} : jobState'[i] = jobState[i]
  BY <1>1, <1>2 DEF RunTypes, RunTypeOK, StageChecks
<1>4. InStep(j)'
  BY <1>2, <1>3 DEF InStep
<1>5. Whole(j)' /\ \A c \in Checks : Fits(j, c)'
  <2>1. Owed(j)' = Owed(j)
    BY <1>2, OwedKept
  <2>2. Whole(j)'
    BY <1>1, <1>2, <2>1 DEF JobInv, Whole
  <2>3. ASSUME NEW c \in Checks PROVE Fits(j, c)'
    <3>1. Fits(j, c)
      BY <1>1 DEF JobInv
    <3> QED  BY <1>2, <2>1, <3>1 DEF Fits, StageChecks
  <2> QED  BY <2>2, <2>3
<1> QED  BY <1>2, <1>3, <1>4, <1>5, OneRun DEF JobInv

LEMMA RequestKeeps ==
  ASSUME RunInv, NEW j \in Jobs, DiagRunRequest(j)
  PROVE  RunInv'
<1>1. RunTypes /\ RunTypeOK /\ JobInv(j)
  BY DEF RunInv, RunTypes
<1>2. /\ phase[j] = "none" /\ phase'[j] = "setup" /\ phase' \in [Jobs -> Phases]
      /\ \A i \in Jobs \ {j} : phase'[i] = phase[i]
      /\ UNCHANGED <<loaded, stage, check, pending, reported, saw>>
  <2>1. "setup" \in Phases
    BY DEF Phases
  <2> QED  BY <1>1, <2>1, Gone DEF DiagRunRequest, StartRun, localVars
<1>3. jobState' = [jobState EXCEPT ![j] = "running"]
  BY DEF DiagRunRequest, Create
<1>4. RunTypes' /\ jobState'[j] = "running" /\ \A i \in Jobs \ {j} : jobState'[i] = jobState[i]
  BY <1>1, <1>2, <1>3 DEF RunTypes, RunTypeOK, StageChecks
<1>5. InStep(j)' /\ Whole(j)'
  BY <1>1, <1>2, <1>4 DEF JobInv, Whole, InStep
<1>6. ASSUME NEW c \in Checks PROVE Fits(j, c)'
  <2>1. Fits(j, c)
    BY <1>1 DEF JobInv
  <2> QED  BY <1>2, <2>1 DEF Fits
<1> QED  BY <1>2, <1>4, <1>5, <1>6, OneRun DEF JobInv

LEMMA RunKeeps ==
  ASSUME RunInv, [Next]_vars
  PROVE  RunInv'
<1>1. ASSUME NEW j \in Jobs, DiagRunRequest(j) PROVE RunInv'
  BY <1>1, RequestKeeps
<1>2. ASSUME NEW j \in Jobs, ThreadFails(j) PROVE RunInv'
  BY <1>2, StateKeeps DEF ThreadFails, Create
<1>3. ASSUME NEW j \in Jobs, RunStep(j) PROVE RunInv'
  <2>1. UNCHANGED jobState /\ (RunDiag(j) \/ Pool(j))
    BY <1>3 DEF RunStep, jobsVars
  <2>2. CASE Pool(j)
    BY <2>1, <2>2, PoolKeeps
  <2>3. CASE LookUp(j) \/ Import(j) \/ Submitted(j) \/ WaitReturns(j) \/ LeavePool(j) \/ Unwind(j)
    BY <2>1, <2>3, LookUpKeeps, ImportKeeps, SubmittedKeeps, WaitKeeps, LeaveKeeps, UnwindKeeps
  <2>4. CASE SubmitRaises(j) \/ ReadRaises(j)
    BY <2>1, <2>4, RaiseKeeps DEF SubmitRaises, ReadRaises
  <2>5. CASE \E c \in Checks : Take(j, c) \/ Drop(j, c)
    BY <2>1, <2>5, TakeKeeps, DropKeeps
  <2> QED  BY <2>1, <2>2, <2>3, <2>4, <2>5 DEF RunDiag
<1>4. ASSUME NEW j \in Jobs, SaveReport(j) PROVE RunInv'
  BY <1>4, ReportKeeps
<1>5. ASSUME NEW j \in Jobs, SaveRaises(j) PROVE RunInv'
  BY <1>5, RaiseKeeps DEF SaveRaises, jobsVars
<1>6. ASSUME NEW j \in Jobs, FinishJob(j) PROVE RunInv'
  BY <1>6, StateKeeps DEF FinishJob, Finish
<1>7. CASE UNCHANGED <<jobsVars, runVars>>
  <2>1. UNCHANGED <<loaded, phase, stage, check, pending, reported, saw, jobState>>
    BY <1>7 DEF jobsVars, runVars, localVars
  <2>2. ASSUME NEW i \in Jobs PROVE JobInv(i)'
    <3>1. JobInv(i) /\ Owed(i)' = Owed(i)
      BY <2>1, OwedKept DEF RunInv
    <3>2. InStep(i)' /\ Whole(i)'
      BY <2>1, <3>1 DEF JobInv, InStep, Whole
    <3>3. ASSUME NEW c \in Checks PROVE Fits(i, c)'
      BY <2>1, <3>1 DEF JobInv, Fits, StageChecks
    <3> QED  BY <3>2, <3>3 DEF JobInv
  <2>3. RunTypes'
    BY <2>1 DEF RunInv, RunTypes, RunTypeOK, StageChecks
  <2> QED  BY <2>2, <2>3 DEF RunInv
<1> QED  BY <1>1, <1>2, <1>3, <1>4, <1>5, <1>6, <1>7 DEF Next, Job, Delete, Clear, vars

LEMMA RunInvariant == Spec => []RunInv
<1>1. Init => RunInv
  <2>1. SUFFICES ASSUME Init PROVE RunInv
    OBVIOUS
  <2>2. /\ loaded = {} /\ phase = [j \in Jobs |-> "none"] /\ stage = [j \in Jobs |-> 1]
        /\ check = [j \in Jobs |-> [c \in Checks |-> "todo"]]
        /\ pending = [j \in Jobs |-> {}]
        /\ reported = [j \in Jobs |-> [c \in Checks |-> 0]]
        /\ saw = [j \in Jobs |-> {}] /\ jobState = [j \in Jobs |-> "none"]
    BY <2>1 DEF Init, JobsInit, RunInit
  <2>3. RunTypes
    BY <2>2 DEF RunTypes, RunTypeOK, Phases, Places
  <2>4. ASSUME NEW j \in Jobs PROVE JobInv(j)
    BY <2>2 DEF JobInv, InStep, Whole, Fits
  <2> QED  BY <2>3, <2>4 DEF RunInv
<1>2. RunInv /\ [Next]_vars => RunInv'
  BY RunKeeps
<1> QED  BY <1>1, <1>2, PTL DEF Spec

\* Every report has one result for every check that the registry owed the run,
\* whatever other runs import meanwhile, however many checks are late, and
\* whichever end between the deadline and their cancellation; no check has two
\* (engine.py:59-68, 149-177).
THEOREM ReportComplete == Spec => []OncePerCheck
<1>1. RunInv => OncePerCheck
  BY DEF RunInv, JobInv, Fits, OncePerCheck
<1> QED  BY <1>1, RunInvariant, PTL

\* No check is queued or runs outside its stage, in any number of runs at the
\* same time, those that raise included (engine.py:143-182).
THEOREM StagesStayApart == Spec => []StagesApart
<1>1. RunInv => StagesApart
  BY DEF RunInv, JobInv, Fits, StagesApart
<1> QED  BY <1>1, RunInvariant, PTL

\* What the end of a run means, for its job and for the history.
LEMMA EndedWhole ==
  ASSUME RunInv, NEW j \in Jobs, phase[j] \in {"report", "over"}
  PROVE  AtWork(j) = {} /\ \A c \in Owed(j) : reported[j][c] = 1
<1>1. \A c \in Checks : Fits(j, c)
  BY DEF RunInv, JobInv
<1>2. Owed(j) \subseteq Checks
  BY DEF RunInv, RunTypes, RunTypeOK, Owed
<1> QED  BY <1>1, <1>2 DEF Fits, AtWork, At

\* A job that is done has in its report every check that its run answers for,
\* and nothing at work any more: a run misses only checks that another was still
\* importing when it looked into the registry (engine.py:59-62, app.py:384-402,
\* jobs.py:51-55).
THEOREM DoneIsComplete == Spec => []DoneMeansComplete
<1>1. RunInv => DoneMeansComplete
  <2>1. ASSUME RunInv, NEW j \in Jobs, jobState[j] = "done" PROVE phase[j] = "over"
    BY <2>1 DEF RunInv, JobInv, InStep
  <2> QED  BY <2>1, EndedWhole DEF DoneMeansComplete
<1> QED  BY <1>1, RunInvariant, PTL

-----------------------------------------------------------------------------
(* Joining the lists of a list *)

\* f is the function that FlattenSeq() reads its result from.
Joins(f, h) == f = [i \in 1..Len(h) |-> IF i = 1 THEN h[i] ELSE f[i - 1] \o h[i]]

LEMMA JoinsOne ==
  ASSUME NEW S, NEW h \in Seq(S), NEW f, NEW g, Joins(f, h), Joins(g, h)
  PROVE  f = g
<1>1. ASSUME NEW n \in 1..Len(h), f[n] # g[n]
      PROVE  FALSE
  <2> DEFINE D == {i \in 1..Len(h) : f[i] # g[i]}
  <2>1. D \subseteq Nat /\ D # {}
    BY <1>1
  <2>2. PICK m \in D : \A k \in D : m <= k
    BY <2>1, Least
  <2>3. m # 1
    BY <2>2 DEF Joins
  <2>4. m - 1 \in 1..Len(h) /\ m - 1 \notin D
    <3>1. m \in Nat /\ m >= 1 /\ m <= Len(h) /\ Len(h) \in Nat
      BY <2>2
    <3>2. m - 1 \in 1..Len(h) /\ ~ (m <= m - 1)
      BY <2>3, <3>1
    <3> HIDE DEF D
    <3> QED  BY <2>2, <3>2
  <2>5. f[m - 1] = g[m - 1]
    BY <2>4
  <2>6. f[m] = IF m = 1 THEN h[m] ELSE f[m - 1] \o h[m]
    BY <2>2 DEF Joins
  <2>7. g[m] = IF m = 1 THEN h[m] ELSE g[m - 1] \o h[m]
    BY <2>2 DEF Joins
  <2> QED  BY <2>2, <2>5, <2>6, <2>7
<1>2. DOMAIN f = 1..Len(h) /\ DOMAIN g = 1..Len(h)
  BY DEF Joins
<1>3. f = [n \in 1..Len(h) |-> f[n]] /\ g = [n \in 1..Len(h) |-> g[n]]
  BY Zenon DEF Joins
<1> QED  BY <1>1, <1>3

LEMMA JoinsSome ==
  ASSUME NEW S, NEW h \in Seq(S)
  PROVE  \E f : Joins(f, h)
<1> DEFINE T == {u \in Seq(S) : \E f : Joins(f, u)}
<1>1. <<>> \in T
  <2>1. Joins([i \in 1..0 |-> <<>>], <<>>)
    BY DEF Joins
  <2> QED  BY <2>1
<1>2. ASSUME NEW u \in Seq(S), NEW e \in S, u \in T
      PROVE  Append(u, e) \in T
  <2>1. PICK f : Joins(f, u)
    BY <1>2
  <2> DEFINE v == Append(u, e)
             g == [n \in 1..Len(v) |->
                     IF n <= Len(u) THEN f[n] ELSE IF n = 1 THEN e ELSE f[n - 1] \o e]
  <2>2. /\ v \in Seq(S) /\ Len(u) \in Nat /\ Len(v) = Len(u) + 1 /\ v[Len(u) + 1] = e
        /\ \A n \in 1..Len(u) : v[n] = u[n]
    BY AppendProperties
  <2> HIDE DEF v
  <2>3. ASSUME NEW n \in 1..Len(v)
        PROVE  g[n] = IF n = 1 THEN v[n] ELSE g[n - 1] \o v[n]
    <3>1. CASE n = 1 /\ n <= Len(u)
      <4>1. g[n] = f[n] /\ v[n] = u[n] /\ n \in 1..Len(u)
        BY <2>2, <3>1
      <4> HIDE DEF g
      <4> QED  BY <2>1, <3>1, <4>1 DEF Joins
    <3>2. CASE n # 1 /\ n <= Len(u)
      <4>1. n \in 1..Len(u) /\ n - 1 \in 1..Len(u) /\ n - 1 \in 1..Len(v) /\ n - 1 <= Len(u)
        BY <2>2, <3>2
      <4>2. g[n] = f[n] /\ g[n - 1] = f[n - 1] /\ v[n] = u[n]
        BY <2>2, <3>2, <4>1
      <4>3. f[n] = f[n - 1] \o u[n]
        BY <2>1, <3>2, <4>1 DEF Joins
      <4> HIDE DEF g
      <4> QED  BY <3>2, <4>2, <4>3
    <3>3. CASE n > Len(u)
      <4>1. n = Len(u) + 1 /\ ~ (n <= Len(u))
        BY <2>2, <3>3
      <4>2. v[n] = e
        BY <2>2, <4>1
      <4>3. CASE n = 1
        <5>1. g[n] = e
          BY <4>1, <4>3
        <5> HIDE DEF g
        <5> QED  BY <4>2, <4>3, <5>1
      <4>4. CASE n # 1
        <5>1. n - 1 = Len(u) /\ n - 1 \in 1..Len(v) /\ n - 1 <= Len(u)
          BY <2>2, <4>1, <4>4
        <5>2. g[n - 1] = f[n - 1] /\ g[n] = f[n - 1] \o e
          BY <4>1, <4>4, <5>1
        <5> HIDE DEF g
        <5> QED  BY <4>2, <4>4, <5>2
      <4> QED  BY <4>3, <4>4
    <3> QED  BY <2>2, <3>1, <3>2, <3>3
  <2>4. g = [n \in 1..Len(v) |-> g[n]]
    OBVIOUS
  <2> HIDE DEF g
  <2>5. Joins(g, v)
    BY <2>3, <2>4 DEF Joins
  <2> QED  BY <2>2, <2>5 DEF v
<1> HIDE DEF T
<1>3. h \in T
  BY <1>1, <1>2, ListInduction
<1> QED  BY <1>3 DEF T

LEMMA FlattenJoins ==
  ASSUME NEW S, NEW h \in Seq(S), NEW f, Joins(f, h), h # <<>>
  PROVE  FlattenSeq(h) = f[Len(h)]
<1> DEFINE F == CHOOSE g : Joins(g, h)
<1>1. Joins(F, h)
  BY JoinsSome
<1> HIDE DEF F
<1>2. F = f
  BY <1>1, JoinsOne
<1>3. Len(h) # 0
  BY EmptySeq
<1>4. FlattenSeq(h) = F[Len(h)]
  BY Zenon, <1>3 DEF FlattenSeq, Joins, F
<1> QED  BY <1>2, <1>4

LEMMA FlattenEmpty == FlattenSeq(<<>>) = <<>>
BY DEF FlattenSeq

LEMMA FlattenAppend ==
  ASSUME NEW S, NEW h \in Seq(Seq(S)), NEW w \in Seq(S)
  PROVE  FlattenSeq(Append(h, w)) = FlattenSeq(h) \o w
<1> DEFINE v == Append(h, w)
<1>1. /\ v \in Seq(Seq(S)) /\ Len(h) \in Nat /\ Len(v) = Len(h) + 1 /\ v[Len(h) + 1] = w
      /\ v # <<>> /\ \A n \in 1..Len(h) : v[n] = h[n]
  BY AppendProperties
<1> HIDE DEF v
<1>2. PICK F : Joins(F, v)
  BY <1>1, JoinsSome
<1>3. FlattenSeq(v) = F[Len(v)]
  BY <1>1, <1>2, FlattenJoins
<1>4. CASE h = <<>>
  <2>1. Len(v) = 1 /\ v[1] = w
    BY <1>1, <1>4, EmptySeq
  <2>2. F[1] = w
    BY <1>2, <2>1 DEF Joins
  <2>3. <<>> \o w = w
    BY ConcatEmptySeq
  <2> QED  BY Zenon, <1>3, <1>4, <2>1, <2>2, <2>3, FlattenEmpty DEF v
<1>5. CASE h # <<>>
  <2> DEFINE f == [n \in 1..Len(h) |-> F[n]]
  <2>1. ASSUME NEW n \in 1..Len(h)
        PROVE  F[n] = IF n = 1 THEN h[n] ELSE f[n - 1] \o h[n]
    <3>1. n \in 1..Len(v) /\ v[n] = h[n]
      BY <1>1
    <3>2. F[n] = IF n = 1 THEN h[n] ELSE F[n - 1] \o h[n]
      BY <1>2, <3>1 DEF Joins
    <3>3. n # 1 => f[n - 1] = F[n - 1]
      <4>1. n # 1 => n - 1 \in 1..Len(h)
        BY <1>1
      <4> QED  BY <4>1
    <3> HIDE DEF f
    <3> QED  BY <3>2, <3>3
  <2>2. Joins(f, h)
    BY <2>1 DEF Joins
  <2>3. Len(h) \in 1..Len(h) /\ Len(v) \in 1..Len(v) /\ Len(v) # 1 /\ Len(v) - 1 = Len(h)
    BY <1>1, <1>5, EmptySeq
  <2>4. F[Len(v)] = F[Len(h)] \o w
    BY <1>1, <1>2, <2>3 DEF Joins
  <2>5. f[Len(h)] = F[Len(h)]
    BY <2>3
  <2> HIDE DEF f
  <2>6. FlattenSeq(h) = f[Len(h)]
    BY <1>5, <2>2, FlattenJoins
  <2> QED  BY Zenon, <1>3, <2>4, <2>5, <2>6 DEF v
<1> QED  BY <1>4, <1>5

LEMMA FlattenType ==
  ASSUME NEW S, NEW h \in Seq(Seq(S))
  PROVE  FlattenSeq(h) \in Seq(S)
<1> DEFINE T == {u \in Seq(Seq(S)) : FlattenSeq(u) \in Seq(S)}
<1>1. <<>> \in T
  BY Zenon, FlattenEmpty, EmptySeq
<1>2. ASSUME NEW u \in Seq(Seq(S)), NEW w \in Seq(S), u \in T
      PROVE  Append(u, w) \in T
  <2>1. FlattenSeq(Append(u, w)) = FlattenSeq(u) \o w /\ Append(u, w) \in Seq(Seq(S))
    BY FlattenAppend, AppendProperties
  <2>2. FlattenSeq(u) \o w \in Seq(S)
    BY <1>2, ConcatProperties
  <2> QED  BY Zenon, <2>1, <2>2
<1> HIDE DEF T
<1>3. h \in T
  BY <1>1, <1>2, ListInduction
<1> QED  BY <1>3 DEF T

\* The days one after the other.
LEMMA FlattenDays ==
  ASSUME NEW S, NEW h \in Seq(Seq(S)), NEW n \in 0..(Len(h) - 1)
  PROVE  /\ FlattenSeq(SubSeq(h, 1, n)) \in Seq(S)
         /\ FlattenSeq(SubSeq(h, 1, n + 1)) = FlattenSeq(SubSeq(h, 1, n)) \o h[n + 1]
<1> DEFINE u == SubSeq(h, 1, n)
<1>1. Len(h) \in Nat /\ n \in Nat /\ n + 1 \in 1..Len(h) /\ \A i \in 1..Len(h) : h[i] \in Seq(S)
  BY ElementOfSeq
<1>2. u \in Seq(Seq(S)) /\ Len(u) = n /\ \A i \in 1..n : u[i] = h[i]
  <2>1. \A i \in 1..n : h[i] \in Seq(S)
    BY <1>1
  <2> QED  BY <1>1, <2>1, SubSeqProperties
<1>3. /\ SubSeq(h, 1, n + 1) \in Seq(Seq(S)) /\ Len(SubSeq(h, 1, n + 1)) = n + 1
      /\ \A i \in 1..(n + 1) : SubSeq(h, 1, n + 1)[i] = h[i]
  <2>1. \A i \in 1..(n + 1) : h[i] \in Seq(S)
    BY <1>1
  <2> QED  BY <1>1, <2>1, SubSeqProperties
<1> HIDE DEF u
<1>4. /\ Append(u, h[n + 1]) \in Seq(Seq(S)) /\ Len(Append(u, h[n + 1])) = n + 1
      /\ \A i \in 1..n : Append(u, h[n + 1])[i] = u[i]
      /\ Append(u, h[n + 1])[n + 1] = h[n + 1]
  <2>1. h[n + 1] \in Seq(S)
    BY <1>1
  <2>2. /\ Append(u, h[n + 1]) \in Seq(Seq(S)) /\ Len(Append(u, h[n + 1])) = Len(u) + 1
        /\ \A i \in 1..Len(u) : Append(u, h[n + 1])[i] = u[i]
        /\ Append(u, h[n + 1])[Len(u) + 1] = h[n + 1]
    BY <1>2, <2>1, AppendProperties
  <2> QED  BY <1>2, <2>2
<1>5. SubSeq(h, 1, n + 1) = Append(u, h[n + 1])
  <2>1. ASSUME NEW i \in 1..(n + 1)
        PROVE  SubSeq(h, 1, n + 1)[i] = Append(u, h[n + 1])[i]
    <3>1. CASE i \in 1..n
      BY <1>2, <1>3, <1>4, <3>1
    <3>2. CASE i = n + 1
      BY <1>2, <1>3, <1>4, <3>2
    <3>3. i \in 1..n \/ i = n + 1
      BY <1>1
    <3> QED  BY <3>1, <3>2, <3>3
  <2> QED  BY <1>3, <1>4, <2>1, SeqEqual
<1> QED  BY <1>1, <1>2, <1>5, FlattenAppend, FlattenType DEF u

LEMMA DayInduction ==
  ASSUME NEW N \in Nat, NEW T, 0 \in T, \A n \in 0..(N - 1) : n \in T => n + 1 \in T
  PROVE  \A n \in 0..N : n \in T
<1> DEFINE Bad == {n \in 0..N : n \notin T}
<1>1. SUFFICES ASSUME Bad # {} PROVE FALSE
  OBVIOUS
<1>2. Bad \subseteq Nat
  OBVIOUS
<1>3. PICK m \in Bad : \A k \in Bad : m <= k
  BY <1>1, <1>2, Least
<1>4. m # 0 /\ m \in Nat /\ m <= N /\ m \notin T
  BY <1>3
<1>5. m - 1 \in 0..N /\ m - 1 \in 0..(N - 1) /\ (m - 1) + 1 = m /\ ~ (m <= m - 1)
  BY <1>4
<1>6. m - 1 \notin Bad
  <2> HIDE DEF Bad
  <2> QED  BY <1>3, <1>5
<1>7. m - 1 \in T
  BY <1>5, <1>6
<1> QED  BY <1>4, <1>5, <1>7

\* The reports of the days up to n, and how those of one day more follow.
UpTo(h, n) == FlattenSeq(SubSeq(h, 1, n))

LEMMA DaysJoined ==
  ASSUME NEW S, NEW h \in [Days -> Seq(S)]
  PROVE  /\ UpTo(h, 0) = <<>>
         /\ \A n \in 0..LastDay : UpTo(h, n) \in Seq(S)
         /\ \A n \in 0..(LastDay - 1) : UpTo(h, n + 1) = UpTo(h, n) \o h[n + 1]
         /\ FlattenSeq(h) = UpTo(h, LastDay)
         /\ FlattenSeq(h) \in Seq(S)
<1>1. LastDay \in Nat /\ LastDay # 0 /\ Days = 1..LastDay
  BY HistoryAssumption DEF Days
<1>2. h \in Seq(Seq(S)) /\ Len(h) = LastDay
  BY <1>1
<1>3. SubSeq(h, 1, 0) = <<>> /\ SubSeq(h, 1, LastDay) = h
  BY <1>1, <1>2, SubSeqEmpty, SubSeqFull
<1>4. UpTo(h, 0) = <<>> /\ FlattenSeq(h) = UpTo(h, LastDay)
  BY Zenon, <1>3, FlattenEmpty DEF UpTo
<1>5. ASSUME NEW n \in 0..(LastDay - 1)
      PROVE  UpTo(h, n) \in Seq(S) /\ UpTo(h, n + 1) = UpTo(h, n) \o h[n + 1]
  BY <1>2, <1>5, FlattenDays DEF UpTo
<1>6. FlattenSeq(h) \in Seq(S)
  BY <1>2, FlattenType
<1>7. ASSUME NEW n \in 0..LastDay
      PROVE  UpTo(h, n) \in Seq(S)
  <2>1. n \in 0..(LastDay - 1) \/ n = LastDay
    BY <1>1
  <2> QED  BY <1>4, <1>5, <1>6, <2>1
<1> QED  BY <1>4, <1>5, <1>6, <1>7

\* Taking reports out of every file takes them out of the log.
LEMMA WithoutDays ==
  ASSUME NEW S, NEW h \in [Days -> Seq(S)], NEW X
  PROVE  LET g == [d \in Days |-> Without(h[d], X)]
         IN  g \in [Days -> Seq(S)] /\ FlattenSeq(g) = Without(FlattenSeq(h), X)
<1> DEFINE g == [d \in Days |-> Without(h[d], X)]
<1>1. /\ g \in [Days -> Seq(S)]
      /\ \A d \in Days : g[d] = Without(h[d], X)
  <2>1. ASSUME NEW d \in Days PROVE Without(h[d], X) \in Seq(S)
    <3>1. Without(h[d], X) \in Seq(S \ X)
      BY WithoutElements
    <3> QED  BY <3>1, SeqMonotonic
  <2> QED  BY <2>1
<1> HIDE DEF g
<1> DEFINE T == {n \in 0..LastDay : UpTo(g, n) = Without(UpTo(h, n), X)}
<1>2. LastDay \in Nat /\ Days = 1..LastDay
  BY HistoryAssumption DEF Days
<1>3. 0 \in T
  <2>1. 0 \in 0..LastDay
    BY <1>2
  <2> QED  BY Zenon, <1>1, <2>1, DaysJoined, WithoutEmpty
<1>4. ASSUME NEW n \in 0..(LastDay - 1), n \in T
      PROVE  n + 1 \in T
  <2>1. n \in 0..LastDay /\ n + 1 \in 0..LastDay /\ n + 1 \in Days
    BY <1>2
  <2>2. UpTo(g, n + 1) = UpTo(g, n) \o g[n + 1] /\ UpTo(h, n + 1) = UpTo(h, n) \o h[n + 1]
    BY <1>1, DaysJoined
  <2>3. UpTo(h, n) \in Seq(S) /\ h[n + 1] \in Seq(S)
    BY <2>1, DaysJoined
  <2>4. Without(UpTo(h, n) \o h[n + 1], X) = Without(UpTo(h, n), X) \o Without(h[n + 1], X)
    BY <2>3, WithoutConcat
  <2>5. UpTo(g, n + 1) = Without(UpTo(h, n + 1), X)
    BY Zenon, <1>4, <1>1, <2>1, <2>2, <2>4
  <2> QED  BY Zenon, <2>1, <2>5
<1> HIDE DEF T
<1>5. \A n \in 0..LastDay : n \in T
  BY <1>2, <1>3, <1>4, DayInduction
<1>6. LastDay \in T
  BY <1>2, <1>5
<1> QED  BY Zenon, <1>6, <1>1, DaysJoined DEF T, g

\* A report written to the last file that is not empty is the last of the log.
LEMMA AppendDays ==
  ASSUME NEW S, NEW h \in [Days -> Seq(S)], NEW g \in [Days -> Seq(S)],
         NEW today \in Days, NEW e \in S,
         g[today] = Append(h[today], e),
         \A d \in Days : d # today => g[d] = h[d],
         \A d \in Days : d > today => h[d] = <<>>
  PROVE  FlattenSeq(g) = Append(FlattenSeq(h), e)
<1> DEFINE T == {n \in 0..LastDay :
                   UpTo(g, n) = IF n < today THEN UpTo(h, n) ELSE Append(UpTo(h, n), e)}
<1>1. LastDay \in Nat /\ Days = 1..LastDay /\ today \in 1..LastDay
  BY HistoryAssumption DEF Days
<1>2. 0 \in T
  <2>1. 0 \in 0..LastDay /\ 0 < today
    BY <1>1
  <2> QED  BY Zenon, <2>1, DaysJoined
<1>3. ASSUME NEW n \in 0..(LastDay - 1), n \in T
      PROVE  n + 1 \in T
  <2>1. n \in 0..LastDay /\ n + 1 \in 0..LastDay /\ n + 1 \in Days /\ n \in Nat
    BY <1>1
  <2>2. UpTo(g, n + 1) = UpTo(g, n) \o g[n + 1] /\ UpTo(h, n + 1) = UpTo(h, n) \o h[n + 1]
    BY DaysJoined
  <2>3. UpTo(h, n) \in Seq(S) /\ h[n + 1] \in Seq(S)
    BY <2>1, DaysJoined
  <2>4. CASE n + 1 < today
    <3>1. n < today /\ n + 1 # today
      BY <1>1, <2>1, <2>4
    <3>2. UpTo(g, n) = UpTo(h, n) /\ g[n + 1] = h[n + 1]
      BY <1>3, <2>1, <3>1
    <3> QED  BY Zenon, <2>1, <2>2, <2>4, <3>2
  <2>5. CASE n + 1 = today
    <3>1. n < today /\ ~ (n + 1 < today)
      BY <1>1, <2>1, <2>5
    <3>2. UpTo(g, n) = UpTo(h, n) /\ g[n + 1] = Append(h[n + 1], e)
      BY <1>3, <2>5, <3>1
    <3>3. UpTo(h, n) \o Append(h[n + 1], e) = Append(UpTo(h, n) \o h[n + 1], e)
      <4> DEFINE a == UpTo(h, n)
                 b == h[n + 1]
      <4>1. a \in Seq(S) /\ b \in Seq(S)
        BY <2>3
      <4> HIDE DEF a, b
      <4>2. a \o Append(b, e) = Append(a \o b, e)
        BY <4>1, ConcatAppend
      <4> QED  BY Zenon, <4>2 DEF a, b
    <3> QED  BY Zenon, <2>1, <2>2, <3>1, <3>2, <3>3
  <2>6. CASE n + 1 > today
    <3>1. ~ (n < today) /\ n + 1 # today /\ ~ (n + 1 < today)
      BY <1>1, <2>1, <2>6
    <3>2. UpTo(g, n) = Append(UpTo(h, n), e) /\ g[n + 1] = <<>> /\ h[n + 1] = <<>>
      BY <1>3, <2>1, <2>6, <3>1
    <3>3. Append(UpTo(h, n), e) \o <<>> = Append(UpTo(h, n), e) /\ UpTo(h, n) \o <<>> = UpTo(h, n)
      <4>1. Append(UpTo(h, n), e) \in Seq(S)
        BY <2>3, AppendProperties
      <4> QED  BY <2>3, <4>1, ConcatEmptySeq
    <3>4. UpTo(g, n + 1) = Append(UpTo(h, n + 1), e)
      BY Zenon, <2>2, <3>2, <3>3
    <3> QED  BY Zenon, <2>1, <3>1, <3>4
  <2>7. n + 1 < today \/ n + 1 = today \/ n + 1 > today
    BY <1>1, <2>1
  <2> QED  BY <2>4, <2>5, <2>6, <2>7
<1> HIDE DEF T
<1>4. \A n \in 0..LastDay : n \in T
  BY <1>1, <1>2, <1>3, DayInduction
<1>5. LastDay \in T /\ ~ (LastDay < today)
  BY <1>1, <1>4
<1>6. UpTo(g, LastDay) = Append(UpTo(h, LastDay), e)
  BY <1>5 DEF T
<1> QED  BY Zenon, <1>6, DaysJoined


\* The end of a list, element by element.
LEMMA EndOf ==
  ASSUME NEW S, NEW s \in Seq(S), NEW m \in Nat
  PROVE  LET p == Len(s)
             a == SubSeq(s, m + 1, p)
         IN  /\ a \in Seq(S) /\ Len(a) \in Nat
             /\ m <= p => Len(a) = p - m
             /\ m > p => Len(a) = 0
             /\ \A i \in 1..Len(a) : a[i] = s[m + i]
<1> DEFINE p == Len(s)
           a == SubSeq(s, m + 1, p)
<1>1. \A i \in (m + 1)..p : s[i] \in S
  <2>1. SUFFICES ASSUME NEW i \in (m + 1)..p PROVE s[i] \in S
    OBVIOUS
  <2>2. i \in 1..Len(s)
    OBVIOUS
  <2> QED  BY <2>2, ElementOfSeq
<1>2. m + 1 \in Int /\ p \in Int /\ p \in Nat
  OBVIOUS
<1> HIDE DEF p
<1>3. /\ a \in Seq(S) /\ Len(a) = (IF m + 1 <= p THEN p - (m + 1) + 1 ELSE 0)
      /\ \A i \in 1..(p - (m + 1) + 1) : a[i] = s[(m + 1) + i - 1]
  BY <1>1, <1>2, SubSeqProperties
<1> HIDE DEF a
<1>4. Len(a) \in Nat
  BY <1>3, LenProperties
<1>5. CASE m >= p
  <2>1. Len(a) = 0 /\ (m = p => p - m = 0) /\ (m <= p => m = p)
    <3>1. ~ (m + 1 <= p)
      BY <1>2, <1>5
    <3>2. Len(a) = 0
      BY Zenon, <1>3, <3>1
    <3> QED  BY <1>2, <1>5, <3>2
  <2>2. 1..Len(a) = {}
    BY <2>1
  <2> QED  BY <1>3, <1>4, <2>1, <2>2
<1>6. CASE m < p
  <2>1. m + 1 <= p /\ p - (m + 1) + 1 = p - m /\ m <= p /\ ~ (m > p)
    BY <1>2, <1>6
  <2>2. Len(a) = p - m
    BY Zenon, <1>3, <2>1
  <2>3. ASSUME NEW i \in 1..Len(a)
        PROVE  a[i] = s[m + i]
    <3>1. i \in 1..(p - (m + 1) + 1) /\ (m + 1) + i - 1 = m + i
      BY <2>1, <2>2
    <3>2. a[i] = s[(m + 1) + i - 1]
      BY Zenon, <1>3, <3>1
    <3> QED  BY Zenon, <3>1, <3>2
  <2> QED  BY <1>3, <1>4, <2>1, <2>2, <2>3
<1>7. m >= p \/ m < p
  BY <1>2
<1> QED  BY Zenon, <1>5, <1>6, <1>7 DEF a, p

\* The end of two joined lists.
LEMMA EndOfConcat ==
  ASSUME NEW S, NEW s \in Seq(S), NEW w \in Seq(S), NEW m \in Nat
  PROVE  LET r == IF m > Len(s) THEN m - Len(s) ELSE 0
         IN  SubSeq(s \o w, m + 1, Len(s \o w))
               = SubSeq(s, m + 1, Len(s)) \o SubSeq(w, r + 1, Len(w))
<1> DEFINE r == IF m > Len(s) THEN m - Len(s) ELSE 0
           p == Len(s)
           q == Len(w)
           v == s \o w
           a == SubSeq(s, m + 1, p)
           b == SubSeq(w, r + 1, q)
           c == SubSeq(v, m + 1, p + q)
           x == Len(a)
           y == Len(b)
           z == Len(c)
<1>1. p \in Nat /\ q \in Nat /\ r \in Nat /\ p + q \in Nat
  BY LenProperties
<1>2. /\ v \in Seq(S) /\ Len(v) = p + q
      /\ \A i \in 1..(p + q) : v[i] = IF i <= p THEN s[i] ELSE w[i - p]
  BY ConcatProperties
<1>3. (m > p /\ r = m - p) \/ (m <= p /\ r = 0)
  BY <1>1
<1>4. p = Len(s) /\ q = Len(w)
  OBVIOUS
<1> HIDE DEF p, q, v, r
<1>5. /\ a \in Seq(S) /\ x \in Nat /\ (m <= p => x = p - m) /\ (m > p => x = 0)
      /\ \A i \in 1..x : a[i] = s[m + i]
  BY Zenon, <1>4, EndOf
<1>6. /\ b \in Seq(S) /\ y \in Nat /\ (r <= q => y = q - r) /\ (r > q => y = 0)
      /\ \A i \in 1..y : b[i] = w[r + i]
  BY Zenon, <1>1, <1>4, EndOf
<1>7. /\ c \in Seq(S) /\ z \in Nat /\ (m <= p + q => z = (p + q) - m) /\ (m > p + q => z = 0)
      /\ \A i \in 1..z : c[i] = v[m + i]
  <2> DEFINE u == SubSeq(v, m + 1, Len(v))
  <2>1. /\ u \in Seq(S) /\ Len(u) \in Nat /\ (m <= Len(v) => Len(u) = Len(v) - m)
        /\ (m > Len(v) => Len(u) = 0) /\ \A i \in 1..Len(u) : u[i] = v[m + i]
    BY Zenon, <1>2, EndOf
  <2>2. c = u
    BY <1>2
  <2> HIDE DEF c, u
  <2> DEFINE l == Len(v)
  <2>3. l = p + q
    BY <1>2
  <2> HIDE DEF l
  <2>4. /\ u \in Seq(S) /\ Len(u) \in Nat /\ (m <= l => Len(u) = l - m)
        /\ (m > l => Len(u) = 0) /\ \A i \in 1..Len(u) : u[i] = v[m + i]
    BY Zenon, <2>1 DEF l
  <2> QED  BY <2>2, <2>3, <2>4
<1>8. /\ a \o b \in Seq(S) /\ Len(a \o b) = x + y
      /\ \A i \in 1..(x + y) : (a \o b)[i] = IF i <= x THEN a[i] ELSE b[i - x]
  <2> HIDE DEF a, b
  <2> QED  BY Zenon, <1>5, <1>6, ConcatProperties
<1>9. z = Len(c)
  OBVIOUS
<1> HIDE DEF a, b, c, x, y, z
<1>10. z = x + y
  BY <1>1, <1>3, <1>5, <1>6, <1>7
<1>11. ASSUME NEW i \in 1..z
       PROVE  c[i] = (a \o b)[i]
  <2>1. i \in 1..(x + y) /\ m + i \in 1..(p + q)
    BY <1>1, <1>7, <1>10
  <2>2. c[i] = IF m + i <= p THEN s[m + i] ELSE w[(m + i) - p]
    <3>1. c[i] = v[m + i]
      BY <1>7
    <3>2. v[m + i] = IF m + i <= p THEN s[m + i] ELSE w[(m + i) - p]
      <4> DEFINE k == m + i
      <4>1. k \in 1..(p + q)
        BY <2>1
      <4> HIDE DEF k
      <4>2. v[k] = IF k <= p THEN s[k] ELSE w[k - p]
        BY <1>2, <4>1
      <4> QED  BY Zenon, <4>2 DEF k
    <3> QED  BY Zenon, <3>1, <3>2
  <2>3. (a \o b)[i] = IF i <= x THEN a[i] ELSE b[i - x]
    BY Zenon, <1>8, <2>1
  <2>4. CASE m + i <= p
    <3>1. i <= x /\ i \in 1..x
      BY <1>1, <1>5, <2>4
    <3> QED  BY Zenon, <1>5, <2>2, <2>3, <2>4, <3>1
  <2>5. CASE m + i > p
    <3>1. ~ (m + i <= p) /\ ~ (i <= x) /\ i - x \in 1..y /\ r + (i - x) = (m + i) - p
      <4>1. (m <= p /\ x = p - m /\ r = 0) \/ (m > p /\ x = 0 /\ r = m - p)
        BY <1>1, <1>3, <1>5
      <4>2. ~ (m + i <= p) /\ ~ (i <= x) /\ r + (i - x) = (m + i) - p
        BY <1>1, <2>5, <4>1
      <4>3. x \in Nat /\ y \in Nat
        BY <1>1, <1>5, <1>6
      <4>4. i - x \in 1..y
        BY <2>1, <4>2, <4>3
      <4> QED  BY <4>2, <4>4
    <3>2. b[i - x] = w[r + (i - x)]
      BY Zenon, <1>6, <3>1
    <3> QED  BY Zenon, <2>2, <2>3, <3>1, <3>2
  <2>6. m + i <= p \/ m + i > p
    BY <1>1
  <2> QED  BY <2>4, <2>5, <2>6
<1>12. c = a \o b
  BY <1>7, <1>8, <1>9, <1>10, <1>11, SeqEqual
<1>13. SubSeq(v, m + 1, Len(v)) = a \o b
  BY Zenon, <1>2, <1>12 DEF c
<1> QED  BY Zenon, <1>4, <1>13 DEF a, b, v, r

LEMMA EndOfRange ==
  ASSUME NEW S, NEW s \in Seq(S), NEW m \in Nat
  PROVE  Range(SubSeq(s, m + 1, Len(s))) \subseteq Range(s)
<1> DEFINE p == Len(s)
           a == SubSeq(s, m + 1, p)
<1>1. p \in Nat /\ DOMAIN s = 1..p
  BY LenProperties
<1>2. /\ a \in Seq(S) /\ Len(a) \in Nat /\ (m <= p => Len(a) = p - m)
      /\ (m > p => Len(a) = 0) /\ \A i \in 1..Len(a) : a[i] = s[m + i]
  BY Zenon, EndOf
<1> HIDE DEF a, p
<1>3. ASSUME NEW i \in 1..Len(a)
      PROVE  a[i] \in Range(s)
  <2>1. m + i \in 1..p
    BY <1>1, <1>2
  <2>2. a[i] = s[m + i]
    BY <1>2
  <2> QED  BY Zenon, <1>1, <2>1, <2>2 DEF Range
<1>4. DOMAIN a = 1..Len(a)
  BY <1>2, LenProperties
<1>5. Range(a) \subseteq Range(s)
  BY Zenon, <1>3, <1>4 DEF Range
<1> QED  BY Zenon, <1>5 DEF a, p

\* What _prune() leaves of the files is the end of the log.
LEMMA DropDays ==
  ASSUME NEW S, NEW h \in [Days -> Seq(S)], NEW excess \in Int
  PROVE  LET g == DropOldest(h, excess)
             l == FlattenSeq(h)
         IN  /\ g \in [Days -> Seq(S)]
             /\ \A d \in Days : Range(g[d]) \subseteq Range(h[d])
             /\ \A d \in Days : h[d] = <<>> => g[d] = <<>>
             /\ FlattenSeq(g) = SubSeq(l, (IF excess > 0 THEN excess ELSE 0) + 1, Len(l))
<1> DEFINE m == IF excess > 0 THEN excess ELSE 0
           skip(d) == Len(UpTo(h, d - 1))
           r(d) == IF m > skip(d) THEN m - skip(d) ELSE 0
           g == DropOldest(h, excess)
           End(u) == SubSeq(u, m + 1, Len(u))
           T == {n \in 0..LastDay : UpTo(g, n) = End(UpTo(h, n))}
<1>1. LastDay \in Nat /\ LastDay # 0 /\ Days = 1..LastDay
  BY HistoryAssumption DEF Days
<1>2. m \in Nat
  OBVIOUS
<1>3. /\ UpTo(h, 0) = <<>>
      /\ \A n \in 0..LastDay : UpTo(h, n) \in Seq(S) /\ Len(UpTo(h, n)) \in Nat
      /\ \A n \in 0..(LastDay - 1) : UpTo(h, n + 1) = UpTo(h, n) \o h[n + 1]
  BY Zenon, DaysJoined, LenProperties
<1>4. ASSUME NEW d \in Days
      PROVE  /\ r(d) \in Nat /\ g[d] = SubSeq(h[d], r(d) + 1, Len(h[d]))
             /\ skip(d) \in Nat
  <2>1. d - 1 \in 0..LastDay
    BY <1>1
  <2>2. skip(d) \in Nat
    BY Zenon, <1>3, <2>1
  <2>3. g[d] = SubSeq(h[d], (IF excess > skip(d) THEN excess - skip(d) ELSE 0) + 1, Len(h[d]))
    BY Zenon DEF DropOldest, Total, UpTo
  <2> DEFINE k == skip(d)
  <2> HIDE DEF k
  <2>4. k \in Nat
    BY <2>2 DEF k
  <2>5. (IF excess > k THEN excess - k ELSE 0) = IF m > k THEN m - k ELSE 0
    BY <2>4
  <2>6. (IF m > k THEN m - k ELSE 0) \in Nat
    BY <1>2, <2>4
  <2> HIDE DEF g, m
  <2> QED  BY Zenon, <2>2, <2>3, <2>5, <2>6 DEF k
<1>5. DOMAIN g = Days /\ g = [d \in Days |-> g[d]]
  BY DEF DropOldest
<1> HIDE DEF m, g, r, skip
<1>6. ASSUME NEW d \in Days
      PROVE  /\ g[d] \in Seq(S) /\ Range(g[d]) \subseteq Range(h[d])
             /\ h[d] = <<>> => g[d] = <<>>
  <2>1. h[d] \in Seq(S) /\ r(d) \in Nat /\ g[d] = SubSeq(h[d], r(d) + 1, Len(h[d]))
    BY <1>4
  <2>2. g[d] \in Seq(S) /\ Range(g[d]) \subseteq Range(h[d])
    BY Zenon, <2>1, EndOf, EndOfRange
  <2>3. ASSUME h[d] = <<>> PROVE g[d] = <<>>
    <3>1. Len(h[d]) = 0 /\ r(d) + 1 \in Int /\ 0 \in Int /\ 0 < r(d) + 1
      BY <2>1, <2>3, EmptySeq
    <3> QED  BY <2>1, <3>1, SubSeqEmpty
  <2> QED  BY <2>2, <2>3
<1>7. g \in [Days -> Seq(S)]
  BY Zenon, <1>5, <1>6
<1>8. /\ UpTo(g, 0) = <<>> /\ FlattenSeq(g) = UpTo(g, LastDay) /\ FlattenSeq(h) = UpTo(h, LastDay)
      /\ \A n \in 0..(LastDay - 1) : UpTo(g, n + 1) = UpTo(g, n) \o g[n + 1]
  BY Zenon, <1>7, DaysJoined
<1>9. 0 \in T
  <2>1. End(<<>>) = <<>> /\ 0 \in 0..LastDay
    <3>1. Len(<<>>) = 0 /\ m + 1 \in Int /\ 0 \in Int /\ 0 < m + 1
      BY <1>2
    <3> QED  BY <1>1, <3>1, SubSeqEmpty
  <2> HIDE DEF End
  <2> QED  BY Zenon, <1>3, <1>8, <2>1
<1>10. ASSUME NEW n \in 0..(LastDay - 1), n \in T
       PROVE  n + 1 \in T
  <2>1. n \in 0..LastDay /\ n + 1 \in 0..LastDay /\ n + 1 \in Days /\ (n + 1) - 1 = n
    BY <1>1
  <2> DEFINE u == UpTo(h, n)
             w == h[n + 1]
             q == IF m > Len(u) THEN m - Len(u) ELSE 0
  <2>2. u \in Seq(S) /\ w \in Seq(S)
    BY <1>3, <2>1
  <2>3. r(n + 1) = q
    BY Zenon, <2>1 DEF r, skip
  <2>4. g[n + 1] = SubSeq(w, q + 1, Len(w))
    BY Zenon, <1>4, <2>1, <2>3
  <2>5. SubSeq(u \o w, m + 1, Len(u \o w)) = SubSeq(u, m + 1, Len(u)) \o SubSeq(w, q + 1, Len(w))
    <3> HIDE DEF u, w
    <3> QED  BY Zenon, <1>2, <2>2, EndOfConcat
  <2>6. UpTo(g, n + 1) = UpTo(g, n) \o g[n + 1] /\ UpTo(h, n + 1) = u \o w
    BY <1>3, <1>8
  <2>7. UpTo(g, n) = SubSeq(u, m + 1, Len(u))
    BY <1>10
  <2> HIDE DEF u, w, q
  <2>8. UpTo(g, n + 1) = SubSeq(UpTo(h, n + 1), m + 1, Len(UpTo(h, n + 1)))
    BY Zenon, <2>4, <2>5, <2>6, <2>7
  <2> QED  BY Zenon, <2>1, <2>8
<1> HIDE DEF T
<1>11. \A n \in 0..LastDay : n \in T
  BY <1>1, <1>9, <1>10, DayInduction
<1>12. LastDay \in T
  BY <1>1, <1>11
<1>13. FlattenSeq(g) = End(FlattenSeq(h))
  BY Zenon, <1>8, <1>12 DEF T
<1> QED  BY Zenon, <1>6, <1>7, <1>13 DEF g, m

-----------------------------------------------------------------------------
(* The files: which reports may be in them *)

\* A report that is in a file was written there by a job that is over (ph), or
\* was left there, on one day, which is not later than today (t).
Filed(h, t, ph) ==
  /\ h \in [Days -> Seq(Reports)]
  /\ \A d \in Days : d > t => h[d] = <<>>
  /\ \A d \in Days : \A j \in Range(h[d]) \cap Jobs : ph[j] = "over"
  /\ \A d, e \in Days : d # e => Range(h[d]) \cap Range(h[e]) = {}

HistoryInv == Filed(shards, day, phase) /\ day \in Days /\ diskFailed \in BOOLEAN

LEMMA InRange ==
  ASSUME NEW S, NEW s \in Seq(S), NEW i \in 1..Len(s)
  PROVE  s[i] \in Range(s) /\ s[i] \in S
BY LenProperties, ElementOfSeq DEF Range

\* Taking reports away, or the next day, leaves it so; so do jobs that go on.
LEMMA FewerFiled ==
  ASSUME NEW h, NEW t, NEW ph, Filed(h, t, ph), NEW g \in [Days -> Seq(Reports)], NEW u, NEW qh,
         t \in Nat, u \in Nat, t <= u,
         \A d \in Days : Range(g[d]) \subseteq Range(h[d]) /\ (h[d] = <<>> => g[d] = <<>>),
         \A j \in Jobs : ph[j] = "over" => qh[j] = "over"
  PROVE  Filed(g, u, qh)
<1>1. ASSUME NEW d \in Days, d > u PROVE g[d] = <<>>
  <2>1. d \in Nat
    BY HistoryAssumption DEF Days
  <2>2. d > t
    BY <1>1, <2>1
  <2> QED  BY <2>2 DEF Filed
<1>2. ASSUME NEW d \in Days, NEW j \in Range(g[d]) \cap Jobs PROVE qh[j] = "over"
  BY DEF Filed
<1>3. ASSUME NEW d \in Days, NEW e \in Days, d # e PROVE Range(g[d]) \cap Range(g[e]) = {}
  BY <1>3 DEF Filed
<1> QED  BY <1>1, <1>2, <1>3 DEF Filed

\* So does the report of a job that was not over.
LEMMA WrittenFiled ==
  ASSUME HistoryInv, NEW j \in Jobs, phase[j] # "over", NEW ph, ph[j] = "over",
         \A i \in Jobs : phase[i] = "over" => ph[i] = "over"
  PROVE  /\ Filed(Written(j), day, ph)
         /\ FlattenSeq(Written(j)) = Append(FlattenSeq(shards), j)
<1> DEFINE w == Written(j)
<1>1. shards \in [Days -> Seq(Reports)] /\ day \in Days
  BY DEF HistoryInv, Filed
<1>2. /\ w \in [Days -> Seq(Reports)] /\ w[day] = Append(shards[day], j)
      /\ \A d \in Days : d # day => w[d] = shards[d]
  BY <1>1, AppendProperties DEF Written, Reports
<1>3. Range(w[day]) = Range(shards[day]) \cup {j}
  BY <1>1, <1>2, RangeAppend
<1> HIDE DEF w
<1>4. ASSUME NEW d \in Days PROVE j \notin Range(shards[d])
  BY DEF HistoryInv, Filed
<1>5. ASSUME NEW d \in Days, d > day PROVE w[d] = <<>>
  <2>1. d # day
    BY <1>1, <1>5, HistoryAssumption DEF Days
  <2> QED  BY <1>2, <1>5, <2>1 DEF HistoryInv, Filed
<1>6. ASSUME NEW d \in Days, NEW i \in Range(w[d]) \cap Jobs PROVE ph[i] = "over"
  <2>1. i = j \/ i \in Range(shards[d])
    BY <1>2, <1>3
  <2> QED  BY <2>1 DEF HistoryInv, Filed
<1>7. ASSUME NEW d \in Days, NEW e \in Days, d # e PROVE Range(w[d]) \cap Range(w[e]) = {}
  <2>1. Range(shards[d]) \cap Range(shards[e]) = {}
    BY <1>7 DEF HistoryInv, Filed
  <2> QED  BY <1>2, <1>3, <1>4, <1>7, <2>1
<1>8. Filed(w, day, ph)
  BY <1>2, <1>5, <1>6, <1>7 DEF Filed
<1>9. \A d \in Days : d > day => shards[d] = <<>>
  BY DEF HistoryInv, Filed
<1>10. FlattenSeq(w) = Append(FlattenSeq(shards), j)
  <2>1. j \in Reports
    BY DEF Reports
  <2> QED  BY <1>1, <1>2, <1>9, <2>1, AppendDays
<1> QED  BY <1>8, <1>10 DEF w

\* A job that is over stays so.
LEMMA OverStays ==
  ASSUME RunTypes, [Next]_vars
  PROVE  \A j \in Jobs : phase[j] = "over" => phase'[j] = "over"
<1> SUFFICES ASSUME NEW j \in Jobs, phase[j] = "over"
             PROVE  phase'[j] = "over"
  OBVIOUS
<1>1. ASSUME NEW i \in Jobs, NEW from, NEW to, Goto(i, from, to), from # "over"
      PROVE  phase'[j] = "over"
  <2>1. phase[i] = from /\ \A k \in Jobs \ {i} : phase'[k] = phase[k]
    BY <1>1 DEF Goto, RunTypes, RunTypeOK
  <2> QED  BY <1>1, <2>1
<1>2. ASSUME NEW i \in Jobs, NextStage(i), phase[i] # "over"
      PROVE  phase'[j] = "over"
  <2>1. \A k \in Jobs \ {i} : phase'[k] = phase[k]
    BY <1>2 DEF NextStage, RunTypes, RunTypeOK
  <2> QED  BY <1>2, <2>1
<1>3. ASSUME NEW i \in Jobs, DiagRunRequest(i) PROVE phase'[j] = "over"
  BY <1>1, <1>3 DEF DiagRunRequest, StartRun
<1>4. ASSUME NEW i \in Jobs, RunStep(i) PROVE phase'[j] = "over"
  <2>1. CASE LookUp(i) \/ Import(i) \/ WaitReturns(i) \/ Unwind(i)
    BY <1>1, <2>1 DEF LookUp, Import, WaitReturns, Unwind
  <2>2. CASE Submitted(i)
    BY <1>1, <1>2, <2>2 DEF Submitted
  <2>3. CASE SubmitRaises(i) \/ ReadRaises(i)
    BY <1>1, <2>3 DEF SubmitRaises, ReadRaises, Raise
  <2>4. CASE LeavePool(i)
    BY <1>2, <2>4 DEF LeavePool
  <2>5. CASE Pool(i) \/ \E c \in Checks : Take(i, c) \/ Drop(i, c)
    BY <2>5 DEF Pool, BeginCheck, EndCheck, Take, Drop
  <2> QED  BY <1>4, <2>1, <2>2, <2>3, <2>4, <2>5 DEF RunStep, RunDiag
<1>5. ASSUME NEW i \in Jobs, SaveReport(i) \/ SaveRaises(i) PROVE phase'[j] = "over"
  BY <1>1, <1>5 DEF SaveReport, SaveRaises, Raise
<1>6. CASE UNCHANGED runVars
  BY <1>6 DEF runVars
<1> QED  BY <1>3, <1>4, <1>5, <1>6 DEF Next, Job, ThreadFails, FinishJob, Delete, Clear, vars

-----------------------------------------------------------------------------
(* The files as one log *)

Joined == FlattenSeq(shards)

\* A report is written and the files are pruned to n reports.
LEMMA PrunedLog ==
  ASSUME HistoryInv, NEW j \in Jobs, phase[j] # "over", NEW ph, ph[j] = "over",
         \A i \in Jobs : phase[i] = "over" => ph[i] = "over", NEW n \in Nat,
         NEW g, g = DropOldest(Written(j), Total(Written(j)) - n)
  PROVE  Filed(g, day, ph) /\ FlattenSeq(g) = Log!Last(Append(Joined, j), n)
<1> DEFINE w == Written(j)
           a == Append(Joined, j)
           k == Total(w) - n
<1>1. Filed(w, day, ph) /\ FlattenSeq(w) = a
  BY WrittenFiled DEF Joined
<1>2. w \in [Days -> Seq(Reports)]
  BY <1>1 DEF Filed
<1>3. FlattenSeq(w) \in Seq(Reports)
  <2> HIDE DEF w
  <2> QED  BY <1>2, DaysJoined
<1>4. Total(w) = Len(a) /\ Len(a) \in Nat
  <2> HIDE DEF a
  <2> QED  BY <1>1, <1>3, LenProperties DEF Total
<1>5. g = DropOldest(w, k) /\ k \in Int
  BY <1>4
<1> HIDE DEF w, k, a
<1>6. /\ g \in [Days -> Seq(Reports)]
      /\ \A d \in Days : Range(g[d]) \subseteq Range(w[d])
      /\ \A d \in Days : w[d] = <<>> => g[d] = <<>>
      /\ FlattenSeq(g) = SubSeq(a, (IF k > 0 THEN k ELSE 0) + 1, Len(a))
  <2> DEFINE q == DropOldest(w, k)
             l == FlattenSeq(w)
  <2>1. /\ q \in [Days -> Seq(Reports)]
        /\ \A d \in Days : Range(q[d]) \subseteq Range(w[d])
        /\ \A d \in Days : w[d] = <<>> => q[d] = <<>>
        /\ FlattenSeq(q) = SubSeq(l, (IF k > 0 THEN k ELSE 0) + 1, Len(l))
    BY Zenon, <1>2, <1>5, DropDays
  <2>2. g = q /\ l = a
    BY Zenon, <1>1, <1>5
  <2> HIDE DEF q, l
  <2> QED  BY Zenon, <2>1, <2>2
<1>7. Filed(g, day, ph)
  <2>1. day \in Nat /\ day <= day
    BY HistoryAssumption DEF HistoryInv, Days
  <2> QED  BY <1>1, <1>6, <2>1, FewerFiled
<1>8. (IF k > 0 THEN k ELSE 0) + 1 = IF Len(a) > n THEN Len(a) - n + 1 ELSE 1
  <2> DEFINE l == Len(a)
  <2>1. l \in Nat /\ k = l - n
    BY <1>4 DEF k
  <2> HIDE DEF l
  <2>2. (IF k > 0 THEN k ELSE 0) + 1 = IF l > n THEN l - n + 1 ELSE 1
    BY <2>1
  <2> QED  BY Zenon, <2>2 DEF l
<1> QED  BY Zenon, <1>6, <1>7, <1>8 DEF a, Log!Last

\* The same reports are taken out of all files.
LEMMA TakenLog ==
  ASSUME HistoryInv, NEW X, NEW g, DOMAIN g = Days, g = [d \in Days |-> g[d]],
         \A d \in Days : g[d] = Without(shards[d], X)
  PROVE  Filed(g, day, phase) /\ FlattenSeq(g) = Log!Without(Joined, X)
<1>1. shards \in [Days -> Seq(Reports)] /\ day \in Nat /\ day <= day
  BY HistoryAssumption DEF HistoryInv, Filed, Days
<1>2. ASSUME NEW d \in Days
      PROVE  /\ g[d] \in Seq(Reports) /\ Range(g[d]) \subseteq Range(shards[d])
             /\ shards[d] = <<>> => g[d] = <<>>
  <2>1. shards[d] \in Seq(Reports) /\ g[d] = Without(shards[d], X)
    BY <1>1
  <2>2. Without(shards[d], X) \in Seq(Reports \ X) /\ Range(Without(shards[d], X)) \subseteq Range(shards[d])
    BY <2>1, WithoutElements
  <2>3. Without(shards[d], X) \in Seq(Reports)
    BY <2>2, SeqMonotonic
  <2>4. shards[d] = <<>> => g[d] = <<>>
    BY Zenon, <2>1, WithoutEmpty
  <2> QED  BY Zenon, <2>1, <2>2, <2>3, <2>4
<1>3. g \in [Days -> Seq(Reports)]
  BY Zenon, <1>2
<1>4. Filed(g, day, phase)
  BY <1>1, <1>2, <1>3, FewerFiled DEF HistoryInv
<1>5. FlattenSeq(g) = Without(Joined, X)
  <2>1. g = [d \in Days |-> Without(shards[d], X)]
    OBVIOUS
  <2>2. FlattenSeq([d \in Days |-> Without(shards[d], X)]) = Without(FlattenSeq(shards), X)
    BY <1>1, WithoutDays
  <2> QED  BY Zenon, <2>1, <2>2 DEF Joined
<1>6. Without(Joined, X) = Log!Without(Joined, X)
  BY Zenon DEF Without, Log!Without
<1> QED  BY Zenon, <1>4, <1>5, <1>6

\* Every step keeps the files as they should be and is one of the log, or none.
Stepped == HistoryInv' /\ [Log!Next]_<<Joined, diskFailed>>

LEMMA SaveSteps ==
  ASSUME HistoryInv, RunTypes, NEW j \in Jobs, SaveReport(j)
  PROVE  Stepped
<1>1. phase[j] = "report" /\ phase'[j] = "over" /\ \A i \in Jobs \ {j} : phase'[i] = phase[i]
  BY DEF SaveReport, Goto, RunTypes, RunTypeOK
<1>2. phase[j] # "over" /\ \A i \in Jobs : phase[i] = "over" => phase'[i] = "over"
  BY <1>1
<1>3. Joined \in Seq(Reports) /\ Len(Joined) \in Nat
  <2>1. shards \in [Days -> Seq(Reports)]
    BY DEF HistoryInv, Filed
  <2> QED  BY <2>1, DaysJoined, LenProperties DEF Joined
<1>4. Total(Written(j)) = Len(Joined) + 1
  <2>1. FlattenSeq(Written(j)) = Append(Joined, j)
    BY <1>1, <1>2, WrittenFiled DEF Joined
  <2>2. Len(Append(Joined, j)) = Len(Joined) + 1
    BY <1>3, AppendProperties
  <2> QED  BY Zenon, <2>1, <2>2 DEF Total
<1>5. ASSUME NEW n \in Nat, shards' = DropOldest(Written(j), Total(Written(j)) - n)
      PROVE  Filed(shards', day, phase') /\ Joined' = Log!Last(Append(Joined, j), n)
  BY Zenon, <1>1, <1>2, <1>5, PrunedLog DEF Joined
<1>6. CASE AppendReport(j)
  <2>1. shards' = DropOldest(Written(j), Total(Written(j)) - Keep) /\ diskFailed' = FALSE /\ day' = day
    BY <1>6 DEF AppendReport, Prune
  <2>2. Keep \in Nat
    BY HistoryAssumption
  <2>3. Filed(shards', day, phase') /\ Joined' = Log!Last(Append(Joined, j), Keep)
    BY <1>5, <2>1, <2>2
  <2>4. HistoryInv'
    BY <2>1, <2>3 DEF HistoryInv
  <2>5. Log!Next
    <3>1. Log!Add(j) /\ j \in Reports
      BY <2>1, <2>3 DEF Log!Add, Joined, Reports
    <3> QED  BY <3>1 DEF Log!Next
  <2> QED  BY <2>4, <2>5 DEF Stepped
<1>7. CASE AppendFails(j) /\ UNCHANGED shards
  <2>1. diskFailed' = TRUE /\ UNCHANGED <<shards, day>> /\ UNCHANGED Joined
    BY <1>7 DEF AppendFails, Joined
  <2>2. HistoryInv'
    <3>1. Filed(shards, day, phase')
      <4>1. shards \in [Days -> Seq(Reports)] /\ day \in Nat /\ day <= day
        BY HistoryAssumption DEF HistoryInv, Filed, Days
      <4> QED  BY <1>2, <4>1, FewerFiled DEF HistoryInv
    <3> QED  BY <2>1, <3>1 DEF HistoryInv
  <2>3. Log!Next
    BY <2>1 DEF Log!Next, Log!Fail
  <2> QED  BY <2>2, <2>3 DEF Stepped
<1>8. CASE AppendFails(j) /\ ~ UNCHANGED shards
  <2>1. PICK n \in Keep..Total(Written(j)) : shards' = DropOldest(Written(j), Total(Written(j)) - n)
    BY <1>8 DEF AppendFails
  <2>2. diskFailed' = TRUE /\ day' = day
    BY <1>8 DEF AppendFails
  <2>3. n \in Nat /\ n \in Keep..(Len(Joined) + 1)
    BY <1>3, <1>4, <2>1, HistoryAssumption
  <2>4. Filed(shards', day, phase') /\ Joined' = Log!Last(Append(Joined, j), n)
    BY <1>5, <2>1, <2>3
  <2>5. HistoryInv'
    BY <2>2, <2>4 DEF HistoryInv
  <2>6. Log!Next
    <3>1. Log!Fail
      BY <2>2, <2>3, <2>4 DEF Log!Fail, Joined, Reports
    <3> QED  BY <3>1 DEF Log!Next
  <2> QED  BY <2>5, <2>6 DEF Stepped
<1> QED  BY <1>6, <1>7, <1>8 DEF SaveReport

LEMMA DeleteSteps ==
  ASSUME HistoryInv, Delete
  PROVE  Stepped
<1>1. UNCHANGED <<day, phase>>
  BY DEF Delete, DeleteReport, DeleteFails, runVars
<1>2. ASSUME NEW j \in Reports, DeleteReport(j) PROVE Stepped
  <2>1. shards' = [d \in Days |-> Without(shards[d], {j})] /\ diskFailed' = FALSE
    BY <1>2 DEF DeleteReport
  <2>2. Filed(shards', day, phase) /\ FlattenSeq(shards') = Log!Without(Joined, {j})
    <3> DEFINE g == [d \in Days |-> Without(shards[d], {j})]
    <3>1. DOMAIN g = Days /\ g = [d \in Days |-> g[d]] /\ \A d \in Days : g[d] = Without(shards[d], {j})
      OBVIOUS
    <3> HIDE DEF g
    <3>2. Filed(g, day, phase) /\ FlattenSeq(g) = Log!Without(Joined, {j})
      BY <3>1, TakenLog
    <3> QED  BY Zenon, <2>1, <3>2 DEF g
  <2>3. HistoryInv'
    BY <1>1, <2>1, <2>2 DEF HistoryInv
  <2>4. Log!Next
    BY <2>1, <2>2 DEF Log!Next, Log!Delete, Joined
  <2> QED  BY <2>3, <2>4 DEF Stepped
<1>3. ASSUME NEW j \in Reports, DeleteFails(j) PROVE Stepped
  <2>1. diskFailed' = TRUE /\ UNCHANGED <<shards, Joined>>
    BY <1>3 DEF DeleteFails, Joined
  <2>2. HistoryInv'
    BY <1>1, <2>1 DEF HistoryInv
  <2>3. Log!Next
    BY <2>1 DEF Log!Next, Log!Fail, Joined
  <2> QED  BY <2>2, <2>3 DEF Stepped
<1> QED  BY <1>2, <1>3 DEF Delete

LEMMA ClearSteps ==
  ASSUME HistoryInv, Clear
  PROVE  Stepped
<1>1. UNCHANGED <<day, phase>> /\ shards \in [Days -> Seq(Reports)]
  BY DEF Clear, ClearHistory, ClearFails, runVars, HistoryInv, Filed
<1>2. Joined \in Seq(Reports)
  BY <1>1, DaysJoined DEF Joined
<1>3. CASE ClearHistory
  <2> DEFINE g == [d \in Days |-> <<>>]
  <2>1. shards' = g /\ diskFailed' = FALSE
    BY <1>3 DEF ClearHistory
  <2>2. ASSUME NEW d \in Days PROVE g[d] = Without(shards[d], Reports)
    <3>1. shards[d] \in Seq(Reports) /\ Range(shards[d]) \subseteq Reports
      BY <1>1, RangeOfSeq
    <3>2. Without(shards[d], Reports) = <<>>
      BY <3>1, WithoutAll
    <3> QED  BY Zenon, <3>2
  <2>3. DOMAIN g = Days /\ g = [d \in Days |-> g[d]]
    OBVIOUS
  <2> HIDE DEF g
  <2>4. Filed(g, day, phase) /\ FlattenSeq(g) = Log!Without(Joined, Reports)
    BY <2>2, <2>3, TakenLog
  <2>5. Log!Without(Joined, Reports) = <<>>
    <3>1. Range(Joined) \subseteq Reports
      BY <1>2, RangeOfSeq
    <3>2. Without(Joined, Reports) = <<>>
      BY <1>2, <3>1, WithoutAll
    <3> QED  BY Zenon, <3>2 DEF Without, Log!Without
  <2>6. HistoryInv'
    BY <1>1, <2>1, <2>4 DEF HistoryInv
  <2>7. Joined' = <<>>
    BY Zenon, <2>1, <2>4, <2>5 DEF Joined
  <2>8. Log!Next
    BY <2>1, <2>7 DEF Log!Next, Log!Clear, Joined
  <2> QED  BY <2>6, <2>8 DEF Stepped
<1>4. CASE ClearFails
  <2>1. PICK D \in SUBSET Days : shards' = [d \in Days |-> IF d \in D THEN <<>> ELSE shards[d]]
    BY <1>4 DEF ClearFails
  <2>2. diskFailed' = TRUE
    BY <1>4 DEF ClearFails
  <2> DEFINE g == [d \in Days |-> IF d \in D THEN <<>> ELSE shards[d]]
             X == UNION {Range(shards[d]) : d \in D}
  <2>3. X \in SUBSET Reports
    <3>1. ASSUME NEW d \in D PROVE Range(shards[d]) \subseteq Reports
      BY <1>1, RangeOfSeq
    <3> QED  BY <3>1
  <2>4. ASSUME NEW d \in Days PROVE g[d] = Without(shards[d], X)
    <3>1. shards[d] \in Seq(Reports)
      BY <1>1
    <3>2. CASE d \in D
      <4>1. Range(shards[d]) \subseteq X
        BY <3>2
      <4>2. g[d] = <<>>
        BY <3>2
      <4> HIDE DEF X, g
      <4> QED  BY <3>1, <4>1, <4>2, WithoutAll
    <3>3. CASE d \notin D
      <4>1. Range(shards[d]) \cap X = {}
        BY <3>3 DEF HistoryInv, Filed
      <4>2. g[d] = shards[d]
        BY <3>3
      <4> HIDE DEF X, g
      <4> QED  BY <3>1, <4>1, <4>2, WithoutNone
    <3> QED  BY <3>2, <3>3
  <2>5. DOMAIN g = Days /\ g = [d \in Days |-> g[d]] /\ shards' = g
    BY <2>1
  <2> HIDE DEF g, X
  <2>6. Filed(g, day, phase) /\ FlattenSeq(g) = Log!Without(Joined, X)
    BY <2>4, <2>5, TakenLog
  <2>7. HistoryInv'
    BY <1>1, <2>2, <2>5, <2>6 DEF HistoryInv
  <2>8. Joined' = Log!Without(Joined, X)
    BY Zenon, <2>5, <2>6 DEF Joined
  <2>9. Log!Next
    BY <2>2, <2>3, <2>8 DEF Log!Next, Log!Fail, Joined
  <2> QED  BY <2>7, <2>9 DEF Stepped
<1> QED  BY <1>3, <1>4 DEF Clear

LEMMA HistorySteps ==
  ASSUME HistoryInv, RunTypes, [Next]_vars
  PROVE  Stepped
<1>1. ASSUME UNCHANGED <<shards, diskFailed>>, day' \in {day, day + 1}, day' \in Days
      PROVE  Stepped
  <2>1. Filed(shards, day', phase')
    <3>1. shards \in [Days -> Seq(Reports)] /\ day \in Nat /\ day' \in Nat /\ day <= day'
      BY <1>1, HistoryAssumption DEF HistoryInv, Filed, Days
    <3>2. \A j \in Jobs : phase[j] = "over" => phase'[j] = "over"
      BY OverStays
    <3> QED  BY <3>1, <3>2, FewerFiled DEF HistoryInv
  <2>2. HistoryInv'
    BY <1>1, <2>1 DEF HistoryInv
  <2>3. UNCHANGED <<Joined, diskFailed>>
    BY <1>1 DEF Joined
  <2> QED  BY <2>2, <2>3 DEF Stepped, Joined
<1>2. ASSUME NEW j \in Jobs, SaveReport(j) PROVE Stepped
  BY <1>2, SaveSteps
<1>3. CASE UNCHANGED historyVars
  <2>1. UNCHANGED <<shards, diskFailed>> /\ day' \in {day, day + 1} /\ day' \in Days
    BY <1>3 DEF historyVars, HistoryInv
  <2> QED  BY <1>1, <2>1
<1>4. CASE Midnight
  <2>1. UNCHANGED <<shards, diskFailed>> /\ day' \in {day, day + 1} /\ day' \in Days
    BY <1>4, HistoryAssumption DEF Midnight, Days, HistoryInv
  <2> QED  BY <1>1, <2>1
<1>5. CASE Delete
  BY <1>5, DeleteSteps
<1>6. CASE Clear
  BY <1>6, ClearSteps
<1> QED  BY <1>2, <1>3, <1>4, <1>5, <1>6
         DEF Next, Job, DiagRunRequest, ThreadFails, RunStep, SaveRaises, FinishJob, vars

\* The log begins with what an earlier process left.
LEMMA HistoryStart == Init => HistoryInv /\ Joined = Stored /\ Stored \in Seq(Reports)
<1> SUFFICES ASSUME Init PROVE HistoryInv /\ Joined = Stored /\ Stored \in Seq(Reports)
  OBVIOUS
<1>1. shards = [d \in Days |-> IF d = 1 THEN Stored ELSE <<>>] /\ day = 1 /\ diskFailed = FALSE
  BY DEF Init, HistoryInit
<1>2. /\ Stored \in Seq(Int \ Jobs) /\ LastDay \in Nat /\ LastDay # 0
      /\ Days = 1..LastDay /\ 1 \in Days /\ \A d \in Days : d > 1 => d # 1
  BY HistoryAssumption DEF Days
<1>3. Stored \in Seq(Reports)
  <2>1. \A i \in 1..Len(Stored) : Stored[i] \in Reports
    BY <1>2, InRange DEF Reports
  <2>2. Len(Stored) \in Nat /\ Stored = [i \in 1..Len(Stored) |-> Stored[i]]
    BY <1>2, LenProperties
  <2> QED  BY <2>1, <2>2, IsASeq
<1>4. shards \in [Days -> Seq(Reports)]
  BY <1>1, <1>3
<1>5. HistoryInv
  <2>1. Range(Stored) \cap Jobs = {} /\ Range(<<>>) = {}
    BY <1>2, RangeOfSeq DEF Range
  <2>2. \A d \in Days : Range(shards[d]) \cap Jobs = {}
    BY <1>1, <2>1
  <2>3. \A d, e \in Days : d # e => Range(shards[d]) \cap Range(shards[e]) = {}
    BY <1>1, <2>1
  <2>4. Filed(shards, day, phase)
    BY <1>1, <1>2, <1>4, <2>2, <2>3 DEF Filed
  <2> QED  BY <1>1, <1>2, <2>4 DEF HistoryInv
<1>6. Joined = Stored
  <2> DEFINE T == {n \in 0..LastDay : UpTo(shards, n) = IF n = 0 THEN <<>> ELSE Stored}
  <2>1. 0 \in T
    <3>1. 0 \in 0..LastDay
      BY <1>2
    <3> QED  BY Zenon, <1>4, <3>1, DaysJoined
  <2>2. ASSUME NEW n \in 0..(LastDay - 1), n \in T PROVE n + 1 \in T
    <3>1. n + 1 \in 0..LastDay /\ n + 1 # 0 /\ n + 1 \in Days
      BY <1>2
    <3>2. UpTo(shards, n + 1) = UpTo(shards, n) \o shards[n + 1]
      BY <1>4, DaysJoined
    <3>3. CASE n = 0
      <4>1. UpTo(shards, n) = <<>> /\ shards[n + 1] = Stored
        BY <1>1, <2>2, <3>1, <3>3
      <4>2. <<>> \o Stored = Stored
        BY <1>3, ConcatEmptySeq
      <4> QED  BY Zenon, <3>1, <3>2, <4>1, <4>2
    <3>4. CASE n # 0
      <4>1. UpTo(shards, n) = Stored /\ shards[n + 1] = <<>>
        BY <1>1, <2>2, <3>1, <3>4
      <4>2. Stored \o <<>> = Stored
        BY <1>3, ConcatEmptySeq
      <4> QED  BY Zenon, <3>1, <3>2, <4>1, <4>2
    <3> QED  BY <3>3, <3>4
  <2> HIDE DEF T
  <2>3. \A n \in 0..LastDay : n \in T
    BY <1>2, <2>1, <2>2, DayInduction
  <2>4. UpTo(shards, LastDay) = Stored
    BY <1>2, <2>3 DEF T
  <2> QED  BY Zenon, <1>4, <2>4, DaysJoined DEF Joined
<1> QED  BY <1>3, <1>5, <1>6

LEMMA HistoryInvariant == Spec => []HistoryInv
<1>1. Init => HistoryInv
  BY HistoryStart
<1>2. RunInv /\ HistoryInv /\ [Next]_vars => HistoryInv'
  BY HistorySteps DEF RunInv, Stepped
<1> QED  BY <1>1, <1>2, RunInvariant, PTL DEF Spec

\* The registry, the runs and the files keep their types (jobs.py:24-47,
\* engine.py:137-184, history.py:23-55).
THEOREM TypeCorrect == Spec => []TypeOK
<1>1. JobsInv /\ RunInv /\ HistoryInv => TypeOK
  BY DEF JobsInv, RunInv, RunTypes, HistoryInv, Filed, TypeOK, HistoryTypeOK
<1> QED  BY <1>1, JobsInvariant, RunInvariant, HistoryInvariant, PTL

\* The files of the days, each pruned, deleted from and cleared on its own, are
\* one log that keeps the newest reports, whatever write fails (history.py:23-79).
THEOREM HistoryIsLog == Spec => ImplementsLog
<1>1. Init => Log!Init
  BY HistoryStart, HistoryAssumption DEF Init, HistoryInit, Joined, Log!Init
<1>2. RunInv /\ HistoryInv /\ [Next]_vars => [Log!Next]_<<Joined, diskFailed>>
  BY HistorySteps DEF RunInv, Stepped
<1>3. RunInv /\ HistoryInv /\ [Next]_vars => [Log!Next]_<<FlattenSeq(shards), diskFailed>>
  BY <1>2 DEF Joined
<1> QED  BY <1>1, <1>3, RunInvariant, HistoryInvariant, PTL DEF Spec, ImplementsLog, Log!Spec

\* A report that was not listed before the step is the one that is written.
LEMMA NewlyListed ==
  ASSUME HistoryInv, NEW j \in Jobs, NEW n,
         \/ n = Total(Written(j)) - Keep
         \/ \E m \in Keep..Total(Written(j)) : n = Total(Written(j)) - m,
         phase[j] # "over", shards' = DropOldest(Written(j), n)
  PROVE  Listed' \subseteq Listed \cup {j}
<1> DEFINE w == Written(j)
<1>1. shards \in [Days -> Seq(Reports)] /\ day \in Days
  BY DEF HistoryInv, Filed
<1>2. w \in [Days -> Seq(Reports)] /\ \A d \in Days : Range(w[d]) \subseteq Range(shards[d]) \cup {j}
  <2> j \in Reports
    BY DEF Reports
  <2>1. /\ w \in [Days -> Seq(Reports)] /\ w[day] = Append(shards[day], j)
        /\ \A d \in Days : d # day => w[d] = shards[d]
    BY <1>1, AppendProperties DEF Written
  <2>2. Range(Append(shards[day], j)) = Range(shards[day]) \cup {j}
    BY <1>1, RangeAppend
  <2> HIDE DEF w
  <2> QED  BY <2>1, <2>2
<1>3. Total(w) \in Nat
  <2> HIDE DEF w
  <2>1. FlattenSeq(w) \in Seq(Reports)
    BY <1>2, DaysJoined
  <2> QED  BY <2>1, LenProperties DEF Total
<1>4. n \in Int
  BY <1>3, HistoryAssumption
<1> HIDE DEF w
<1>5. \A d \in Days : Range(shards'[d]) \subseteq Range(w[d])
  <2> DEFINE g == DropOldest(w, n)
  <2>1. \A d \in Days : Range(g[d]) \subseteq Range(w[d])
    BY Zenon, <1>2, <1>4, DropDays
  <2>2. shards' = g
    BY DEF w
  <2> HIDE DEF g
  <2> QED  BY <2>1, <2>2
<1> QED  BY <1>2, <1>5 DEF Listed

\* A report comes into the history once, at the end of its run, which has then a
\* result of every check that the registry owed it, and is gone for good when it
\* is gone (engine.py:59-62, app.py:384-402, history.py:23-55).
THEOREM FiledWhenComplete == Spec => ReportFiled
<1> DEFINE Good(j) == /\ jobState[j] = "running" /\ phase[j] = "report" /\ phase'[j] = "over"
                      /\ AtWork(j) = {}
                      /\ \A c \in Owed(j) : reported[j][c] = 1
<1>1. ASSUME HistoryInv, RunInv, NEW i \in Jobs, SaveReport(i), NEW j \in Jobs, j \in Listed' \ Listed
      PROVE  Good(j)
  <2>1. phase[i] = "report" /\ phase'[i] = "over"
    BY <1>1 DEF SaveReport, Goto, RunInv, RunTypes, RunTypeOK
  <2>2. Listed' \subseteq Listed \cup {i}
    <3>1. CASE UNCHANGED shards
      BY <3>1 DEF Listed
    <3>2. CASE shards' = DropOldest(Written(i), Total(Written(i)) - Keep)
      BY <1>1, <2>1, <3>2, NewlyListed
    <3>3. ASSUME NEW m \in Keep..Total(Written(i)),
                 shards' = DropOldest(Written(i), Total(Written(i)) - m)
          PROVE  Listed' \subseteq Listed \cup {i}
      BY <1>1, <2>1, <3>3, NewlyListed
    <3> QED  BY <1>1, <3>1, <3>2, <3>3 DEF SaveReport, AppendReport, AppendFails, Prune
  <2>3. j = i
    BY <1>1, <2>2
  <2>4. AtWork(i) = {} /\ \A c \in Owed(i) : reported[i][c] = 1
    BY <1>1, <2>1, EndedWhole
  <2>5. jobState[i] = "running"
    BY <1>1, <2>1 DEF RunInv, JobInv, InStep, RunTypes
  <2> QED  BY <2>1, <2>3, <2>4, <2>5
<1>2. ASSUME HistoryInv, Delete PROVE Listed' \subseteq Listed
  <2>1. CASE UNCHANGED shards
    BY <2>1 DEF Listed
  <2>2. ASSUME NEW i \in Reports, shards' = [d \in Days |-> Without(shards[d], {i})]
        PROVE  Listed' \subseteq Listed
    <3>1. ASSUME NEW d \in Days PROVE Range(shards'[d]) \subseteq Range(shards[d])
      <4>1. shards[d] \in Seq(Reports) /\ shards'[d] = Without(shards[d], {i})
        BY <1>2, <2>2 DEF HistoryInv, Filed
      <4> QED  BY <4>1, WithoutElements
    <3> QED  BY <3>1 DEF Listed
  <2> QED  BY <1>2, <2>1, <2>2 DEF Delete, DeleteReport, DeleteFails
<1>3. ASSUME Clear PROVE Listed' \subseteq Listed
  <2>1. ASSUME NEW d \in Days PROVE shards'[d] = <<>> \/ shards'[d] = shards[d]
    BY <1>3, <2>1 DEF Clear, ClearHistory, ClearFails
  <2>2. Range(<<>>) = {}
    BY DEF Range
  <2>3. ASSUME NEW d \in Days PROVE Range(shards'[d]) \subseteq Range(shards[d])
    BY <2>1, <2>2
  <2> QED  BY <2>3 DEF Listed
<1>4. ASSUME HistoryInv, RunInv, [Next]_vars, NEW j \in Jobs, j \in Listed' \ Listed
      PROVE  Good(j)
  <2>1. CASE UNCHANGED shards
    BY <1>4, <2>1 DEF Listed
  <2>2. CASE Delete \/ Clear
    BY <1>2, <1>3, <1>4, <2>2
  <2>3. ASSUME NEW i \in Jobs, SaveReport(i) PROVE Good(j)
    BY <1>1, <1>4, <2>3
  <2> HIDE DEF Good
  <2> QED  BY <1>4, <2>1, <2>2, <2>3
           DEF Next, Job, DiagRunRequest, ThreadFails, RunStep, SaveRaises, FinishJob, Midnight,
               historyVars, vars
<1>5. RunInv /\ HistoryInv /\ [Next]_vars =>
        [\A j \in Jobs : j \in Listed' \ Listed => Good(j)]_vars
  <2> HIDE DEF Good
  <2> QED  BY <1>4
<1> QED  BY <1>5, RunInvariant, HistoryInvariant, PTL DEF Spec, ReportFiled
=============================================================================
