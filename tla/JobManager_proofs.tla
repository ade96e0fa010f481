-------------------------- MODULE JobManager_proofs --------------------------
(***************************************************************************)
(* Proofs about JobManager, for every number of jobs, every limit and      *)
(* every set of cancel requests.                                           *)
(***************************************************************************)
EXTENDS JobManager, FiniteSetTheorems, WellFoundedInduction, TLAPS

-----------------------------------------------------------------------------
(* Lemmas about NewestOf, Prunable and Ranks.                              *)

\* A finite nonempty set with distinct natural keys has an element of least key.
LEMMA LeastKey ==
    ASSUME NEW S, IsFiniteSet(S), S # {}, NEW key,
           \A j \in S : key[j] \in Nat
    PROVE  \E x \in S : \A y \in S : key[x] <= key[y]
<1> DEFINE Below(j) == {k \in S : key[k] <= key[j]}
           R == StrictSubsetOrdering(S)
<1>1. PICK X \in {Below(j) : j \in S} :
              \A Y \in {Below(j) : j \in S} : ~(<<Y, X>> \in R)
  <2> DEFINE T == {Below(j) : j \in S}
  <2>1. IsWellFoundedOn(R, FiniteSubsetsOf(S))
    BY FS_StrictSubsetOrderingWellFounded
  <2>2. T \subseteq FiniteSubsetsOf(S)
    <3> SUFFICES ASSUME NEW j \in S PROVE Below(j) \in FiniteSubsetsOf(S)
      OBVIOUS
    <3>1. Below(j) \subseteq S
      OBVIOUS
    <3>2. IsFiniteSet(Below(j))
      BY <3>1, FS_Subset
    <3> QED BY <3>1, <3>2 DEF FiniteSubsetsOf
  <2>3. T # {}
    OBVIOUS
  <2> HIDE DEF T, R
  <2>4. \E X \in T : \A Y \in T : ~(<<Y, X>> \in R)
    BY <2>1, <2>2, <2>3, WFMin
  <2> QED BY <2>4 DEF T
<1>2. PICK x \in S : X = Below(x)
  BY <1>1
<1>3. ASSUME NEW y \in S, key[y] < key[x] PROVE FALSE
  <2>1. Below(y) \subseteq Below(x)
    <3> SUFFICES ASSUME NEW k \in S, key[k] <= key[y] PROVE key[k] <= key[x]
      OBVIOUS
    <3>1. key[k] \in Nat /\ key[y] \in Nat /\ key[x] \in Nat
      OBVIOUS
    <3> QED BY <3>1, <1>3
  <2>2. x \in Below(x) /\ x \notin Below(y)
    <3>1. key[y] \in Nat /\ key[x] \in Nat
      OBVIOUS
    <3> QED BY <3>1, <1>3
  <2>3. <<Below(y), Below(x)>> \in R
    BY <2>1, <2>2 DEF StrictSubsetOrdering
  <2> QED BY <2>3, <1>1, <1>2
<1>4. ASSUME NEW y \in S PROVE key[x] <= key[y]
  <2>1. key[y] \in Nat /\ key[x] \in Nat
    OBVIOUS
  <2> QED BY <2>1, <1>3
<1> QED BY <1>4

\* NewestOf keeps at most n elements of a finite set with distinct keys.
LEMMA NewestOfBound ==
    ASSUME NEW S, IsFiniteSet(S), NEW key, NEW n \in Nat,
           \A j \in S : key[j] \in Nat,
           \A j, k \in S : j # k => key[j] # key[k]
    PROVE  /\ NewestOf(S, key, n) \subseteq S
           /\ IsFiniteSet(NewestOf(S, key, n))
           /\ Cardinality(NewestOf(S, key, n)) <= n
<1> DEFINE N == NewestOf(S, key, n)
<1>1. N \subseteq S
  BY DEF NewestOf
<1>2. IsFiniteSet(N)
  BY <1>1, FS_Subset
<1>3. CASE N = {}
  BY <1>1, <1>2, <1>3, FS_EmptySet
<1>4. CASE N # {}
  <2> HIDE DEF N
  <2>0. \A j \in N : key[j] \in Nat
    BY <1>1
  <2>1. PICK x \in N : \A y \in N : key[x] <= key[y]
    BY <1>2, <1>4, <2>0, LeastKey
  <2> DEFINE Above == {k \in S : key[k] > key[x]}
  <2>2. Cardinality(Above) < n
    BY <2>1 DEF N, NewestOf
  <2>3. IsFiniteSet(Above)
    BY FS_Subset
  <2>4. N \ {x} \subseteq Above
    <3> SUFFICES ASSUME NEW y \in N, y # x PROVE key[y] > key[x]
      BY <1>1
    <3>1. key[x] \in Nat /\ key[y] \in Nat /\ key[x] # key[y] /\ key[x] <= key[y]
      BY <1>1, <2>0, <2>1
    <3> QED BY <3>1
  <2>5. Cardinality(N \ {x}) <= Cardinality(Above)
    BY <2>3, <2>4, FS_Subset
  <2>6. Cardinality(N \ {x}) = Cardinality(N) - 1
    BY <1>2, <2>1, FS_RemoveElement
  <2>7. Cardinality(N) \in Nat /\ Cardinality(Above) \in Nat
    BY <1>2, <2>3, FS_CardinalityType
  <2> QED BY <2>2, <2>5, <2>6, <2>7, <1>1, <1>2 DEF N
<1> QED BY <1>3, <1>4

\* The sets of the model are finite, and bounded by the number of jobs.
LEMMA JobIdsFinite ==
    /\ IsFiniteSet(JobIds)
    /\ Cardinality(JobIds) = MaxJobs
    /\ JobIds \subseteq Nat
    /\ \A T \in SUBSET JobIds : /\ IsFiniteSet(T)
                                /\ Cardinality(T) \in 0..MaxJobs
<1>0. MaxJobs \in Nat /\ 1 \in Int /\ MaxJobs \in Int
  BY BoundsAssumption
<1>1. IsFiniteSet(JobIds) /\ Cardinality(JobIds) = MaxJobs
  BY <1>0, FS_Interval DEF JobIds
<1>2. ASSUME NEW T \in SUBSET JobIds
      PROVE  IsFiniteSet(T) /\ Cardinality(T) \in 0..MaxJobs
  <2>1. IsFiniteSet(T) /\ Cardinality(T) <= Cardinality(JobIds)
    BY <1>1, FS_Subset
  <2>2. Cardinality(T) \in Nat
    BY <2>1, FS_CardinalityType
  <2> QED BY <1>0, <1>1, <2>1, <2>2
<1> QED BY <1>0, <1>1, <1>2 DEF JobIds

\* Ranks keeps the keys of a set of files distinct.
LEMMA RanksDistinct ==
    ASSUME NEW files \in SUBSET JobIds, NEW key \in [JobIds -> Nat],
           \A j, k \in files : j # k => key[j] # key[k]
    PROVE  /\ Ranks(files, key) \in [JobIds -> 0..MaxJobs]
           /\ \A j, k \in files : j # k => Ranks(files, key)[j] # Ranks(files, key)[k]
<1> DEFINE Upto(j) == {k \in files : key[k] <= key[j]}
<1>1. \A j \in JobIds : IsFiniteSet(Upto(j)) /\ Cardinality(Upto(j)) \in 0..MaxJobs
  BY JobIdsFinite
<1>2. \A j \in files : Ranks(files, key)[j] = Cardinality(Upto(j))
  BY DEF Ranks
<1>3. Ranks(files, key) \in [JobIds -> 0..MaxJobs]
  <2>1. 0 \in 0..MaxJobs
    BY BoundsAssumption
  <2> QED BY <1>1, <2>1 DEF Ranks
<1>4. ASSUME NEW j \in files, NEW k \in files, key[j] < key[k]
      PROVE  Cardinality(Upto(j)) # Cardinality(Upto(k))
  <2>1. Upto(j) \subseteq Upto(k) /\ k \in Upto(k) /\ k \notin Upto(j)
    BY <1>4
  <2>2. Upto(j) # Upto(k)
    BY <2>1
  <2>3. IsFiniteSet(Upto(k))
    BY <1>1
  <2> QED BY <2>1, <2>2, <2>3, FS_Subset
<1>5. \A j, k \in files : j # k => key[j] < key[k] \/ key[k] < key[j]
  <2> SUFFICES ASSUME NEW j \in files, NEW k \in files, j # k
               PROVE  key[j] < key[k] \/ key[k] < key[j]
    OBVIOUS
  <2>1. key[j] \in Nat /\ key[k] \in Nat /\ key[j] # key[k]
    OBVIOUS
  <2> QED BY <2>1
<1> QED BY <1>2, <1>3, <1>4, <1>5

-----------------------------------------------------------------------------
(* The inductive invariant.                                                *)

\* A job whose task has not reached its conclusion, or has no task yet because
\* start_job is still persisting it, is an active record of the inventory.
Supervision ==
    \A j \in JobIds :
        /\ task[j] \in {"created", "marking", "executing", "unwinding"} => j \in Active
        /\ write[j]["start"] # "idle" => j \in Active /\ task[j] \in {"none", "never"}

\* Every record of the inventory has a status; nothing is known of a job that
\* was never admitted; a cancel_job in progress is about an admitted job.
Admitted ==
    /\ \A j \in jobs : status[j] \in Statuses
    /\ \A j \in JobIds : j > lastId => /\ task[j] = "none"
                                       /\ disk[j] = "absent"
                                       /\ \A w \in Writers : write[j][w] = "idle"
    /\ \A c \in Cancellers : canceller[c].pc \in {"saving", "gathering"} => canceller[c].job \in 1..lastId

\* No two state files have the same rank.
DistinctTimes == \A j, k \in Files : j # k => mtime[j] # mtime[k]

IndInv ==
    /\ TypeOK
    /\ Supervision
    /\ Admitted
    /\ DistinctTimes
    /\ CapacityBound
    /\ InventoryBound

-----------------------------------------------------------------------------
(* What the shared sub-actions do to the invariant.                        *)

LEMMA JobsAreIds ==
    ASSUME TypeOK
    PROVE  jobs \subseteq JobIds /\ Active \subseteq JobIds
<1>1. lastId \in 0..MaxJobs /\ jobs \subseteq 1..lastId
  BY DEF TypeOK
<1>2. MaxJobs \in Nat
  BY BoundsAssumption
<1>3. 1..lastId \subseteq 1..MaxJobs
  BY <1>1, <1>2
<1> QED BY <1>1, <1>3 DEF JobIds, Active

\* A step that activates and admits nothing keeps both bounds.
LEMMA ShrinkKeepsBounds ==
    ASSUME TypeOK, CapacityBound, InventoryBound,
           jobs' \subseteq jobs, Active' \subseteq Active
    PROVE  CapacityBound' /\ InventoryBound'
<1>1. jobs \subseteq JobIds /\ Active \subseteq JobIds
  BY JobsAreIds
<1>2. /\ IsFiniteSet(jobs) /\ IsFiniteSet(Active)
      /\ IsFiniteSet(jobs') /\ IsFiniteSet(Active')
  BY <1>1, JobIdsFinite, FS_Subset
<1>3. Cardinality(jobs') <= Cardinality(jobs) /\ Cardinality(Active') <= Cardinality(Active)
  BY <1>2, FS_Subset
<1>4. /\ Cardinality(jobs) \in Nat /\ Cardinality(jobs') \in Nat
      /\ Cardinality(Active) \in Nat /\ Cardinality(Active') \in Nat
  BY <1>2, FS_CardinalityType
<1> QED BY <1>3, <1>4, BoundsAssumption DEF CapacityBound, InventoryBound

\* Pruning drops terminal records of the inventory, and keeps at most
\* history_limit of them.
LEMMA PrunableFacts ==
    ASSUME TypeOK
    PROVE  /\ Prunable(status) \subseteq jobs
           /\ Prunable(status) \cap Active = {}
           /\ \E kept \in SUBSET jobs :
                 /\ Cardinality(kept) <= HistoryLimit
                 /\ {j \in jobs : status[j] \in TerminalStatuses} \ Prunable(status) = kept
<1> DEFINE terminal == {j \in jobs : status[j] \in TerminalStatuses}
           id == [j \in JobIds |-> j]
           kept == NewestOf(terminal, id, HistoryLimit)
<1>1. terminal \subseteq JobIds
  BY JobsAreIds
<1>2. IsFiniteSet(terminal)
  BY <1>1, JobIdsFinite
<1>3. \A j \in terminal : id[j] = j /\ id[j] \in Nat
  BY <1>1, JobIdsFinite
<1>4. kept \subseteq terminal /\ Cardinality(kept) <= HistoryLimit
  <2>1. \A j \in terminal : id[j] \in Nat
    BY <1>3
  <2>2. \A j, k \in terminal : j # k => id[j] # id[k]
    BY <1>3
  <2>3. HistoryLimit \in Nat
    BY BoundsAssumption
  <2> HIDE DEF terminal, id
  <2> QED BY <1>2, <2>1, <2>2, <2>3, NewestOfBound
<1>5. Prunable(status) = terminal \ kept
  BY DEF Prunable
<1>6. \A s \in TerminalStatuses : s \notin ActiveStatuses
  BY OutcomesAssumption DEF TerminalStatuses, ActiveStatuses
<1>7. Prunable(status) \cap Active = {}
  BY <1>5, <1>6 DEF Active
<1> QED BY <1>4, <1>5, <1>7

\* Unlinking state files creates none, and keeps the ranks distinct.
LEMMA UnlinkFacts ==
    ASSUME TypeOK, DistinctTimes, NEW gone, Unlink(gone)
    PROVE  /\ disk' \in [JobIds -> Statuses \cup {"absent"}]
           /\ mtime' \in [JobIds -> 0..MaxJobs]
           /\ \A j \in JobIds : disk[j] = "absent" => disk'[j] = "absent"
           /\ DistinctTimes'
<1>1. /\ disk' \in [JobIds -> Statuses \cup {"absent"}]
      /\ \A j \in JobIds : disk[j] = "absent" => disk'[j] = "absent"
      /\ Files' = Files \ gone
  BY DEF TypeOK, Unlink, Files
<1>2. mtime \in [JobIds -> Nat]
  BY BoundsAssumption DEF TypeOK
<1>3. \A j, k \in Files \ gone : j # k => mtime[j] # mtime[k]
  BY DEF DistinctTimes
<1>4. Files \ gone \in SUBSET JobIds
  BY DEF Files
<1>5. /\ Ranks(Files \ gone, mtime) \in [JobIds -> 0..MaxJobs]
      /\ \A j, k \in Files \ gone :
            j # k => Ranks(Files \ gone, mtime)[j] # Ranks(Files \ gone, mtime)[k]
  BY <1>2, <1>3, <1>4, RanksDistinct
<1>6. mtime' = Ranks(Files \ gone, mtime)
  BY DEF Unlink
<1> QED BY <1>1, <1>5, <1>6 DEF DistinctTimes

\* Replacing the state file of j makes it the newest.
LEMMA ReplaceFacts ==
    ASSUME TypeOK, DistinctTimes, NEW j \in JobIds, NEW s \in Statuses, Replace(j, s)
    PROVE  /\ disk' \in [JobIds -> Statuses \cup {"absent"}]
           /\ mtime' \in [JobIds -> 0..MaxJobs]
           /\ \A k \in JobIds : k # j => disk'[k] = disk[k]
           /\ DistinctTimes'
<1> DEFINE files == Files \cup {j}
           key == [mtime EXCEPT ![j] = MaxJobs + 1]
<1>1. s # "absent"
  BY OutcomesAssumption DEF Statuses, ActiveStatuses, TerminalStatuses
<1>2. /\ disk' \in [JobIds -> Statuses \cup {"absent"}]
      /\ \A k \in JobIds : k # j => disk'[k] = disk[k]
      /\ Files' = files
  BY <1>1 DEF TypeOK, Replace, Files
<1>3. key \in [JobIds -> Nat]
  BY BoundsAssumption DEF TypeOK
<1>4. \A k \in files : k # j => key[k] = mtime[k] /\ key[k] # MaxJobs + 1
  BY BoundsAssumption DEF TypeOK, Files
<1>5. key[j] = MaxJobs + 1
  BY DEF TypeOK
<1>6. \A i, k \in files : i # k => key[i] # key[k]
  BY <1>4, <1>5 DEF DistinctTimes
<1>7. files \in SUBSET JobIds
  BY DEF Files
<1>8. mtime' = Ranks(files, key)
  BY DEF Replace
<1> HIDE DEF files, key
<1>9. /\ Ranks(files, key) \in [JobIds -> 0..MaxJobs]
      /\ \A i, k \in files : i # k => Ranks(files, key)[i] # Ranks(files, key)[k]
  BY <1>3, <1>6, <1>7, RanksDistinct
<1> QED BY <1>2, <1>8, <1>9 DEF DistinctTimes

-----------------------------------------------------------------------------
(* One lemma per action.                                                   *)

LEMMA StatusSets ==
    /\ ActiveStatuses \subseteq Statuses
    /\ TerminalStatuses \subseteq Statuses
    /\ Outcomes \subseteq TerminalStatuses
    /\ ActiveStatuses \cap TerminalStatuses = {}
    /\ Statuses \cap {"idle", "saved", "unsaved", "none", "absent"} = {}
    /\ Statuses \subseteq WriteStates
    /\ "start" \in Writers /\ "run" \in Writers /\ Cancellers \subseteq Writers
    /\ "start" \notin Cancellers /\ "run" \notin Cancellers
  BY OutcomesAssumption, CancellersAssumption
  DEF Statuses, ActiveStatuses, TerminalStatuses, WriteStates, Writers

\* Telling a client records a terminal status.
LEMMA TellFacts ==
    ASSUME TypeOK, NEW j \in JobIds, NEW s, Tell(j, s)
    PROVE  told' \in [JobIds -> TerminalStatuses \cup {"none"}]
  BY DEF TypeOK, Tell

LEMMA CreateTaskKeeps ==
    ASSUME IndInv, NEW j \in JobIds, CreateTask(j)
    PROVE  IndInv'
<1> USE StatusSets DEF IndInv
<1>1. write[j]["start"] # "idle"
  BY DEF CreateTask, Resume, Ended
<1>2. j \in Active /\ j <= lastId
  BY <1>1 DEF Supervision, Admitted, TypeOK, JobIds
<1>3. Active' = Active
  BY DEF CreateTask, Active
<1>4. TypeOK'
  BY DEF TypeOK, CreateTask, Resume, TaskStates, WriteStates, fileVars, clientVars
<1>5. Supervision'
  BY <1>2, <1>3 DEF Supervision, TypeOK, CreateTask, Resume, Ended
<1>6. Admitted'
  <2>1. ASSUME NEW k \in JobIds, k > lastId
        PROVE  task'[k] = task[k] /\ write'[k] = write[k]
    <3>1. k # j
      BY <1>2, <2>1 DEF TypeOK, JobIds
    <3> QED BY <3>1 DEF TypeOK, CreateTask, Resume
  <2> QED BY <2>1 DEF Admitted, CreateTask, fileVars
<1>8. DistinctTimes'
  BY DEF DistinctTimes, Files, CreateTask, fileVars
<1>7. CapacityBound' /\ InventoryBound'
  BY <1>3, ShrinkKeepsBounds DEF CreateTask
<1> QED BY <1>4, <1>5, <1>6, <1>7, <1>8

LEMMA StartAbandonedKeeps ==
    ASSUME IndInv, NEW j \in JobIds, StartAbandoned(j)
    PROVE  IndInv'
<1> USE StatusSets DEF IndInv
<1>1. j \in Active /\ j <= lastId
  BY DEF StartAbandoned, Supervision, Admitted, TypeOK, JobIds
<1>2. Active' = Active
  BY DEF StartAbandoned, Active
<1>3. TypeOK'
  BY DEF TypeOK, StartAbandoned, TaskStates, WriteStates, fileVars, clientVars
<1>4. Supervision'
  BY <1>1, <1>2 DEF Supervision, TypeOK, StartAbandoned
<1>5. Admitted' /\ DistinctTimes'
  BY <1>1 DEF Admitted, DistinctTimes, Files, TypeOK, StartAbandoned, fileVars
<1>6. CapacityBound' /\ InventoryBound'
  BY <1>2, ShrinkKeepsBounds DEF StartAbandoned
<1> QED BY <1>3, <1>4, <1>5, <1>6

LEMMA RunBeginsKeeps ==
    ASSUME IndInv, NEW j \in JobIds, RunBegins(j)
    PROVE  IndInv'
<1> USE StatusSets DEF IndInv
<1>1. j \in Active /\ j <= lastId
  BY DEF RunBegins, Supervision, Admitted, TypeOK, JobIds
<1>2. "running" \in ActiveStatuses
  BY DEF ActiveStatuses
<1>3. Active' = Active
  BY <1>1, <1>2 DEF RunBegins, Active, TypeOK
<1>4. TypeOK'
  BY <1>2 DEF TypeOK, RunBegins, Persist, TaskStates, fileVars, clientVars
<1>5. Supervision'
  BY <1>1, <1>3 DEF Supervision, TypeOK, RunBegins, Persist
<1>6. Admitted' /\ DistinctTimes'
  <2>1. status' \in [JobIds -> Statuses \cup {"none"}] /\ status'[j] \in Statuses
    BY <1>2 DEF TypeOK, RunBegins
  <2>2. \A k \in jobs : status'[k] \in Statuses
    BY <2>1 DEF Admitted, TypeOK, RunBegins
  <2>3. Admitted'
    BY <1>1, <2>2 DEF Admitted, TypeOK, RunBegins, Persist, fileVars
  <2>4. DistinctTimes'
    BY DEF DistinctTimes, Files, RunBegins, fileVars
  <2> QED BY <2>3, <2>4
<1>7. CapacityBound' /\ InventoryBound'
  BY <1>3, ShrinkKeepsBounds DEF RunBegins
<1> QED BY <1>4, <1>5, <1>6, <1>7

LEMMA RunMarkedKeeps ==
    ASSUME IndInv, NEW j \in JobIds, RunMarked(j)
    PROVE  IndInv'
<1> USE StatusSets DEF IndInv
<1>1. j \in Active /\ j <= lastId
  BY DEF RunMarked, Supervision, Admitted, TypeOK, JobIds
<1>2. Active' = Active
  BY DEF RunMarked, Active
<1>3. TypeOK'
  BY DEF TypeOK, RunMarked, Resume, TaskStates, WriteStates, fileVars, clientVars
<1>4. Supervision'
  BY <1>1, <1>2 DEF Supervision, TypeOK, RunMarked, Resume
<1>5. Admitted' /\ DistinctTimes'
  BY <1>1 DEF Admitted, DistinctTimes, Files, TypeOK, RunMarked, Resume, fileVars
<1>6. CapacityBound' /\ InventoryBound'
  BY <1>2, ShrinkKeepsBounds DEF RunMarked
<1> QED BY <1>3, <1>4, <1>5, <1>6

LEMMA RunRefusedKeeps ==
    ASSUME IndInv, NEW j \in JobIds, RunRefused(j)
    PROVE  IndInv'
<1> USE StatusSets DEF IndInv
<1>1. j \in Active /\ j <= lastId /\ write[j]["start"] = "idle"
  BY DEF RunRefused, Supervision, Admitted, TypeOK, JobIds
<1>2. "failed" \in TerminalStatuses
  BY DEF TerminalStatuses
<1>3. Active' = Active \ {j}
  BY <1>2 DEF RunRefused, Active, TypeOK
<1>4. TypeOK'
  BY <1>2 DEF TypeOK, RunRefused, Persist, TaskStates, fileVars, clientVars
<1>5. Supervision'
  BY <1>1, <1>3 DEF Supervision, TypeOK, RunRefused, Persist
<1>6. Admitted' /\ DistinctTimes'
  BY <1>1, <1>2 DEF Admitted, DistinctTimes, Files, TypeOK, RunRefused, Persist, fileVars
<1>7. CapacityBound' /\ InventoryBound'
  BY <1>3, ShrinkKeepsBounds DEF RunRefused
<1> QED BY <1>4, <1>5, <1>6, <1>7

\* The three ways out of run_process: a result, an exception, a cancellation.
LEMMA ConcludeKeeps ==
    ASSUME IndInv, NEW j \in JobIds, NEW s \in TerminalStatuses,
           NEW next \in {"saving_result", "saving_error"},
           task[j] \in {"executing", "unwinding"}, Conclude(j, s, next)
    PROVE  IndInv'
<1> USE StatusSets DEF IndInv
<1>1. j \in Active /\ j <= lastId
  BY DEF Supervision, Admitted, TypeOK, JobIds
<1>2. write[j]["start"] = "idle"
  BY DEF Supervision
<1>3. Active' = Active \ {j}
  BY DEF Conclude, Active, TypeOK
<1>4. TypeOK'
  BY DEF TypeOK, Conclude, Persist, TaskStates, fileVars, clientVars
<1>5. Supervision'
  BY <1>2, <1>3 DEF Supervision, TypeOK, Conclude, Persist
<1>6. Admitted' /\ DistinctTimes'
  BY <1>1 DEF Admitted, DistinctTimes, Files, TypeOK, Conclude, Persist, fileVars
<1>7. CapacityBound' /\ InventoryBound'
  BY <1>3, ShrinkKeepsBounds DEF Conclude
<1> QED BY <1>4, <1>5, <1>6, <1>7

LEMMA RunConcludesKeeps ==
    ASSUME IndInv, NEW j \in JobIds,
           RunReturns(j) \/ RunRaises(j) \/ RunCancelled(j)
    PROVE  IndInv'
<1>1. CASE RunReturns(j)
  BY <1>1, ConcludeKeeps, StatusSets DEF RunReturns
<1>2. CASE RunRaises(j)
  BY <1>2, ConcludeKeeps DEF RunRaises, TerminalStatuses
<1>3. CASE RunCancelled(j)
  BY <1>3, ConcludeKeeps DEF RunCancelled, TerminalStatuses
<1> QED BY <1>1, <1>2, <1>3

LEMMA RunFinishesKeeps ==
    ASSUME IndInv, NEW j \in JobIds, RunFinishes(j)
    PROVE  IndInv'
<1> USE StatusSets DEF IndInv
<1> DEFINE gone == IF task[j] = "saving_result" THEN Prunable(status) ELSE {}
<1>1. gone \subseteq jobs /\ gone \cap Active = {}
  BY PrunableFacts
<1>2. jobs' = jobs \ gone /\ \E removed \in SUBSET gone : Unlink(removed)
  BY DEF RunFinishes
<1> HIDE DEF gone
<1>3. Active' = Active
  BY <1>1, <1>2 DEF RunFinishes, Active
<1>4. /\ disk' \in [JobIds -> Statuses \cup {"absent"}]
      /\ mtime' \in [JobIds -> 0..MaxJobs]
      /\ \A k \in JobIds : disk[k] = "absent" => disk'[k] = "absent"
      /\ DistinctTimes'
  BY <1>2, UnlinkFacts
<1>5. j <= lastId
  BY DEF RunFinishes, Admitted, TypeOK, JobIds
<1>6. TypeOK'
  BY <1>2, <1>4 DEF TypeOK, RunFinishes, Resume, TaskStates, WriteStates, clientVars
<1>7. Supervision'
  BY <1>3 DEF Supervision, TypeOK, RunFinishes, Resume
<1>8. Admitted'
  BY <1>2, <1>4, <1>5 DEF Admitted, TypeOK, RunFinishes, Resume
<1>9. CapacityBound' /\ InventoryBound'
  BY <1>2, <1>3, ShrinkKeepsBounds
<1> QED BY <1>4, <1>6, <1>7, <1>8, <1>9

LEMMA WriteEndsKeeps ==
    ASSUME IndInv, NEW j \in JobIds, NEW w \in Writers, WriteEnds(j, w)
    PROVE  IndInv'
<1> USE StatusSets DEF IndInv
<1>1. j <= lastId
  BY DEF WriteEnds, Admitted, TypeOK, JobIds
<1>2. write[j][w] \in Statuses
  BY DEF WriteEnds
<1>3. Active' = Active
  BY DEF WriteEnds, Active, loopVars
<1>4. PICK replaced \in BOOLEAN, ok \in BOOLEAN :
         /\ write' = [write EXCEPT ![j][w] =
                        IF Deserted(j, w) THEN "idle"
                        ELSE IF ok THEN "saved" ELSE "unsaved"]
         /\ IF replaced THEN Replace(j, write[j][w]) ELSE UNCHANGED fileVars
  BY DEF WriteEnds
<1>5. /\ disk' \in [JobIds -> Statuses \cup {"absent"}]
      /\ mtime' \in [JobIds -> 0..MaxJobs]
      /\ \A k \in JobIds : k # j => disk'[k] = disk[k]
      /\ DistinctTimes'
  <2>1. CASE replaced
    BY <1>2, <1>4, <2>1, ReplaceFacts
  <2>2. CASE ~replaced
    BY <1>4, <2>2 DEF fileVars, TypeOK, DistinctTimes, Files
  <2> QED BY <2>1, <2>2
<1>6. TypeOK'
  BY <1>4, <1>5 DEF TypeOK, WriteEnds, WriteStates, loopVars, clientVars
<1>7. Supervision'
  BY <1>2, <1>3, <1>4 DEF Supervision, TypeOK, WriteEnds, loopVars
<1>8. Admitted'
  BY <1>1, <1>4, <1>5 DEF Admitted, TypeOK, WriteEnds, loopVars
<1>9. CapacityBound' /\ InventoryBound'
  BY <1>3, ShrinkKeepsBounds DEF WriteEnds, loopVars
<1> QED BY <1>5, <1>6, <1>7, <1>8, <1>9

LEMMA CancelRequestKeeps ==
    ASSUME IndInv, NEW c \in Cancellers, NEW j \in JobIds, CancelRequest(c, j)
    PROVE  IndInv'
<1> USE StatusSets DEF IndInv
<1>1. j \in Active /\ j \in 1..lastId
  BY DEF CancelRequest, Cancellable, Active, TypeOK
<1>2. "cancelling" \in ActiveStatuses
  BY DEF ActiveStatuses
<1>3. Active' = Active
  BY <1>1, <1>2 DEF CancelRequest, Active, TypeOK
<1>4. TypeOK'
  BY <1>2 DEF TypeOK, CancelRequest, Persist, fileVars, clientVars
<1>5. Supervision'
  BY <1>3 DEF Supervision, TypeOK, CancelRequest, Persist
<1>6. status' \in [JobIds -> Statuses \cup {"none"}] /\ status'[j] \in Statuses
  BY <1>2 DEF TypeOK, CancelRequest
<1>7. \A k \in jobs : status'[k] \in Statuses
  BY <1>6 DEF Admitted, TypeOK, CancelRequest
<1>8. Admitted'
  <2>1. j <= lastId
    BY <1>1 DEF JobIds, TypeOK
  <2>2. \A d \in Cancellers : canceller'[d].pc \in {"saving", "gathering"} => canceller'[d].job \in 1..lastId
    BY <1>1 DEF Admitted, TypeOK, CancelRequest
  <2> QED BY <1>7, <2>1, <2>2 DEF Admitted, TypeOK, CancelRequest, Persist, fileVars
<1>9. DistinctTimes'
  BY DEF DistinctTimes, Files, CancelRequest, fileVars
<1>10. CapacityBound' /\ InventoryBound'
  BY <1>3, ShrinkKeepsBounds DEF CancelRequest
<1> QED BY <1>4, <1>5, <1>8, <1>9, <1>10

\* task.cancel() ends no job that is still to be supervised.
LEMMA CancelTaskFacts ==
    ASSUME TypeOK, NEW j \in JobIds, NEW dropped, "start" \notin dropped,
           CancelTask(j, dropped)
    PROVE  /\ task' \in [JobIds -> TaskStates]
           /\ \A k \in JobIds : k # j => task'[k] = task[k] /\ write'[k] = write[k]
           /\ task[j] \in {"marking", "saving_result", "saving_error"} => task'[j] = "done"
           /\ task[j] = "executing" => task'[j] = "unwinding"
           /\ task[j] \notin {"marking", "saving_result", "saving_error", "executing"}
                => task'[j] = task[j]
           /\ write' \in [JobIds -> [Writers -> WriteStates]]
           /\ write'[j]["start"] = write[j]["start"]
<1> USE StatusSets
<1> DEFINE awaited == task[j] \in {"marking", "saving_result", "saving_error"}
           lost == dropped \cup (IF awaited THEN {"run"} ELSE {})
           row == [w \in Writers |-> IF w \in lost /\ Ended(j, w)
                                     THEN "idle" ELSE write[j][w]]
<1>1. /\ task' \in [JobIds -> TaskStates]
      /\ \A k \in JobIds : k # j => task'[k] = task[k]
      /\ awaited => task'[j] = "done"
      /\ task[j] = "executing" => task'[j] = "unwinding"
      /\ ~awaited /\ task[j] # "executing" => task'[j] = task[j]
  BY DEF TypeOK, CancelTask, TaskStates
<1>2. "start" \notin lost
  BY CancellersAssumption
<1>3. row \in [Writers -> WriteStates] /\ row["start"] = write[j]["start"]
  BY <1>2 DEF TypeOK, WriteStates
<1>4. write' = [write EXCEPT ![j] = row]
  BY DEF CancelTask
<1> HIDE DEF row, lost
<1>5. /\ write' \in [JobIds -> [Writers -> WriteStates]]
      /\ \A k \in JobIds : k # j => write'[k] = write[k]
      /\ write'[j]["start"] = write[j]["start"]
  BY <1>3, <1>4 DEF TypeOK
<1> QED BY <1>1, <1>5

\* The steps of a cancel_job that may cancel the task, or let go of it.
LEMMA CancelStepKeeps ==
    ASSUME IndInv, NEW c \in Cancellers, CancelDeliver(c) \/ CancelAbandoned(c)
    PROVE  IndInv'
<1> USE StatusSets DEF IndInv
<1> DEFINE j == canceller[c].job
<1>1. j \in JobIds /\ j <= lastId
  <2>1. j \in 1..lastId
    BY DEF CancelDeliver, CancelAbandoned, Admitted
  <2> QED BY <2>1, BoundsAssumption DEF TypeOK, JobIds
<1>2. UNCHANGED <<jobs, lastId, status, disk, mtime, restarts, told, vouched,
                  requested, accepted>>
  BY DEF CancelDeliver, CancelAbandoned, fileVars, clientVars
<1>3. Active' = Active
  BY <1>2 DEF Active
<1>4. /\ task' \in [JobIds -> TaskStates]
      /\ write' \in [JobIds -> [Writers -> WriteStates]]
      /\ \A k \in JobIds : k # j => task'[k] = task[k] /\ write'[k] = write[k]
      /\ task'[j] \in {"created", "marking", "executing", "unwinding"}
           => task[j] \in {"created", "marking", "executing", "unwinding"}
      /\ write'[j]["start"] = write[j]["start"]
      /\ task[j] \in {"none", "never"} => task'[j] = task[j]
  <2>1. CASE CancelTask(j, {c}) \/ CancelTask(j, {})
    BY <1>1, <2>1, CancelTaskFacts
  <2>2. CASE UNCHANGED task /\ write' = [write EXCEPT ![j][c] = IF Ended(j, c) THEN "idle" ELSE @]
    <3>1. "start" # c
      BY CancellersAssumption
    <3>2. write' \in [JobIds -> [Writers -> WriteStates]]
      BY <1>1, <2>2 DEF TypeOK, WriteStates
    <3>3. /\ \A k \in JobIds : k # j => write'[k] = write[k]
          /\ write'[j]["start"] = write[j]["start"]
      BY <1>1, <2>2, <3>1 DEF TypeOK
    <3>4. task' \in [JobIds -> TaskStates]
      BY <2>2 DEF TypeOK
    <3> QED BY <2>2, <3>2, <3>3, <3>4
  <2> QED BY <2>1, <2>2 DEF CancelDeliver, CancelAbandoned
<1>5. TypeOK'
  <2>1. canceller' \in [Cancellers -> [pc: {"idle", "saving", "gathering", "gone"},
                                       job: JobIds \cup {0}]]
    <3>1. CASE CancelDeliver(c)
      BY <3>1 DEF TypeOK, CancelDeliver
    <3>2. CASE CancelAbandoned(c)
      BY <3>2 DEF TypeOK, CancelAbandoned
    <3> QED BY <3>1, <3>2
  <2>2. persistent' \in [JobIds -> BOOLEAN]
    BY <1>1 DEF TypeOK, CancelDeliver, CancelAbandoned
  <2> QED BY <1>2, <1>4, <2>1, <2>2 DEF TypeOK
<1>6. Supervision'
  BY <1>1, <1>3, <1>4 DEF Supervision
<1>7. Admitted'
  <2>1. \A d \in Cancellers : canceller'[d].pc \in {"saving", "gathering"} => canceller'[d].job \in 1..lastId
    <3>1. /\ canceller \in [Cancellers -> [pc: {"idle", "saving", "gathering", "gone"},
                                          job: JobIds \cup {0}]]
          /\ \A d \in Cancellers :
                canceller[d].pc \in {"saving", "gathering"} => canceller[d].job \in 1..lastId
      BY DEF Admitted, TypeOK
    <3>2. CASE canceller' = [canceller EXCEPT ![c].pc = "gathering"] /\ canceller[c].pc = "saving"
      BY <1>2, <3>1, <3>2
    <3>3. CASE canceller' = [canceller EXCEPT ![c] = [pc |-> "gone", job |-> 0]]
      BY <1>2, <3>1, <3>3
    <3> QED BY <3>2, <3>3 DEF CancelDeliver, CancelAbandoned
  <2>2. \A k \in JobIds : k > lastId => k # j
    BY <1>1 DEF TypeOK, JobIds
  <2> QED BY <1>2, <1>4, <2>1, <2>2 DEF Admitted
<1>8. DistinctTimes'
  BY <1>2 DEF DistinctTimes, Files
<1>9. CapacityBound' /\ InventoryBound'
  BY <1>2, <1>3, ShrinkKeepsBounds
<1> QED BY <1>5, <1>6, <1>7, <1>8, <1>9

\* The steps that only tell a client something.
LEMMA TellingKeeps ==
    ASSUME IndInv, NEW j \in JobIds, NEW c \in Cancellers,
           CancelRefused(c, j) \/ CancelReply(c)
    PROVE  IndInv'
<1> USE StatusSets DEF IndInv
<1>1. /\ UNCHANGED <<jobs, lastId, status, persistent, task, write, disk, mtime,
                   restarts, vouched, requested>>
      /\ UNCHANGED canceller \/ canceller' = [canceller EXCEPT ![c] = [pc |-> "idle", job |-> 0]]
  BY DEF CancelRefused, CancelReply, loopVars, fileVars
<1>2. Active' = Active
  BY <1>1 DEF Active
<1>3. told' \in [JobIds -> TerminalStatuses \cup {"none"}] /\ accepted' \subseteq JobIds
  <2>1. CASE CancelRefused(c, j)
    BY <2>1, TellFacts DEF CancelRefused, TypeOK
  <2>2. CASE CancelReply(c)
    <3>1. canceller[c].job \in JobIds
      <4>1. canceller[c].job \in 1..lastId
        BY <2>2 DEF CancelReply, Admitted
      <4> QED BY <4>1, BoundsAssumption DEF TypeOK, JobIds
    <3> QED BY <2>2, <3>1, TellFacts DEF CancelReply, TypeOK
  <2> QED BY <2>1, <2>2
<1>4. canceller' \in [Cancellers -> [pc: {"idle", "saving", "gathering", "gone"}, job: JobIds \cup {0}]]
  <2>1. canceller \in [Cancellers -> [pc: {"idle", "saving", "gathering", "gone"}, job: JobIds \cup {0}]]
    BY DEF TypeOK
  <2>2. [pc |-> "idle", job |-> 0] \in [pc: {"idle", "saving", "gathering", "gone"}, job: JobIds \cup {0}]
    OBVIOUS
  <2> QED BY <1>1, <2>1, <2>2
<1>5. TypeOK'
  BY <1>1, <1>3, <1>4 DEF TypeOK
<1>6. Supervision' /\ DistinctTimes'
  BY <1>1, <1>2 DEF Supervision, DistinctTimes, Files
<1>7. Admitted'
  BY <1>1 DEF Admitted, TypeOK
<1>8. CapacityBound' /\ InventoryBound'
  BY <1>1, <1>2, ShrinkKeepsBounds
<1> QED BY <1>5, <1>6, <1>7, <1>8

LEMMA ReportKeeps ==
    ASSUME IndInv, NEW j \in JobIds, Report(j)
    PROVE  IndInv'
<1> USE DEF IndInv
<1>1. UNCHANGED <<jobs, lastId, status, persistent, task, write, canceller, disk, mtime,
                  restarts, requested, accepted>>
  BY DEF Report, loopVars, fileVars
<1>2. Active' = Active
  BY <1>1 DEF Active
<1>3. told' \in [JobIds -> TerminalStatuses \cup {"none"}] /\ vouched' \subseteq JobIds
  BY TellFacts DEF Report, TypeOK
<1>4. TypeOK'
  BY <1>1, <1>3 DEF TypeOK
<1>5. Supervision' /\ Admitted' /\ DistinctTimes'
  BY <1>1, <1>2 DEF Supervision, Admitted, DistinctTimes, Files
<1>6. CapacityBound' /\ InventoryBound'
  BY <1>1, <1>2, ShrinkKeepsBounds
<1> QED BY <1>4, <1>5, <1>6

LEMMA UnionBound ==
    ASSUME NEW S, IsFiniteSet(S), NEW T, IsFiniteSet(T)
    PROVE  /\ IsFiniteSet(S \cup T)
           /\ Cardinality(S \cup T) <= Cardinality(S) + Cardinality(T)
<1>1. /\ IsFiniteSet(S \cup T)
      /\ Cardinality(S \cup T) = Cardinality(S) + Cardinality(T) - Cardinality(S \cap T)
  BY FS_Union
<1>2. IsFiniteSet(S \cap T)
  BY FS_Subset
<1>3. Cardinality(S) \in Nat /\ Cardinality(T) \in Nat /\ Cardinality(S \cap T) \in Nat
  BY <1>2, FS_CardinalityType
<1> QED BY <1>1, <1>3

LEMMA StartJobKeeps ==
    ASSUME IndInv, StartJob
    PROVE  IndInv'
<1> USE StatusSets DEF IndInv
<1> DEFINE j == lastId + 1
           gone == Prunable(status)
<1>1. /\ j \in JobIds /\ j \notin jobs /\ j > lastId /\ lastId' = j
      /\ lastId \in Nat /\ j \in 0..MaxJobs /\ j # lastId
  <2>1. lastId \in 0..MaxJobs /\ jobs \subseteq 1..lastId
    BY DEF TypeOK
  <2> QED BY <2>1, BoundsAssumption DEF StartJob, JobIds
<1>2. gone \subseteq jobs /\ gone \cap Active = {}
  BY PrunableFacts
<1>3. PICK kept \in SUBSET jobs :
         /\ Cardinality(kept) <= HistoryLimit
         /\ {k \in jobs : status[k] \in TerminalStatuses} \ gone = kept
  BY PrunableFacts
<1>4. /\ jobs' = (jobs \ gone) \cup {j} /\ \E removed \in SUBSET gone : Unlink(removed)
      /\ status' = [status EXCEPT ![j] = "starting"]
      /\ write' = [write EXCEPT ![j]["start"] = "starting"]
      /\ UNCHANGED <<persistent, task, canceller, restarts, clientVars>>
  BY DEF StartJob, Persist
<1> HIDE DEF gone, j
<1>5. "starting" \in ActiveStatuses
  BY DEF ActiveStatuses
<1>6. Active' = Active \cup {j}
  BY <1>1, <1>2, <1>4, <1>5 DEF Active, TypeOK
<1>7. /\ disk' \in [JobIds -> Statuses \cup {"absent"}]
      /\ mtime' \in [JobIds -> 0..MaxJobs]
      /\ \A k \in JobIds : disk[k] = "absent" => disk'[k] = "absent"
      /\ DistinctTimes'
  BY <1>4, UnlinkFacts
<1>8. TypeOK'
  <2>1. jobs' \subseteq 1..lastId'
    <3>1. jobs \subseteq 1..lastId
      BY DEF TypeOK
    <3>2. 1..lastId \subseteq 1..j /\ j \in 1..j
      <4>1. j = lastId + 1
        BY DEF j
      <4> QED BY <1>1, <4>1
    <3> QED BY <1>1, <1>4, <3>1, <3>2
  <2>2. /\ status' \in [JobIds -> Statuses \cup {"none"}]
        /\ write' \in [JobIds -> [Writers -> WriteStates]]
    BY <1>1, <1>4, <1>5 DEF TypeOK
  <2> QED BY <1>1, <1>4, <1>7, <2>1, <2>2 DEF TypeOK, clientVars
<1>9. Supervision'
  <2>1. task[j] = "none"
    BY <1>1 DEF Admitted
  <2> QED BY <1>1, <1>4, <1>6, <2>1 DEF Supervision, TypeOK
<1>10. Admitted'
  <2>1. \A k \in jobs' : status'[k] \in Statuses
    BY <1>1, <1>4, <1>5 DEF Admitted, TypeOK
  <2>2. \A k \in JobIds : k > j => k > lastId /\ k # j
    BY <1>1 DEF JobIds
  <2>3. \A k \in JobIds : k > j => write'[k] = write[k]
    BY <1>4, <2>2 DEF TypeOK
  <2>4. \A c \in Cancellers : canceller[c].pc \in {"saving", "gathering"} => canceller[c].job \in 1..j
    <3>1. 1..lastId \subseteq 1..j
      BY <1>1
    <3> QED BY <3>1 DEF Admitted
  <2> QED BY <1>1, <1>4, <1>7, <2>1, <2>2, <2>3, <2>4 DEF Admitted
<1>11. /\ IsFiniteSet(Active) /\ IsFiniteSet(Active') /\ IsFiniteSet(kept)
       /\ IsFiniteSet(jobs')
  <2>1. Active \subseteq JobIds /\ Active' \subseteq JobIds /\ kept \subseteq JobIds
        /\ jobs' \subseteq JobIds
    BY <1>1, <1>4, <1>6, JobsAreIds
  <2> QED BY <2>1, JobIdsFinite
<1>12. /\ Cardinality(Active) \in Nat /\ Cardinality(Active') \in Nat
       /\ Cardinality(kept) \in Nat /\ Cardinality(jobs') \in Nat
  BY <1>11, FS_CardinalityType
<1>13. CapacityBound'
  <2>1. Cardinality(Active') = Cardinality(Active) + 1
    <3>1. j \notin Active
      BY <1>1 DEF Active
    <3> QED BY <1>6, <1>11, <3>1, FS_AddElement
  <2>2. Cardinality(Active) < MaxActive
    BY DEF StartJob, MayAdmit
  <2> QED BY <1>12, <2>1, <2>2, BoundsAssumption DEF CapacityBound
<1>14. InventoryBound'
  <2>1. jobs' \subseteq kept \cup Active'
    BY <1>3, <1>4, <1>6 DEF Admitted, Active, Statuses
  <2>2. /\ IsFiniteSet(kept \cup Active')
        /\ Cardinality(kept \cup Active') <= Cardinality(kept) + Cardinality(Active')
    BY <1>11, UnionBound
  <2>3. Cardinality(jobs') <= Cardinality(kept \cup Active')
    BY <2>1, <2>2, FS_Subset
  <2>4. Cardinality(kept \cup Active') \in Nat
    BY <2>2, FS_CardinalityType
  <2>5. Cardinality(Active') <= MaxActive
    BY <1>13 DEF CapacityBound
  <2> QED BY <1>3, <1>12, <2>2, <2>3, <2>4, <2>5, BoundsAssumption DEF InventoryBound
<1> QED BY <1>7, <1>8, <1>9, <1>10, <1>13, <1>14

LEMMA RestartKeeps ==
    ASSUME IndInv, Restart
    PROVE  IndInv'
<1>1. PICK readable \in SUBSET JobIds :
         \E rewritten \in SUBSET Lost(Loaded(readable)) :
            \E secured \in SUBSET rewritten :
               Recover(Loaded(readable), rewritten, secured)
  BY DEF Restart
<1> DEFINE recent == NewestOf(Files, mtime, RecoveryLimit)
           loaded == Loaded(readable)
<1>0. PICK rewritten \in SUBSET Lost(loaded), secured \in SUBSET Lost(loaded) :
         Recover(loaded, rewritten, secured)
  BY <1>1
<1> USE StatusSets DEF IndInv
<1>2. /\ task' = [j \in JobIds |-> "none"]
      /\ write' = [j \in JobIds |-> [w \in Writers |-> "idle"]]
      /\ canceller' = [c \in Cancellers |-> [pc |-> "idle", job |-> 0]]
      /\ accepted' = {} /\ UNCHANGED <<lastId, told, vouched, requested>>
      /\ restarts' \in 0..MaxRestarts
  BY BoundsAssumption DEF Restart, TypeOK
<1>3. /\ Files \subseteq JobIds /\ IsFiniteSet(Files)
      /\ \A j \in Files : mtime[j] \in 0..MaxJobs
  <2>1. Files \subseteq JobIds
    BY DEF Files
  <2> QED BY <2>1, JobIdsFinite DEF TypeOK
<1>4. loaded \subseteq Files /\ IsFiniteSet(loaded) /\ Cardinality(loaded) <= HistoryLimit
  <2>1. recent \subseteq Files
    BY DEF NewestOf
  <2>2. readable \cap recent \subseteq Files /\ IsFiniteSet(readable \cap recent)
    BY <1>3, <2>1, FS_Subset
  <2>3. /\ \A j \in readable \cap recent : mtime[j] \in Nat
        /\ \A j, k \in readable \cap recent : j # k => mtime[j] # mtime[k]
    BY <1>3, <2>2, BoundsAssumption DEF DistinctTimes
  <2>4. HistoryLimit \in Nat
    BY BoundsAssumption
  <2>5. loaded = NewestOf(readable \cap recent, mtime, HistoryLimit)
    BY DEF Loaded
  <2> HIDE DEF loaded, recent
  <2>6. /\ loaded \subseteq readable \cap recent
        /\ IsFiniteSet(loaded) /\ Cardinality(loaded) <= HistoryLimit
    BY <2>2, <2>3, <2>4, <2>5, NewestOfBound
  <2> QED BY <2>2, <2>6
<1> HIDE DEF loaded, recent
<1>5. "interrupted" \in TerminalStatuses
  BY DEF TerminalStatuses
<1>6. \A j \in loaded : disk[j] \in Statuses
  BY <1>3, <1>4 DEF Files, TypeOK
<1>7. Active' = {}
  BY <1>0, <1>3, <1>4, <1>5, <1>6 DEF Active, Statuses, Recover, RecoveredStatus, Lost
<1>8. Files' = Files
  BY <1>0, <1>3, <1>4, <1>5 DEF Files, Recover, RecoveredStatus, Lost
<1>9. mtime' \in [JobIds -> 0..MaxJobs] /\ DistinctTimes'
  <2> DEFINE key == [j \in JobIds |-> IF j \in rewritten THEN 2 * MaxJobs + 1 - mtime[j]
                                      ELSE mtime[j]]
  <2>1. \A j \in JobIds : mtime[j] \in 0..MaxJobs
    BY DEF TypeOK
  <2>2. MaxJobs \in Nat
    BY BoundsAssumption
  <2>3. \A j \in JobIds : /\ key[j] \in Nat
                          /\ j \in rewritten => key[j] = 2 * MaxJobs + 1 - mtime[j]
                          /\ j \notin rewritten => key[j] = mtime[j]
    BY <2>1, <2>2
  <2>4. key \in [JobIds -> Nat]
    BY <2>3
  <2>5. ASSUME NEW j \in Files, NEW k \in Files, j # k
        PROVE  key[j] # key[k]
    <3>1. j \in JobIds /\ k \in JobIds /\ mtime[j] # mtime[k]
      BY <1>3, <2>5 DEF DistinctTimes
    <3>2. mtime[j] \in 0..MaxJobs /\ mtime[k] \in 0..MaxJobs
      BY <2>1, <3>1
    <3> HIDE DEF key
    <3> QED BY <2>2, <2>3, <3>1, <3>2
  <2>6. mtime' = Ranks(Files, key)
    BY <1>0 DEF Recover
  <2> HIDE DEF key
  <2>7. /\ Ranks(Files, key) \in [JobIds -> 0..MaxJobs]
        /\ \A j, k \in Files : j # k => Ranks(Files, key)[j] # Ranks(Files, key)[k]
    BY <1>3, <2>4, <2>5, RanksDistinct
  <2> QED BY <1>8, <2>6, <2>7 DEF DistinctTimes
<1>10. \A j \in Files : j <= lastId
  BY <1>3 DEF Files, Admitted, TypeOK, JobIds
<1>11. TypeOK'
  <2>1. jobs' \subseteq 1..lastId'
    <3>1. \A j \in JobIds : j >= 1 /\ j \in Nat
      BY JobIdsFinite DEF JobIds
    <3> QED BY <1>0, <1>2, <1>3, <1>4, <1>10, <3>1 DEF TypeOK, Recover
  <2>2. /\ status' \in [JobIds -> Statuses \cup {"none"}]
        /\ persistent' \in [JobIds -> BOOLEAN]
        /\ disk' \in [JobIds -> Statuses \cup {"absent"}]
    BY <1>0, <1>5, <1>6 DEF TypeOK, Recover, RecoveredStatus
  <2>3. /\ task' \in [JobIds -> TaskStates]
        /\ write' \in [JobIds -> [Writers -> WriteStates]]
        /\ canceller' \in [Cancellers -> [pc: {"idle", "saving", "gathering", "gone"},
                                          job: JobIds \cup {0}]]
    BY <1>2 DEF TaskStates, WriteStates
  <2> QED BY <1>2, <1>9, <2>1, <2>2, <2>3 DEF TypeOK
<1>12. Supervision'
  BY <1>2 DEF Supervision
<1>13. Admitted'
  <2>1. \A j \in jobs' : status'[j] \in Statuses
    BY <1>0, <1>3, <1>4, <1>5, <1>6 DEF Recover, RecoveredStatus
  <2>2. \A j \in JobIds : j > lastId => disk'[j] = "absent"
    <3> SUFFICES ASSUME NEW j \in JobIds, j > lastId PROVE disk'[j] = "absent"
      OBVIOUS
    <3>1. disk[j] = "absent"
      BY DEF Admitted
    <3>2. j \notin rewritten
      BY <1>0, <1>4, <3>1 DEF Files, Lost
    <3> QED BY <1>0, <3>1, <3>2 DEF Recover
  <2> QED BY <1>2, <2>1, <2>2 DEF Admitted
<1>14. CapacityBound'
  BY <1>7, FS_EmptySet, BoundsAssumption DEF CapacityBound
<1>15. InventoryBound'
  <2>1. Cardinality(loaded) \in Nat
    BY <1>4, FS_CardinalityType
  <2> QED BY <1>0, <1>3, <1>4, <2>1, BoundsAssumption DEF InventoryBound, Recover
<1> QED BY <1>9, <1>11, <1>12, <1>13, <1>14, <1>15

-----------------------------------------------------------------------------
(* The theorems.                                                           *)

LEMMA InitEstablishes == Init => IndInv
<1> SUFFICES ASSUME Init PROVE IndInv
  OBVIOUS
<1>1. TypeOK
  BY BoundsAssumption DEF Init, TypeOK, TaskStates, WriteStates
<1>2. Supervision
  BY DEF Init, Supervision, Writers
<1>3. Admitted
  BY DEF Init, Admitted
<1>4. DistinctTimes
  BY DEF Init, DistinctTimes, Files
<1>5. CapacityBound /\ InventoryBound
  <2>1. jobs = {} /\ Active = {}
    BY DEF Init, Active
  <2>2. Cardinality({}) = 0
    BY FS_EmptySet
  <2> QED BY <2>1, <2>2, BoundsAssumption DEF CapacityBound, InventoryBound
<1> QED BY <1>1, <1>2, <1>3, <1>4, <1>5 DEF IndInv

LEMMA StutterKeeps ==
    ASSUME IndInv, UNCHANGED vars
    PROVE  IndInv'
<1>1. UNCHANGED <<jobs, lastId, status, persistent, task, write, canceller, disk,
                  mtime, restarts, told, vouched, requested, accepted>>
  BY DEF vars
<1>2. Active' = Active
  BY <1>1 DEF Active
<1>3. TypeOK'
  BY <1>1 DEF IndInv, TypeOK
<1>4. Supervision' /\ Admitted' /\ DistinctTimes'
  BY <1>1, <1>2 DEF IndInv, Supervision, Admitted, DistinctTimes, Files
<1> QED BY <1>1, <1>2, <1>3, <1>4 DEF IndInv, CapacityBound, InventoryBound

\* Every step of the job manager keeps the inductive invariant: an admission, a
\* step of a supervising task, the end of a worker thread, a step of a
\* cancellation, a report or a restart.
LEMMA NextKeeps == IndInv /\ [Next]_vars => IndInv'
<1> SUFFICES ASSUME IndInv, [Next]_vars PROVE IndInv'
  OBVIOUS
<1>1. CASE StartJob
  BY <1>1, StartJobKeeps
<1>2. ASSUME NEW j \in JobIds,
             \/ StartAbandoned(j) \/ CreateTask(j)
             \/ RunBegins(j) \/ RunMarked(j) \/ RunRefused(j)
             \/ RunReturns(j) \/ RunRaises(j) \/ RunCancelled(j)
             \/ RunFinishes(j) \/ Report(j)
      PROVE  IndInv'
  BY <1>2, StartAbandonedKeeps, CreateTaskKeeps, RunBeginsKeeps, RunMarkedKeeps,
     RunRefusedKeeps, RunConcludesKeeps, RunFinishesKeeps, ReportKeeps
<1>3. ASSUME NEW j \in JobIds, NEW w \in Writers, WriteEnds(j, w)
      PROVE  IndInv'
  BY <1>3, WriteEndsKeeps
<1>4. ASSUME NEW j \in JobIds, NEW c \in Cancellers,
             CancelRefused(c, j) \/ CancelRequest(c, j)
      PROVE  IndInv'
  BY <1>4, TellingKeeps, CancelRequestKeeps
<1>5. ASSUME NEW c \in Cancellers,
             CancelDeliver(c) \/ CancelReply(c) \/ CancelAbandoned(c)
      PROVE  IndInv'
  <2>1. 1 \in JobIds
    BY BoundsAssumption DEF JobIds
  <2> QED BY <1>5, <2>1, CancelStepKeeps, TellingKeeps
<1>6. CASE Restart
  BY <1>6, RestartKeeps
<1>7. CASE UNCHANGED vars
  BY <1>7, StutterKeeps
<1> QED BY <1>1, <1>2, <1>3, <1>4, <1>5, <1>6, <1>7 DEF Next

LEMMA Inductive == Spec => []IndInv
  BY InitEstablishes, NextKeeps, PTL DEF Spec

\* Every variable of the job manager keeps its type.
THEOREM TypeCorrect == Spec => []TypeOK
<1>1. IndInv => TypeOK
  BY DEF IndInv
<1> QED BY <1>1, Inductive, PTL

\* Whatever the limits, the number of jobs, cancellations and restarts: never
\* more than MAX_ACTIVE_MANAGED_JOBS active records, and never more than
\* history_limit plus that many records in all.
THEOREM BoundedInventory == Spec => [](CapacityBound /\ InventoryBound)
<1>1. IndInv => CapacityBound /\ InventoryBound
  BY DEF IndInv
<1> QED BY <1>1, Inductive, PTL

\* A job whose process may be alive is an active record of the inventory.
THEOREM ProcessesTracked == Spec => []ProcessIsTracked
<1>1. IndInv => ProcessIsTracked
  BY DEF IndInv, Supervision, ProcessIsTracked
<1> QED BY <1>1, Inductive, PTL

-----------------------------------------------------------------------------
(* Outcomes: on disk, in flight, in memory, and as clients were told.      *)

\* What is on disk or in flight for a job never contradicts its record, and
\* neither does what a client was told, except that a restart may have
\* interrupted the job since.
OutcomeSound(j) ==
    /\ \A w \in Writers : write[j][w] \in TerminalStatuses => status[j] = write[j][w]
    /\ disk[j] \in TerminalStatuses => status[j] \in {disk[j], "none"}
    /\ task[j] \in {"saving_result", "saving_error"} => status[j] \in TerminalStatuses
    /\ told[j] # "none" => /\ j <= lastId
                           /\ status[j] \in {told[j], "interrupted", "none"}
                           /\ disk[j] \in TerminalStatuses => disk[j] \in {told[j], "interrupted"}

\* A job nobody tried to cancel has one write in flight at a time, and that of its
\* outcome is the last; an outcome reported as persistent is in its file.
Undisturbed(j) ==
    /\ \A c \in Cancellers : write[j][c] = "idle"
    /\ \A w \in Writers : write[j][w] \in ActiveStatuses => status[j] \in ActiveStatuses
    /\ write[j]["run"] # "idle" => task[j] \in {"marking", "saving_result", "saving_error"}
    /\ /\ j \in jobs
       /\ task[j] \in {"saving_result", "saving_error"}
       /\ write[j]["run"] = "saved"
       => disk[j] = status[j]
    /\ /\ j \in jobs
       /\ task[j] \in {"none", "never", "done"}
       /\ status[j] \in TerminalStatuses
       /\ persistent[j]
       => disk[j] = status[j]

\* An outcome that was vouched for: nothing is in flight for its job any more.
VouchedSound(j) ==
    /\ task[j] \in {"none", "never", "done"}
    /\ \A w \in Writers : write[j][w] = "idle"
    /\ told[j] \in TerminalStatuses
    /\ j \in jobs => status[j] = told[j]
    /\ j <= lastId
    /\ Durable(j)

\* A cancel_job in progress is about a job that has a record in this session.
CancellerSound(c) ==
    canceller[c].pc \in {"saving", "gathering"} =>
        /\ canceller[c].job \in requested
        /\ status[canceller[c].job] # "none"

OutcomeInv ==
    /\ IndInv
    /\ \A j \in JobIds : OutcomeSound(j)
    /\ \A j \in JobIds \ requested : Undisturbed(j)
    /\ \A j \in vouched \ requested : VouchedSound(j)
    /\ \A c \in Cancellers : CancellerSound(c)

-----------------------------------------------------------------------------
(* What a step leaves alone.                                               *)

\* A step on behalf of another job: the record is untouched, and its file is at
\* most unlinked by a pruning that also drops the record.
Untouched(k) ==
    /\ status'[k] = status[k] /\ task'[k] = task[k] /\ write'[k] = write[k]
    /\ persistent'[k] = persistent[k] /\ told'[k] = told[k]
    /\ \/ disk'[k] = disk[k]
       \/ disk'[k] = "absent" /\ k \notin jobs' /\ lastId - k >= HistoryLimit
    /\ k \in jobs' => k \in jobs
    /\ k \in vouched' => k \in vouched
    /\ k \in requested => k \in requested'
    /\ lastId' \in {lastId, lastId + 1}

LEMMA UntouchedKeeps ==
    ASSUME OutcomeInv, NEW k \in JobIds, Untouched(k)
    PROVE  /\ OutcomeSound(k)'
           /\ k \notin requested' => Undisturbed(k)'
           /\ k \in vouched' \ requested' => VouchedSound(k)'
<1> USE DEF OutcomeInv
<1>0. /\ lastId \in Nat /\ k \in Nat /\ HistoryLimit \in Nat
      /\ k <= lastId => k <= lastId'
      /\ lastId - k >= HistoryLimit => lastId' - k >= HistoryLimit
  <2>1. lastId \in Nat /\ k \in Nat /\ HistoryLimit \in Nat
    <3>1. lastId \in 0..MaxJobs
      BY DEF IndInv, TypeOK
    <3> QED BY <3>1, BoundsAssumption, JobIdsFinite
  <2>2. lastId' \in {lastId, lastId + 1}
    BY DEF Untouched
  <2>3. CASE lastId' = lastId
    BY <2>1, <2>3
  <2>4. CASE lastId' = lastId + 1
    BY <2>1, <2>4
  <2> QED BY <2>1, <2>2, <2>3, <2>4
<1>1. "absent" \notin TerminalStatuses
  BY StatusSets
<1>2. OutcomeSound(k)'
  BY <1>0, <1>1 DEF Untouched, OutcomeSound
<1>3. ASSUME k \notin requested' PROVE Undisturbed(k)'
  <2>1. Undisturbed(k)
    BY <1>3 DEF Untouched
  <2> QED BY <2>1 DEF Untouched, Undisturbed
<1>4. ASSUME k \in vouched' \ requested' PROVE VouchedSound(k)'
  <2>1. VouchedSound(k)
    BY <1>4 DEF Untouched
  <2>2. Durable(k)'
    <3>1. Durable(k)
      BY <2>1 DEF VouchedSound
    <3> QED BY <1>0, <3>1 DEF Untouched, Durable
  <2> QED BY <1>0, <2>1, <2>2 DEF Untouched, VouchedSound
<1> QED BY <1>2, <1>3, <1>4

\* A step about job j keeps the invariant when it keeps it of j and of the
\* cancel_job requests.
LEMMA Assemble ==
    ASSUME OutcomeInv, IndInv', NEW j \in JobIds,
           \A k \in JobIds \ {j} : Untouched(k),
           OutcomeSound(j)',
           j \notin requested' => Undisturbed(j)',
           j \in vouched' \ requested' => VouchedSound(j)',
           \A c \in Cancellers : CancellerSound(c)'
    PROVE  OutcomeInv'
<1>1. ASSUME NEW k \in JobIds
      PROVE  /\ OutcomeSound(k)'
             /\ k \notin requested' => Undisturbed(k)'
             /\ k \in vouched' \ requested' => VouchedSound(k)'
  <2>1. CASE k = j
    BY <2>1
  <2>2. CASE k # j
    BY <2>2, UntouchedKeeps
  <2> QED BY <2>1, <2>2
<1>2. vouched' \subseteq JobIds
  BY DEF IndInv, TypeOK
<1> QED BY <1>1, <1>2 DEF OutcomeInv

\* The cancel_job requests are sound as long as no record loses its status.
LEMMA CancellersKeep ==
    ASSUME OutcomeInv, UNCHANGED canceller, requested \subseteq requested',
           \A k \in JobIds : status[k] # "none" => status'[k] # "none"
    PROVE  \A c \in Cancellers : CancellerSound(c)'
<1> SUFFICES ASSUME NEW c \in Cancellers, canceller[c].pc \in {"saving", "gathering"}
             PROVE  canceller[c].job \in requested' /\ status'[canceller[c].job] # "none"
  BY DEF CancellerSound
<1>1. canceller[c].job \in requested /\ status[canceller[c].job] # "none"
  BY DEF OutcomeInv, CancellerSound
<1>2. canceller[c].job \in JobIds
  BY <1>1 DEF OutcomeInv, IndInv, TypeOK
<1> QED BY <1>1, <1>2

\* The steps of memory alone: of job j they change the record and its writes.
MemoryStep(j) ==
    /\ UNCHANGED <<jobs, lastId, disk, told, vouched>>
    /\ requested \subseteq requested'
    /\ \A k \in JobIds \ {j} : /\ status'[k] = status[k] /\ task'[k] = task[k]
                               /\ write'[k] = write[k] /\ persistent'[k] = persistent[k]

LEMMA MemoryStepLeavesOthers ==
    ASSUME OutcomeInv, NEW j \in JobIds, MemoryStep(j)
    PROVE  \A k \in JobIds \ {j} : Untouched(k)
  BY DEF MemoryStep, Untouched

\* Nothing of an active job is final yet: no file, no write, no report.
LEMMA ActiveFacts ==
    ASSUME OutcomeInv, NEW j \in Active
    PROVE  /\ j \in JobIds /\ j \in jobs /\ j <= lastId
           /\ status[j] \in ActiveStatuses /\ status[j] \notin TerminalStatuses
           /\ told[j] = "none"
           /\ disk[j] \notin TerminalStatuses
           /\ \A w \in Writers : write[j][w] \notin TerminalStatuses
           /\ task[j] \notin {"saving_result", "saving_error"}
           /\ j \notin vouched \ requested
<1> USE StatusSets DEF OutcomeInv
<1>1. j \in JobIds /\ j \in jobs /\ status[j] \in ActiveStatuses
  BY JobsAreIds DEF Active, IndInv
<1>2. j <= lastId
  BY <1>1 DEF IndInv, TypeOK
<1>3. OutcomeSound(j)
  BY <1>1
<1>4. "interrupted" \in TerminalStatuses /\ "none" \notin ActiveStatuses
  BY DEF TerminalStatuses, ActiveStatuses
<1>5. told[j] \in TerminalStatuses \cup {"none"}
  BY <1>1 DEF IndInv, TypeOK
<1>6. told[j] = "none"
  BY <1>1, <1>3, <1>4, <1>5 DEF OutcomeSound
<1>7. j \notin vouched \ requested
  BY <1>1 DEF VouchedSound
<1> QED BY <1>1, <1>2, <1>3, <1>4, <1>6, <1>7 DEF OutcomeSound

LEMMA MemoryStepKeeps ==
    ASSUME OutcomeInv, IndInv', NEW j \in JobIds, MemoryStep(j), UNCHANGED canceller,
           status[j] # "none" => status'[j] # "none",
           OutcomeSound(j)',
           j \notin requested' => Undisturbed(j)',
           j \in vouched' \ requested' => VouchedSound(j)'
    PROVE  OutcomeInv'
<1>1. \A k \in JobIds \ {j} : Untouched(k)
  BY MemoryStepLeavesOthers
<1>2. \A k \in JobIds : status[k] # "none" => status'[k] # "none"
  BY DEF MemoryStep
<1>3. \A c \in Cancellers : CancellerSound(c)'
  BY <1>2, CancellersKeep DEF MemoryStep
<1> QED BY <1>1, <1>3, Assemble

LEMMA StartAbandonedSound ==
    ASSUME OutcomeInv, NEW j \in JobIds, StartAbandoned(j)
    PROVE  OutcomeInv'
<1> USE StatusSets
<1>1. j \in Active /\ task[j] = "none" /\ write[j]["start"] # "idle"
  BY DEF StartAbandoned, OutcomeInv, IndInv, Supervision
<1>2. /\ UNCHANGED <<jobs, lastId, status, persistent, canceller, disk, mtime, restarts,
                     told, vouched, requested>>
      /\ task' = [task EXCEPT ![j] = "never"]
      /\ write' = [write EXCEPT ![j]["start"] = IF Ended(j, "start") THEN "idle" ELSE @]
  BY DEF StartAbandoned, fileVars, clientVars
<1>3. /\ task'[j] = "never" /\ \A k \in JobIds \ {j} : task'[k] = task[k] /\ write'[k] = write[k]
      /\ \A w \in Writers : write'[j][w] \in {write[j][w], "idle"}
  BY <1>2 DEF OutcomeInv, IndInv, TypeOK
<1>4. MemoryStep(j)
  BY <1>2, <1>3 DEF MemoryStep
<1>5. IndInv'
  BY StartAbandonedKeeps DEF OutcomeInv
<1>6. OutcomeSound(j)'
  BY <1>1, <1>2, <1>3, ActiveFacts DEF OutcomeSound
<1>7. ASSUME j \notin requested' PROVE Undisturbed(j)'
  <2>1. Undisturbed(j)
    BY <1>2, <1>7 DEF OutcomeInv
  <2> QED BY <1>1, <1>2, <1>3, <2>1, ActiveFacts DEF Undisturbed
<1>8. j \notin vouched' \ requested'
  BY <1>1, <1>2, ActiveFacts
<1> QED BY <1>2, <1>4, <1>5, <1>6, <1>7, <1>8, MemoryStepKeeps

LEMMA CreateTaskSound ==
    ASSUME OutcomeInv, NEW j \in JobIds, CreateTask(j)
    PROVE  OutcomeInv'
<1> USE StatusSets
<1>1. j \in Active /\ task[j] = "none"
  BY DEF CreateTask, Resume, Ended, OutcomeInv, IndInv, Supervision
<1>2. /\ UNCHANGED <<jobs, lastId, status, canceller, disk, mtime, restarts,
                     told, vouched, requested>>
      /\ task' = [task EXCEPT ![j] = "created"]
      /\ write' = [write EXCEPT ![j]["start"] = "idle"]
      /\ persistent' = [persistent EXCEPT ![j] = write[j]["start"] = "saved"]
  BY DEF CreateTask, Resume, fileVars, clientVars
<1>3. /\ task'[j] = "created"
      /\ \A k \in JobIds \ {j} : /\ task'[k] = task[k] /\ write'[k] = write[k]
                                 /\ persistent'[k] = persistent[k]
      /\ \A w \in Writers : write'[j][w] \in {write[j][w], "idle"}
  BY <1>2 DEF OutcomeInv, IndInv, TypeOK
<1>4. MemoryStep(j)
  BY <1>2, <1>3 DEF MemoryStep
<1>5. IndInv'
  BY CreateTaskKeeps DEF OutcomeInv
<1>6. OutcomeSound(j)'
  BY <1>1, <1>2, <1>3, ActiveFacts DEF OutcomeSound
<1>7. ASSUME j \notin requested' PROVE Undisturbed(j)'
  <2>1. Undisturbed(j)
    BY <1>2, <1>7 DEF OutcomeInv
  <2> QED BY <1>1, <1>2, <1>3, <2>1, ActiveFacts DEF Undisturbed
<1>8. j \notin vouched' \ requested'
  BY <1>1, <1>2, ActiveFacts
<1> QED BY <1>2, <1>4, <1>5, <1>6, <1>7, <1>8, MemoryStepKeeps

LEMMA RunBeginsSound ==
    ASSUME OutcomeInv, NEW j \in JobIds, RunBegins(j)
    PROVE  OutcomeInv'
<1> USE StatusSets
<1>1. j \in Active /\ task[j] = "created"
  BY DEF RunBegins, OutcomeInv, IndInv, Supervision
<1>2. /\ UNCHANGED <<jobs, lastId, persistent, canceller, disk, mtime, restarts,
                     told, vouched, requested>>
      /\ task' = [task EXCEPT ![j] = "marking"]
      /\ status' = [status EXCEPT ![j] = "running"]
      /\ write' = [write EXCEPT ![j]["run"] = "running"]
  BY DEF RunBegins, Persist, fileVars, clientVars
<1>3. /\ task'[j] = "marking" /\ status'[j] = "running" /\ write'[j]["run"] = "running"
      /\ \A k \in JobIds \ {j} : /\ task'[k] = task[k] /\ write'[k] = write[k]
                                 /\ status'[k] = status[k]
      /\ \A w \in Writers \ {"run"} : write'[j][w] = write[j][w]
  BY <1>2 DEF OutcomeInv, IndInv, TypeOK
<1>4. MemoryStep(j)
  BY <1>2, <1>3 DEF MemoryStep
<1>5. IndInv'
  BY RunBeginsKeeps DEF OutcomeInv
<1>6. "running" \in ActiveStatuses /\ "running" \notin TerminalStatuses
  BY DEF ActiveStatuses
<1>7. OutcomeSound(j)'
  BY <1>1, <1>2, <1>3, <1>6, ActiveFacts DEF OutcomeSound
<1>8. ASSUME j \notin requested' PROVE Undisturbed(j)'
  <2>1. Undisturbed(j)
    BY <1>2, <1>8 DEF OutcomeInv
  <2> QED BY <1>1, <1>2, <1>3, <1>6, <2>1 DEF Undisturbed
<1>9. j \notin vouched' \ requested'
  BY <1>1, <1>2, ActiveFacts
<1> QED BY <1>2, <1>3, <1>4, <1>5, <1>7, <1>8, <1>9, MemoryStepKeeps

LEMMA RunMarkedSound ==
    ASSUME OutcomeInv, NEW j \in JobIds, RunMarked(j)
    PROVE  OutcomeInv'
<1> USE StatusSets
<1>1. j \in Active /\ task[j] = "marking"
  BY DEF RunMarked, OutcomeInv, IndInv, Supervision
<1>2. /\ UNCHANGED <<jobs, lastId, status, canceller, disk, mtime, restarts,
                     told, vouched, requested>>
      /\ task' = [task EXCEPT ![j] = "executing"]
      /\ write' = [write EXCEPT ![j]["run"] = "idle"]
      /\ persistent' = [persistent EXCEPT ![j] = write[j]["run"] = "saved"]
  BY DEF RunMarked, Resume, fileVars, clientVars
<1>3. /\ task'[j] = "executing" /\ write'[j]["run"] = "idle"
      /\ \A k \in JobIds \ {j} : /\ task'[k] = task[k] /\ write'[k] = write[k]
                                 /\ persistent'[k] = persistent[k]
      /\ \A w \in Writers : write'[j][w] \in {write[j][w], "idle"}
  BY <1>2 DEF OutcomeInv, IndInv, TypeOK
<1>4. MemoryStep(j)
  BY <1>2, <1>3 DEF MemoryStep
<1>5. IndInv'
  BY RunMarkedKeeps DEF OutcomeInv
<1>6. OutcomeSound(j)'
  BY <1>1, <1>2, <1>3, ActiveFacts DEF OutcomeSound
<1>7. ASSUME j \notin requested' PROVE Undisturbed(j)'
  <2>1. Undisturbed(j)
    BY <1>2, <1>7 DEF OutcomeInv
  <2> QED BY <1>1, <1>2, <1>3, <2>1, ActiveFacts DEF Undisturbed
<1>8. j \notin vouched' \ requested'
  BY <1>1, <1>2, ActiveFacts
<1> QED BY <1>2, <1>4, <1>5, <1>6, <1>7, <1>8, MemoryStepKeeps

\* The steps of _run_job that give an active job its outcome and begin to write it.
LEMMA OutcomeSetSound ==
    ASSUME OutcomeInv, IndInv', NEW j \in Active, NEW s \in TerminalStatuses,
           NEW next \in {"saving_result", "saving_error"},
           task[j] \in {"marking", "executing", "unwinding"},
           status' = [status EXCEPT ![j] = s],
           task' = [task EXCEPT ![j] = next],
           write' = [write EXCEPT ![j]["run"] = s],
           \A k \in JobIds \ {j} : persistent'[k] = persistent[k],
           UNCHANGED <<jobs, lastId, canceller, disk, told, vouched, requested>>
    PROVE  OutcomeInv'
<1> USE StatusSets
<1>0. j \in JobIds
  BY ActiveFacts
<1>1. /\ task'[j] = next /\ status'[j] = s /\ write'[j]["run"] = s
      /\ \A k \in JobIds \ {j} : /\ task'[k] = task[k] /\ write'[k] = write[k]
                                 /\ status'[k] = status[k]
      /\ \A w \in Writers \ {"run"} : write'[j][w] = write[j][w]
  BY <1>0 DEF OutcomeInv, IndInv, TypeOK
<1>2. MemoryStep(j)
  BY <1>1 DEF MemoryStep
<1>3. write[j]["start"] = "idle"
  BY <1>0 DEF OutcomeInv, IndInv, Supervision
<1>4. OutcomeSound(j)'
  BY <1>1, ActiveFacts DEF OutcomeSound
<1>5. ASSUME j \notin requested' PROVE Undisturbed(j)'
  <2>1. Undisturbed(j)
    BY <1>0, <1>5 DEF OutcomeInv
  <2>2. \A w \in Writers : w # "run" => write'[j][w] = "idle"
    BY <1>1, <1>3, <2>1 DEF Undisturbed, Writers
  <2> QED BY <1>1, <2>1, <2>2 DEF Undisturbed
<1>6. j \notin vouched' \ requested'
  BY ActiveFacts
<1>7. "none" \notin TerminalStatuses
  OBVIOUS
<1> QED BY <1>0, <1>1, <1>2, <1>4, <1>5, <1>6, <1>7, MemoryStepKeeps

LEMMA RunConcludesSound ==
    ASSUME OutcomeInv, NEW j \in JobIds,
           RunRefused(j) \/ RunReturns(j) \/ RunRaises(j) \/ RunCancelled(j)
    PROVE  OutcomeInv'
<1> USE StatusSets
<1>1. j \in Active /\ task[j] \in {"marking", "executing", "unwinding"}
  BY DEF RunRefused, RunReturns, RunRaises, RunCancelled, OutcomeInv, IndInv, Supervision
<1>2. IndInv'
  BY RunRefusedKeeps, RunConcludesKeeps DEF OutcomeInv
<1>3. /\ "failed" \in TerminalStatuses /\ "cancelled" \in TerminalStatuses
      /\ Outcomes \subseteq TerminalStatuses
  BY DEF TerminalStatuses
<1>4. ASSUME NEW s \in TerminalStatuses, NEW next \in {"saving_result", "saving_error"},
             Conclude(j, s, next)
      PROVE  OutcomeInv'
  <2>1. /\ status' = [status EXCEPT ![j] = s]
        /\ task' = [task EXCEPT ![j] = next]
        /\ write' = [write EXCEPT ![j]["run"] = s]
        /\ UNCHANGED <<jobs, lastId, persistent, canceller, disk, told, vouched, requested>>
    BY <1>4 DEF Conclude, Persist, fileVars, clientVars
  <2> QED BY <1>1, <1>2, <2>1, OutcomeSetSound
<1>5. CASE RunRefused(j)
  <2>1. /\ status' = [status EXCEPT ![j] = "failed"]
        /\ task' = [task EXCEPT ![j] = "saving_error"]
        /\ write' = [write EXCEPT ![j]["run"] = "failed"]
        /\ persistent' = [persistent EXCEPT ![j] = write[j]["run"] = "saved"]
        /\ UNCHANGED <<jobs, lastId, canceller, disk, told, vouched, requested>>
    BY <1>5 DEF RunRefused, Persist, fileVars, clientVars
  <2>2. \A k \in JobIds \ {j} : persistent'[k] = persistent[k]
    BY <2>1 DEF OutcomeInv, IndInv, TypeOK
  <2> QED BY <1>1, <1>2, <1>3, <2>1, <2>2, OutcomeSetSound
<1> QED BY <1>3, <1>4, <1>5 DEF RunReturns, RunRaises, RunCancelled

\* A pruned job has history_limit younger ones that have ended.
LEMMA PrunedAreOld ==
    ASSUME TypeOK, NEW j \in Prunable(status)
    PROVE  j \in JobIds /\ lastId - j >= HistoryLimit
<1> DEFINE terminal == {k \in jobs : status[k] \in TerminalStatuses}
           id == [k \in JobIds |-> k]
           younger == {k \in terminal : id[k] > id[j]}
<1>1. j \in terminal /\ j \in JobIds /\ terminal \subseteq JobIds
  BY JobsAreIds DEF Prunable
<1>2. ~(Cardinality(younger) < HistoryLimit)
  BY <1>1 DEF Prunable, NewestOf
<1>3. lastId \in Nat /\ j \in Nat /\ j <= lastId /\ HistoryLimit \in Nat
  <2>1. lastId \in 0..MaxJobs /\ j \in 1..lastId
    BY <1>1 DEF TypeOK
  <2> QED BY <2>1, BoundsAssumption
<1>4. younger \subseteq (j + 1)..lastId
  <2> SUFFICES ASSUME NEW k \in younger PROVE k \in (j + 1)..lastId
    OBVIOUS
  <2>1. k \in jobs /\ k > j
    BY <1>1
  <2>2. k \in 1..lastId
    BY <2>1 DEF TypeOK
  <2> QED BY <1>3, <2>1, <2>2
<1> HIDE DEF younger
<1>5. /\ IsFiniteSet((j + 1)..lastId)
      /\ Cardinality((j + 1)..lastId) = IF j + 1 > lastId THEN 0 ELSE lastId - (j + 1) + 1
  BY <1>3, FS_Interval
<1>6. /\ Cardinality(younger) <= Cardinality((j + 1)..lastId)
      /\ Cardinality(younger) \in Nat
  BY <1>4, <1>5, FS_Subset, FS_CardinalityType
<1> QED BY <1>1, <1>2, <1>3, <1>5, <1>6

LEMMA RunFinishesSound ==
    ASSUME OutcomeInv, NEW j \in JobIds, RunFinishes(j)
    PROVE  OutcomeInv'
<1> USE StatusSets
<1> DEFINE gone == IF task[j] = "saving_result" THEN Prunable(status) ELSE {}
<1>1. task[j] \in {"saving_result", "saving_error"} /\ status[j] \in TerminalStatuses
  BY DEF RunFinishes, OutcomeInv, OutcomeSound
<1>2. /\ jobs' = jobs \ gone /\ \E removed \in SUBSET gone : Unlink(removed)
      /\ UNCHANGED <<lastId, status, canceller, told, vouched, requested>>
      /\ task' = [task EXCEPT ![j] = "done"]
      /\ write' = [write EXCEPT ![j]["run"] = "idle"]
      /\ persistent' = [persistent EXCEPT ![j] = write[j]["run"] = "saved"]
  BY DEF RunFinishes, Resume, clientVars
<1>3. \A k \in gone : k \in JobIds /\ lastId - k >= HistoryLimit
  BY PrunedAreOld DEF OutcomeInv, IndInv
<1> HIDE DEF gone
<1>4. /\ task'[j] = "done" /\ write'[j]["run"] = "idle"
      /\ persistent'[j] = (write[j]["run"] = "saved")
      /\ \A k \in JobIds \ {j} : /\ task'[k] = task[k] /\ write'[k] = write[k]
                                 /\ persistent'[k] = persistent[k]
      /\ \A w \in Writers \ {"run"} : write'[j][w] = write[j][w]
  BY <1>2 DEF OutcomeInv, IndInv, TypeOK
<1>5. \A k \in JobIds : \/ disk'[k] = disk[k]
                        \/ disk'[k] = "absent" /\ k \notin jobs' /\ lastId - k >= HistoryLimit
  BY <1>2, <1>3 DEF Unlink
<1>6. \A k \in JobIds \ {j} : Untouched(k)
  BY <1>2, <1>4, <1>5 DEF Untouched
<1>7. IndInv'
  BY RunFinishesKeeps DEF OutcomeInv
<1>8. OutcomeSound(j)'
  BY <1>2, <1>4, <1>5 DEF OutcomeInv, OutcomeSound
<1>9. ASSUME j \notin requested' PROVE Undisturbed(j)'
  <2>1. Undisturbed(j)
    BY <1>2, <1>9 DEF OutcomeInv
  <2>2. j \in jobs' => j \in jobs /\ disk'[j] = disk[j]
    BY <1>2, <1>5
  <2> QED BY <1>1, <1>2, <1>4, <2>1, <2>2 DEF Undisturbed
<1>10. j \notin vouched' \ requested'
  BY <1>1, <1>2 DEF OutcomeInv, VouchedSound
<1>11. \A c \in Cancellers : CancellerSound(c)'
  BY <1>2, CancellersKeep
<1> QED BY <1>6, <1>7, <1>8, <1>9, <1>10, <1>11, Assemble

LEMMA WriteEndsSound ==
    ASSUME OutcomeInv, NEW j \in JobIds, NEW w \in Writers, WriteEnds(j, w)
    PROVE  OutcomeInv'
<1> USE StatusSets
<1>1. write[j][w] \in Statuses
  BY DEF WriteEnds
<1>2. UNCHANGED <<jobs, lastId, status, persistent, task, canceller, told, vouched, requested>>
  BY DEF WriteEnds, loopVars, clientVars
<1>3. PICK replaced \in BOOLEAN, ok \in BOOLEAN :
         /\ ok => replaced
         /\ write' = [write EXCEPT ![j][w] =
                        IF Deserted(j, w) THEN "idle"
                        ELSE IF ok THEN "saved" ELSE "unsaved"]
         /\ IF replaced THEN Replace(j, write[j][w]) ELSE UNCHANGED fileVars
  BY DEF WriteEnds
<1>4. /\ \A k \in JobIds \ {j} : write'[k] = write[k]
      /\ \A v \in Writers \ {w} : write'[j][v] = write[j][v]
      /\ write'[j][w] \in {"idle", "saved", "unsaved"}
      /\ write'[j][w] = "saved" => replaced
  BY <1>3 DEF OutcomeInv, IndInv, TypeOK
<1>5. /\ \A k \in JobIds \ {j} : disk'[k] = disk[k]
      /\ disk'[j] = IF replaced THEN write[j][w] ELSE disk[j]
  BY <1>3 DEF Replace, fileVars, OutcomeInv, IndInv, TypeOK
<1>6. \A k \in JobIds \ {j} : Untouched(k)
  BY <1>2, <1>4, <1>5 DEF Untouched
<1>7. IndInv'
  BY WriteEndsKeeps DEF OutcomeInv
<1>8. OutcomeSound(j)'
  <2>1. OutcomeSound(j)
    BY DEF OutcomeInv
  <2>2. disk'[j] \in TerminalStatuses => \/ disk'[j] = disk[j]
                                         \/ status[j] = disk'[j]
    BY <1>5, <2>1 DEF OutcomeSound
  <2>3. "none" \notin TerminalStatuses
    OBVIOUS
  <2> QED BY <1>2, <1>4, <2>1, <2>2, <2>3 DEF OutcomeSound
<1>9. ASSUME j \notin requested' PROVE Undisturbed(j)'
  <2>1. Undisturbed(j) /\ OutcomeSound(j)
    BY <1>2, <1>9 DEF OutcomeInv
  <2>2. status[j] \in TerminalStatuses => disk'[j] \in {disk[j], status[j]}
    BY <1>1, <1>5, <2>1 DEF Undisturbed, OutcomeSound, Statuses
  <2>3. /\ task[j] \in {"saving_result", "saving_error"} /\ write'[j]["run"] = "saved"
        /\ j \in jobs
        => disk'[j] = status[j]
    <3> SUFFICES ASSUME task[j] \in {"saving_result", "saving_error"},
                        write'[j]["run"] = "saved", j \in jobs
                 PROVE  disk'[j] = status[j]
      OBVIOUS
    <3>1. status[j] \in TerminalStatuses
      BY <2>1 DEF OutcomeSound
    <3>2. CASE w = "run"
      <4>1. disk'[j] = write[j][w]
        BY <1>4, <1>5, <3>2
      <4> QED BY <1>1, <2>1, <3>1, <4>1 DEF Undisturbed, OutcomeSound, Statuses
    <3>3. CASE w # "run"
      <4>1. disk[j] = status[j]
        BY <1>4, <2>1, <3>3 DEF Undisturbed
      <4> QED BY <2>2, <3>1, <4>1
    <3> QED BY <3>2, <3>3
  <2> QED BY <1>1, <1>2, <1>4, <2>1, <2>2, <2>3 DEF Undisturbed
<1>10. j \notin vouched' \ requested'
  BY <1>1, <1>2 DEF OutcomeInv, VouchedSound
<1>11. \A c \in Cancellers : CancellerSound(c)'
  BY <1>2, CancellersKeep
<1> QED BY <1>6, <1>7, <1>8, <1>9, <1>10, <1>11, Assemble

LEMMA CancelRequestSound ==
    ASSUME OutcomeInv, NEW c \in Cancellers, NEW j \in JobIds, CancelRequest(c, j)
    PROVE  OutcomeInv'
<1> USE StatusSets
<1>1. j \in Active
  BY DEF CancelRequest, Cancellable
<1>2. /\ UNCHANGED <<jobs, lastId, persistent, task, disk, told, vouched>>
      /\ status' = [status EXCEPT ![j] = "cancelling"]
      /\ write' = [write EXCEPT ![j][c] = "cancelling"]
      /\ canceller' = [canceller EXCEPT ![c] = [pc |-> "saving", job |-> j]]
      /\ requested' = requested \cup {j}
  BY DEF CancelRequest, Persist, fileVars
<1>3. /\ status'[j] = "cancelling" /\ write'[j][c] = "cancelling"
      /\ \A k \in JobIds \ {j} : write'[k] = write[k] /\ status'[k] = status[k]
      /\ \A w \in Writers \ {c} : write'[j][w] = write[j][w]
      /\ canceller'[c] = [pc |-> "saving", job |-> j]
      /\ \A d \in Cancellers \ {c} : canceller'[d] = canceller[d]
  BY <1>2 DEF OutcomeInv, IndInv, TypeOK
<1>4. MemoryStep(j)
  BY <1>2, <1>3 DEF MemoryStep
<1>5. IndInv'
  BY CancelRequestKeeps DEF OutcomeInv
<1>6. "cancelling" \in ActiveStatuses /\ "cancelling" \notin TerminalStatuses
  BY DEF ActiveStatuses
<1>7. OutcomeSound(j)'
  BY <1>1, <1>2, <1>3, <1>6, ActiveFacts DEF OutcomeSound
<1>8. ASSUME NEW d \in Cancellers PROVE CancellerSound(d)'
  <2>1. CASE d = c
    BY <1>2, <1>3, <2>1 DEF CancellerSound
  <2>2. CASE d # c
    <3>1. ASSUME canceller[d].pc \in {"saving", "gathering"}
          PROVE  canceller[d].job \in requested' /\ status'[canceller[d].job] # "none"
      <4>1. canceller[d].job \in requested /\ status[canceller[d].job] # "none"
        BY <3>1 DEF OutcomeInv, CancellerSound
      <4>2. canceller[d].job \in JobIds
        BY <4>1 DEF OutcomeInv, IndInv, TypeOK
      <4> QED BY <1>2, <1>3, <4>1, <4>2
    <3> QED BY <1>3, <2>2, <3>1 DEF CancellerSound
  <2> QED BY <2>1, <2>2
<1>9. \A k \in JobIds \ {j} : Untouched(k)
  BY <1>4, MemoryStepLeavesOthers
<1>10. j \in requested'
  BY <1>2
<1> QED BY <1>5, <1>7, <1>8, <1>9, <1>10, Assemble

\* task.cancel() finishes no write and starts none.
LEMMA CancelTaskWrites ==
    ASSUME TypeOK, NEW j \in JobIds, NEW dropped, CancelTask(j, dropped)
    PROVE  \A w \in Writers : write'[j][w] \in {write[j][w], "idle"}
<1> DEFINE awaited == task[j] \in {"marking", "saving_result", "saving_error"}
           lost == dropped \cup (IF awaited THEN {"run"} ELSE {})
           row == [w \in Writers |-> IF w \in lost /\ Ended(j, w)
                                     THEN "idle" ELSE write[j][w]]
<1>1. \A w \in Writers : row[w] \in {write[j][w], "idle"}
  OBVIOUS
<1>2. write' = [write EXCEPT ![j] = row]
  BY DEF CancelTask
<1> HIDE DEF row
<1> QED BY <1>1, <1>2 DEF TypeOK

LEMMA CancelStepSound ==
    ASSUME OutcomeInv, NEW c \in Cancellers, CancelDeliver(c) \/ CancelAbandoned(c)
    PROVE  OutcomeInv'
<1> USE StatusSets
<1>1. PICK j \in JobIds : j = canceller[c].job /\ j \in requested /\ status[j] # "none"
  BY DEF CancelDeliver, CancelAbandoned, OutcomeInv, CancellerSound, IndInv, TypeOK
<1>2. UNCHANGED <<jobs, lastId, status, disk, told, vouched, requested>>
  BY DEF CancelDeliver, CancelAbandoned, fileVars, clientVars
<1>3. /\ \A k \in JobIds \ {j} : task'[k] = task[k] /\ write'[k] = write[k]
      /\ \A w \in Writers : write'[j][w] \in {write[j][w], "idle"}
      /\ task'[j] \in {"saving_result", "saving_error"} => task'[j] = task[j]
  <2>1. ASSUME NEW dropped, "start" \notin dropped, CancelTask(j, dropped)
        PROVE  <1>3!1 /\ <1>3!2 /\ <1>3!3
    <3>1. TypeOK
      BY DEF OutcomeInv, IndInv
    <3> QED BY <2>1, <3>1, CancelTaskFacts, CancelTaskWrites
  <2>2. CASE UNCHANGED task /\ write' = [write EXCEPT ![j][c] = IF Ended(j, c) THEN "idle" ELSE @]
    BY <1>1, <2>2 DEF OutcomeInv, IndInv, TypeOK
  <2>3. "start" \notin {c} /\ "start" \notin {}
    OBVIOUS
  <2> QED BY <1>1, <2>1, <2>2, <2>3 DEF CancelDeliver, CancelAbandoned
<1>4. \A k \in JobIds \ {j} : persistent'[k] = persistent[k]
  BY <1>1 DEF CancelDeliver, CancelAbandoned, OutcomeInv, IndInv, TypeOK
<1>5. MemoryStep(j)
  BY <1>2, <1>3, <1>4 DEF MemoryStep
<1>6. \A k \in JobIds \ {j} : Untouched(k)
  BY <1>1, <1>5, MemoryStepLeavesOthers
<1>7. IndInv'
  BY CancelStepKeeps DEF OutcomeInv
<1>8. OutcomeSound(j)'
  <2>1. OutcomeSound(j)
    BY <1>1 DEF OutcomeInv
  <2> QED BY <1>2, <1>3, <2>1 DEF OutcomeSound
<1>9. ASSUME NEW d \in Cancellers PROVE CancellerSound(d)'
  <2>1. CASE d # c
    <3>1. canceller'[d] = canceller[d]
      BY <2>1 DEF CancelDeliver, CancelAbandoned, OutcomeInv, IndInv, TypeOK
    <3> QED BY <1>2, <3>1 DEF OutcomeInv, CancellerSound
  <2>2. CASE d = c
    <3>1. canceller'[c].pc = "gone" \/ canceller'[c].job = j
      BY <1>1 DEF CancelDeliver, CancelAbandoned, OutcomeInv, IndInv, TypeOK
    <3> QED BY <1>1, <1>2, <2>2, <3>1 DEF CancellerSound
  <2> QED BY <2>1, <2>2
<1> QED BY <1>1, <1>2, <1>6, <1>7, <1>8, <1>9, Assemble

\* Telling a client the status of a job with a record.
LEMMA ToldSound ==
    ASSUME OutcomeInv, NEW j \in JobIds, status[j] \in Statuses, j <= lastId,
           Tell(j, status[j]) \/ UNCHANGED told,
           UNCHANGED <<jobs, lastId, status, task, write, disk, persistent, requested>>,
           j \in jobs \/ j \in requested,
           vouched' \subseteq vouched \cup {j}
    PROVE  /\ \A k \in JobIds \ {j} : Untouched(k)
           /\ OutcomeSound(j)'
           /\ j \notin requested' => Undisturbed(j)'
           /\ j \in vouched \ requested => VouchedSound(j)'
           /\ status[j] \in TerminalStatuses /\ Tell(j, status[j]) => told'[j] = status[j]
<1> USE StatusSets
<1>1. /\ told'[j] \in {told[j], status[j]}
      /\ told'[j] # told[j] => told'[j] = status[j] /\ status[j] \in TerminalStatuses
      /\ status[j] \in TerminalStatuses /\ Tell(j, status[j]) => told'[j] = status[j]
      /\ \A k \in JobIds \ {j} : told'[k] = told[k]
  BY DEF Tell, OutcomeInv, IndInv, TypeOK
<1>2. \A k \in JobIds \ {j} : Untouched(k)
  BY <1>1 DEF Untouched
<1>3. OutcomeSound(j)'
  <2>1. OutcomeSound(j)
    BY DEF OutcomeInv
  <2> QED BY <1>1, <2>1 DEF OutcomeSound
<1>4. j \notin requested' => Undisturbed(j)'
  BY DEF OutcomeInv, Undisturbed
<1>5. ASSUME j \in vouched \ requested PROVE VouchedSound(j)'
  <2>1. VouchedSound(j) /\ OutcomeSound(j)
    BY <1>5 DEF OutcomeInv
  <2>2. told'[j] = told[j]
    BY <1>1, <1>5, <2>1 DEF VouchedSound
  <2> QED BY <2>1, <2>2 DEF VouchedSound, Durable
<1> QED BY <1>1, <1>2, <1>3, <1>4, <1>5

LEMMA TellingSound ==
    ASSUME OutcomeInv, NEW j \in JobIds, NEW c \in Cancellers,
           CancelRefused(c, j) \/ CancelReply(c)
    PROVE  OutcomeInv'
<1>1. IndInv'
  BY TellingKeeps DEF OutcomeInv
<1>2. CASE CancelRefused(c, j)
  <2>1. /\ j \in jobs /\ Tell(j, status[j])
        /\ UNCHANGED <<jobs, lastId, status, task, write, disk, persistent, canceller,
                       vouched, requested>>
    BY <1>2 DEF CancelRefused, loopVars, fileVars
  <2>2. status[j] \in Statuses /\ j <= lastId
    BY <2>1 DEF OutcomeInv, IndInv, Admitted, TypeOK
  <2>3. \A d \in Cancellers : CancellerSound(d)'
    BY <2>1, CancellersKeep
  <2> QED BY <1>1, <2>1, <2>2, <2>3, ToldSound, Assemble
<1>3. CASE CancelReply(c)
  <2>1. PICK i \in JobIds :
           i = canceller[c].job /\ i \in requested /\ status[i] # "none" /\ i <= lastId
    BY <1>3 DEF CancelReply, OutcomeInv, CancellerSound, IndInv, Admitted, TypeOK
  <2>2. /\ Tell(i, status[i])
        /\ UNCHANGED <<jobs, lastId, status, task, write, disk, persistent, vouched, requested>>
        /\ canceller' = [canceller EXCEPT ![c] = [pc |-> "idle", job |-> 0]]
    BY <1>3, <2>1 DEF CancelReply, loopVars, fileVars
  <2>3. status[i] \in Statuses
    BY <2>1 DEF OutcomeInv, IndInv, TypeOK
  <2>4. ASSUME NEW d \in Cancellers PROVE CancellerSound(d)'
    <3>1. canceller'[d].pc = "idle" \/ canceller'[d] = canceller[d]
      BY <2>2 DEF OutcomeInv, IndInv, TypeOK
    <3> QED BY <2>2, <3>1 DEF OutcomeInv, CancellerSound
  <2> QED BY <1>1, <2>1, <2>2, <2>3, <2>4, ToldSound, Assemble
<1> QED BY <1>2, <1>3

\* A report vouches only for what is on disk.
LEMMA ReportSound ==
    ASSUME OutcomeInv, NEW j \in JobIds, Report(j)
    PROVE  OutcomeInv'
<1> USE StatusSets
<1>1. /\ j \in jobs /\ Tell(j, VisibleStatus(j))
      /\ UNCHANGED <<jobs, lastId, status, task, write, disk, persistent, canceller, requested>>
      /\ vouched' = IF VisibleStatus(j) \in TerminalStatuses /\ persistent[j]
                    THEN vouched \cup {j} ELSE vouched \ {j}
  BY DEF Report, loopVars, fileVars
<1>2. status[j] \in Statuses /\ j <= lastId
  BY <1>1 DEF OutcomeInv, IndInv, Admitted, TypeOK
<1>3. "running" \notin TerminalStatuses
  BY DEF ActiveStatuses
<1>4. VisibleStatus(j) \in TerminalStatuses =>
         VisibleStatus(j) = status[j] /\ task[j] \in {"none", "never", "done"}
  BY <1>3 DEF VisibleStatus
<1>5. Tell(j, status[j]) \/ UNCHANGED told
  BY <1>1, <1>4 DEF Tell
<1>6. /\ \A k \in JobIds \ {j} : Untouched(k)
      /\ OutcomeSound(j)'
      /\ j \notin requested' => Undisturbed(j)'
      /\ status[j] \in TerminalStatuses /\ Tell(j, status[j]) => told'[j] = status[j]
  BY <1>1, <1>2, <1>5, ToldSound
<1>7. ASSUME j \in vouched' \ requested' PROVE VouchedSound(j)'
  <2>1. /\ VisibleStatus(j) = status[j] /\ status[j] \in TerminalStatuses
        /\ persistent[j] /\ task[j] \in {"none", "never", "done"}
    BY <1>1, <1>4, <1>7
  <2>2. Undisturbed(j) /\ OutcomeSound(j)
    BY <1>1, <1>7 DEF OutcomeInv
  <2>3. disk[j] = status[j] /\ told'[j] = status[j]
    BY <1>1, <1>6, <2>1, <2>2 DEF Undisturbed
  <2>4. j \notin Active
    BY <2>1 DEF Active
  <2>5. write[j]["start"] = "idle"
    BY <2>4 DEF OutcomeInv, IndInv, Supervision
  <2>6. \A w \in Writers : write[j][w] = "idle"
    BY <2>1, <2>2, <2>5 DEF Undisturbed, Writers
  <2> QED BY <1>1, <1>2, <2>1, <2>3, <2>6 DEF VouchedSound, Durable
<1>8. \A d \in Cancellers : CancellerSound(d)'
  BY <1>1, CancellersKeep
<1>9. IndInv'
  BY ReportKeeps DEF OutcomeInv
<1> QED BY <1>6, <1>7, <1>8, <1>9, Assemble

LEMMA StartJobSound ==
    ASSUME OutcomeInv, StartJob
    PROVE  OutcomeInv'
<1> USE StatusSets
<1> DEFINE gone == Prunable(status)
<1>1. PICK j \in JobIds : j = lastId + 1 /\ j > lastId /\ ~(j <= lastId) /\ lastId \in Nat
  <2>1. lastId \in 0..MaxJobs /\ lastId + 1 <= MaxJobs
    BY DEF StartJob, OutcomeInv, IndInv, TypeOK
  <2> QED BY <2>1, BoundsAssumption DEF JobIds
<1>2. /\ jobs' = (jobs \ gone) \cup {j} /\ \E removed \in SUBSET gone : Unlink(removed)
      /\ lastId' = j
      /\ status' = [status EXCEPT ![j] = "starting"]
      /\ write' = [write EXCEPT ![j]["start"] = "starting"]
      /\ UNCHANGED <<persistent, task, canceller, told, vouched, requested>>
  BY <1>1 DEF StartJob, Persist, clientVars
<1>3. /\ \A k \in gone : k \in JobIds /\ lastId - k >= HistoryLimit
      /\ gone \subseteq jobs
  BY PrunedAreOld, PrunableFacts DEF OutcomeInv, IndInv
<1>4. task[j] = "none" /\ disk[j] = "absent" /\ \A w \in Writers : write[j][w] = "idle"
  BY <1>1 DEF OutcomeInv, IndInv, Admitted
<1>5. told[j] = "none" /\ j \notin vouched \ requested
  BY <1>1 DEF OutcomeInv, OutcomeSound, VouchedSound
<1> HIDE DEF gone
<1>6. /\ status'[j] = "starting" /\ write'[j]["start"] = "starting"
      /\ \A k \in JobIds \ {j} : status'[k] = status[k] /\ write'[k] = write[k]
      /\ \A w \in Writers \ {"start"} : write'[j][w] = "idle"
  BY <1>2, <1>4 DEF OutcomeInv, IndInv, TypeOK
<1>7. "starting" \in ActiveStatuses /\ "starting" \notin TerminalStatuses
  BY DEF ActiveStatuses
<1>8. \A k \in JobIds \ {j} :
         \/ disk'[k] = disk[k]
         \/ disk'[k] = "absent" /\ k \notin jobs' /\ lastId - k >= HistoryLimit
  BY <1>2, <1>3 DEF Unlink
<1>9. \A k \in JobIds \ {j} : Untouched(k)
  BY <1>1, <1>2, <1>6, <1>8 DEF Untouched
<1>10. IndInv'
  BY StartJobKeeps DEF OutcomeInv
<1>11. disk'[j] = "absent"
  BY <1>2, <1>4 DEF Unlink
<1>12. OutcomeSound(j)'
  BY <1>2, <1>4, <1>5, <1>6, <1>7, <1>11 DEF OutcomeSound
<1>13. Undisturbed(j)'
  BY <1>2, <1>4, <1>6, <1>7 DEF Undisturbed
<1>14. j \notin vouched' \ requested'
  BY <1>2, <1>5
<1>15. \A c \in Cancellers : CancellerSound(c)'
  <2>1. \A k \in JobIds : status[k] # "none" => status'[k] # "none"
    BY <1>6
  <2> QED BY <1>2, <2>1, CancellersKeep
<1> QED BY <1>9, <1>10, <1>12, <1>13, <1>14, <1>15, Assemble

\* What a restart makes of a job: it loads files only, and says "interrupted" of
\* those that were active, whether or not it manages to rewrite them.
RestartOf(k) ==
    /\ k \in jobs' => disk[k] # "absent"
    /\ status'[k] = IF k \notin jobs' THEN "none"
                    ELSE IF disk[k] \in ActiveStatuses THEN "interrupted"
                    ELSE disk[k]
    /\ \/ disk'[k] = disk[k]
       \/ k \in jobs' /\ disk[k] \in ActiveStatuses /\ disk'[k] = "interrupted"
    /\ k \in jobs' /\ persistent'[k] =>
          (disk[k] \in ActiveStatuses => disk'[k] = "interrupted")
    /\ task'[k] = "none" /\ \A w \in Writers : write'[k][w] = "idle"

LEMMA RestartFacts ==
    ASSUME Restart
    PROVE  /\ \A k \in JobIds : RestartOf(k)
           /\ \A c \in Cancellers : canceller'[c].pc = "idle"
           /\ UNCHANGED <<lastId, told, vouched, requested>>
<1>1. PICK readable \in SUBSET JobIds :
         \E rewritten \in SUBSET Lost(Loaded(readable)) :
            \E secured \in SUBSET rewritten :
               Recover(Loaded(readable), rewritten, secured)
  BY DEF Restart
<1> DEFINE loaded == Loaded(readable)
<1>2. PICK rewritten \in SUBSET Lost(loaded) :
         \E secured \in SUBSET rewritten : Recover(loaded, rewritten, secured)
  BY <1>1
<1>3. PICK secured \in SUBSET rewritten : Recover(loaded, rewritten, secured)
  BY <1>2
<1>4. loaded \subseteq Files
  BY DEF Loaded, NewestOf
<1> HIDE DEF loaded
<1>5. /\ task' = [j \in JobIds |-> "none"]
      /\ write' = [j \in JobIds |-> [w \in Writers |-> "idle"]]
      /\ canceller' = [c \in Cancellers |-> [pc |-> "idle", job |-> 0]]
      /\ UNCHANGED <<lastId, told, vouched, requested>>
  BY DEF Restart
<1>6. ASSUME NEW k \in JobIds PROVE RestartOf(k)
  <2>1. /\ jobs' = loaded
        /\ status'[k] = IF k \in loaded THEN RecoveredStatus(k) ELSE "none"
        /\ persistent'[k] = (k \in loaded \ (Lost(loaded) \ secured))
        /\ disk'[k] = IF k \in rewritten THEN "interrupted" ELSE disk[k]
    BY <1>3 DEF Recover
  <2>2. RecoveredStatus(k) = IF disk[k] \in ActiveStatuses THEN "interrupted" ELSE disk[k]
    BY DEF RecoveredStatus, Lost
  <2>3. k \in loaded => disk[k] # "absent"
    BY <1>4 DEF Files
  <2>4. k \in Lost(loaded) <=> k \in loaded /\ disk[k] \in ActiveStatuses
    BY DEF Lost
  <2> QED BY <1>5, <2>1, <2>2, <2>3, <2>4 DEF RestartOf
<1> QED BY <1>5, <1>6

LEMMA RestartSound ==
    ASSUME OutcomeInv, Restart
    PROVE  OutcomeInv'
<1> USE StatusSets
<1>1. /\ \A c \in Cancellers : CancellerSound(c)'
      /\ UNCHANGED <<lastId, told, vouched, requested>>
  BY RestartFacts DEF CancellerSound
<1>2. IndInv'
  BY RestartKeeps DEF OutcomeInv
<1>3. ASSUME NEW k \in JobIds
      PROVE  /\ OutcomeSound(k)'
             /\ Undisturbed(k)'
             /\ k \in vouched \ requested => VouchedSound(k)'
  <2>1. RestartOf(k) /\ OutcomeSound(k)
    BY RestartFacts DEF OutcomeInv
  <2>2. disk[k] \in ActiveStatuses \cup TerminalStatuses \cup {"absent"}
    BY DEF OutcomeInv, IndInv, TypeOK, Statuses
  <2>3. OutcomeSound(k)'
    BY <1>1, <2>1, <2>2 DEF RestartOf, OutcomeSound
  <2>4. Undisturbed(k)'
    BY <2>1, <2>2 DEF RestartOf, Undisturbed
  <2>5. ASSUME k \in vouched \ requested PROVE VouchedSound(k)'
    <3>1. VouchedSound(k)
      BY <2>5 DEF OutcomeInv
    <3>2. disk'[k] = disk[k] /\ (k \in jobs' => status'[k] = disk[k] /\ disk[k] = told[k])
      BY <2>1, <3>1 DEF RestartOf, VouchedSound, Durable
    <3> QED BY <1>1, <2>1, <3>1, <3>2 DEF RestartOf, VouchedSound, Durable
  <2> QED BY <2>3, <2>4, <2>5
<1>4. vouched \subseteq JobIds
  BY DEF OutcomeInv, IndInv, TypeOK
<1> QED BY <1>1, <1>2, <1>3, <1>4 DEF OutcomeInv

LEMMA StutterSound ==
    ASSUME OutcomeInv, UNCHANGED vars
    PROVE  OutcomeInv'
<1>1. IndInv'
  BY StutterKeeps DEF OutcomeInv
<1>2. \A k \in JobIds : Untouched(k)
  BY DEF vars, Untouched
<1>3. \A c \in Cancellers : CancellerSound(c)'
  BY CancellersKeep DEF vars
<1>4. PICK j : j \in JobIds
  <2>1. 1 \in JobIds
    BY BoundsAssumption DEF JobIds
  <2> QED BY <2>1
<1> QED BY <1>1, <1>2, <1>3, <1>4, UntouchedKeeps, Assemble

\* Every step keeps what is on disk, in flight, in memory and told consistent.
LEMMA NextSound == OutcomeInv /\ [Next]_vars => OutcomeInv'
<1> SUFFICES ASSUME OutcomeInv, [Next]_vars PROVE OutcomeInv'
  OBVIOUS
<1>1. CASE StartJob
  BY <1>1, StartJobSound
<1>2. ASSUME NEW j \in JobIds,
             \/ StartAbandoned(j) \/ CreateTask(j)
             \/ RunBegins(j) \/ RunMarked(j) \/ RunRefused(j)
             \/ RunReturns(j) \/ RunRaises(j) \/ RunCancelled(j)
             \/ RunFinishes(j) \/ Report(j)
      PROVE  OutcomeInv'
  BY <1>2, StartAbandonedSound, CreateTaskSound, RunBeginsSound, RunMarkedSound,
     RunConcludesSound, RunFinishesSound, ReportSound
<1>3. ASSUME NEW j \in JobIds, NEW w \in Writers, WriteEnds(j, w)
      PROVE  OutcomeInv'
  BY <1>3, WriteEndsSound
<1>4. ASSUME NEW j \in JobIds, NEW c \in Cancellers,
             CancelRefused(c, j) \/ CancelRequest(c, j)
      PROVE  OutcomeInv'
  BY <1>4, TellingSound, CancelRequestSound
<1>5. ASSUME NEW c \in Cancellers,
             CancelDeliver(c) \/ CancelReply(c) \/ CancelAbandoned(c)
      PROVE  OutcomeInv'
  <2>1. 1 \in JobIds
    BY BoundsAssumption DEF JobIds
  <2> QED BY <1>5, <2>1, CancelStepSound, TellingSound
<1>6. CASE Restart
  BY <1>6, RestartSound
<1>7. CASE UNCHANGED vars
  BY <1>7, StutterSound
<1> QED BY <1>1, <1>2, <1>3, <1>4, <1>5, <1>6, <1>7 DEF Next

LEMMA InitSound == Init => OutcomeInv
<1> SUFFICES ASSUME Init PROVE OutcomeInv
  OBVIOUS
<1>1. IndInv
  BY InitEstablishes
<1>2. \A j \in JobIds : OutcomeSound(j) /\ Undisturbed(j)
  BY StatusSets DEF Init, OutcomeSound, Undisturbed
<1>3. vouched = {} /\ \A c \in Cancellers : CancellerSound(c)
  BY DEF Init, CancellerSound
<1> QED BY <1>1, <1>2, <1>3 DEF OutcomeInv

LEMMA OutcomeInductive == Spec => []OutcomeInv
  BY InitSound, NextSound, PTL DEF Spec

\* A terminal status in a state file is the job's own outcome, in whatever order
\* the writes of the supervising task, of start_job and of the cancellations end.
THEOREM DiskOutcomeTrue == Spec => []DiskOutcomeIsTrue
<1>1. OutcomeInv => DiskOutcomeIsTrue
  <2> SUFFICES ASSUME OutcomeInv, NEW j \in jobs, disk[j] \in TerminalStatuses
               PROVE  status[j] = disk[j]
    BY DEF DiskOutcomeIsTrue
  <2>1. j \in JobIds /\ status[j] \in Statuses
    BY JobsAreIds DEF OutcomeInv, IndInv, Admitted
  <2> QED BY <2>1, StatusSets DEF OutcomeInv, OutcomeSound
<1> QED BY <1>1, OutcomeInductive, PTL

\* An outcome reported as persistent, of a job that nobody tried to cancel, is in
\* its state file until at least history_limit newer jobs have been admitted.
THEOREM UndisturbedDurable == Spec => []UndisturbedIsDurable
<1>1. OutcomeInv => UndisturbedIsDurable
  BY DEF OutcomeInv, VouchedSound, UndisturbedIsDurable
<1> QED BY <1>1, OutcomeInductive, PTL

\* What a step does to a state file: nothing, an unlink, the end of a write of its
\* job, or a restart.
LEMMA DiskSteps ==
    ASSUME OutcomeInv, [Next]_vars, NEW k \in JobIds
    PROVE  \/ disk'[k] \in {disk[k], "absent"}
           \/ \E w \in Writers : write[k][w] \in Statuses /\ disk'[k] = write[k][w]
           \/ RestartOf(k)
<1> DEFINE Goal == \/ disk'[k] \in {disk[k], "absent"}
                   \/ \E w \in Writers : write[k][w] \in Statuses /\ disk'[k] = write[k][w]
                   \/ RestartOf(k)
<1>1. CASE StartJob
  BY <1>1 DEF StartJob, Unlink
<1>2. ASSUME NEW j \in JobIds,
             \/ StartAbandoned(j) \/ CreateTask(j)
             \/ RunBegins(j) \/ RunMarked(j) \/ RunRefused(j)
             \/ RunReturns(j) \/ RunRaises(j) \/ RunCancelled(j) \/ Report(j)
      PROVE  Goal
  BY <1>2 DEF StartAbandoned, CreateTask, RunBegins, RunMarked, RunRefused, RunReturns,
     RunRaises, RunCancelled, Report, Conclude, fileVars
<1>3. ASSUME NEW j \in JobIds, RunFinishes(j)
      PROVE  Goal
  BY <1>3 DEF RunFinishes, Unlink
<1>4. ASSUME NEW j \in JobIds, NEW w \in Writers, WriteEnds(j, w)
      PROVE  Goal
  BY <1>4 DEF WriteEnds, Replace, fileVars, OutcomeInv, IndInv, TypeOK
<1>5. ASSUME NEW j \in JobIds, NEW c \in Cancellers,
             \/ CancelRefused(c, j) \/ CancelRequest(c, j)
             \/ CancelDeliver(c) \/ CancelReply(c) \/ CancelAbandoned(c)
      PROVE  Goal
  BY <1>5 DEF CancelRefused, CancelRequest, CancelDeliver, CancelReply, CancelAbandoned,
     fileVars
<1>6. CASE Restart
  BY <1>6, RestartFacts
<1>7. CASE UNCHANGED vars
  BY <1>7 DEF vars
<1> QED BY <1>1, <1>2, <1>3, <1>4, <1>5, <1>6, <1>7 DEF Next

\* An outcome on disk is there to stay, whatever writes are still in flight, for
\* a job that nobody tried to cancel: no late write, and no restart, replaces it.
THEOREM DiskOutcomeFinal == Spec => DiskOutcomeIsFinal
<1> USE StatusSets
<1>1. ASSUME OutcomeInv, [Next]_vars, NEW j \in JobIds \ requested,
             disk[j] \in TerminalStatuses
      PROVE  disk'[j] \in {disk[j], "absent"}
  <2>1. OutcomeSound(j) /\ Undisturbed(j)
    BY <1>1 DEF OutcomeInv
  <2>2. "none" \notin ActiveStatuses
    BY DEF ActiveStatuses
  <2>3. ASSUME NEW w \in Writers, write[j][w] \in Statuses
        PROVE  write[j][w] = disk[j]
    <3>1. status[j] \notin ActiveStatuses
      BY <1>1, <2>1, <2>2 DEF OutcomeSound
    <3>2. write[j][w] \in TerminalStatuses
      BY <2>1, <2>3, <3>1 DEF Undisturbed, Statuses
    <3> QED BY <1>1, <2>1, <3>2 DEF OutcomeSound
  <2>4. RestartOf(j) => disk'[j] = disk[j]
    BY <1>1 DEF RestartOf
  <2> QED BY <1>1, <2>3, <2>4, DiskSteps
<1>2. OutcomeInv /\ [Next]_vars =>
         [\A j \in JobIds \ requested :
             disk[j] \in TerminalStatuses => disk'[j] \in {disk[j], "absent"}]_vars
  BY <1>1
<1> QED BY <1>2, OutcomeInductive, PTL DEF Spec, DiskOutcomeIsFinal

-----------------------------------------------------------------------------
(* The refinement of JobLifecycle: what its clients see of each step.      *)

\* A record with an active, and one with a terminal status, as clients see them.
LEMMA ViewFacts ==
    ASSUME OutcomeInv, NEW j \in JobIds
    PROVE  /\ View(j) = "new" <=> j > lastId
           /\ j <= lastId <=> ~(j > lastId)
           /\ j <= lastId /\ status[j] \in ActiveStatuses => View(j) = "active"
           /\ j <= lastId /\ status[j] \in TerminalStatuses => View(j) = status[j]
           /\ j <= lastId /\ status[j] = "none" => View(j) = "unknown"
           /\ j \in jobs => j <= lastId /\ status[j] \in Statuses
<1> USE StatusSets
<1>1. /\ lastId \in Nat /\ j \in Nat
      /\ status[j] \in Statuses \cup {"none"}
      /\ j \in jobs => j <= lastId /\ status[j] \in Statuses
  <2>1. lastId \in 0..MaxJobs
    BY DEF OutcomeInv, IndInv, TypeOK
  <2> QED BY <2>1, BoundsAssumption, JobIdsFinite DEF OutcomeInv, IndInv, TypeOK, Admitted
<1>2. "new" \notin Statuses /\ "none" \notin Statuses
  BY OutcomesAssumption DEF Statuses, ActiveStatuses, TerminalStatuses
<1>3. j <= lastId <=> ~(j > lastId)
  BY <1>1
<1> QED BY <1>1, <1>2, <1>3 DEF View, Statuses

\* A client sees nothing of a change from an active status to another.
LEMMA ViewUnchanged ==
    ASSUME UNCHANGED lastId, NEW j \in JobIds,
           \/ status'[j] = status[j]
           \/ status[j] \in ActiveStatuses /\ status'[j] \in ActiveStatuses
    PROVE  View(j)' = View(j)
<1>1. "none" \notin ActiveStatuses
  BY DEF ActiveStatuses
<1> QED BY <1>1 DEF View

\* What pruning drops has ended, for the clients too.
LEMMA PrunableEnded ==
    ASSUME OutcomeInv
    PROVE  Prunable(status) \subseteq Lifecycle!Ended
<1>1. \A j \in Prunable(status) : j \in jobs /\ status[j] \in TerminalStatuses
  BY DEF Prunable
<1>2. \A j \in jobs : j \in JobIds
  BY JobsAreIds DEF OutcomeInv, IndInv
<1>3. TerminalStatuses \subseteq Lifecycle!Terminal
  BY DEF Lifecycle!Terminal
<1> QED BY <1>1, <1>2, <1>3, ViewFacts DEF Lifecycle!Ended

LEMMA StartJobStarts ==
    ASSUME OutcomeInv, StartJob
    PROVE  \E j \in JobIds : Lifecycle!Start(j)
<1>1. PICK j \in JobIds : j = lastId + 1 /\ j > lastId /\ lastId \in Nat
  <2>1. lastId \in 0..MaxJobs /\ lastId + 1 <= MaxJobs
    BY DEF StartJob, OutcomeInv, IndInv, TypeOK
  <2> QED BY <2>1, BoundsAssumption DEF JobIds
<1>2. /\ jobs' = (jobs \ Prunable(status)) \cup {j} /\ lastId' = j
      /\ status' = [status EXCEPT ![j] = "starting"]
      /\ UNCHANGED <<told, vouched, requested, restarts>>
  BY <1>1 DEF StartJob, clientVars
<1>3. View(j) = "new"
  BY <1>1, ViewFacts
<1>4. View(j)' = "active"
  <2>1. status'[j] = "starting"
    BY <1>2 DEF OutcomeInv, IndInv, TypeOK
  <2> QED BY <1>1, <1>2, <2>1 DEF View, ActiveStatuses
<1>5. \A k \in JobIds \ {j} : View(k)' = View(k)
  <2> SUFFICES ASSUME NEW k \in JobIds, k # j PROVE View(k)' = View(k)
    OBVIOUS
  <2>1. status'[k] = status[k]
    BY <1>2 DEF OutcomeInv, IndInv, TypeOK
  <2>2. k > lastId' <=> k > lastId
    <3>1. k \in Nat
      BY JobIdsFinite
    <3> QED BY <1>1, <1>2, <3>1
  <2> QED BY <2>1, <2>2 DEF View
<1>6. [k \in JobIds |-> View(k)]' = [[k \in JobIds |-> View(k)] EXCEPT ![j] = "active"]
  BY <1>4, <1>5
<1>7. \E S \in SUBSET Lifecycle!Ended : jobs' = (jobs \ S) \cup {j}
  BY <1>2, PrunableEnded
<1> QED BY <1>2, <1>3, <1>6, <1>7 DEF Lifecycle!Start

\* The steps of memory and of threads that no client sees.
LEMMA HiddenStutters ==
    ASSUME OutcomeInv,
           \/ \E j \in JobIds : \/ StartAbandoned(j) \/ CreateTask(j)
                                \/ RunBegins(j) \/ RunMarked(j)
                                \/ \E w \in Writers : WriteEnds(j, w)
           \/ \E c \in Cancellers : CancelDeliver(c) \/ CancelAbandoned(c)
           \/ UNCHANGED vars
    PROVE  UNCHANGED Lifecycle!vars
<1>1. UNCHANGED <<jobs, lastId, told, vouched, requested, restarts>>
  BY DEF StartAbandoned, CreateTask, RunBegins, RunMarked, WriteEnds, CancelDeliver,
     CancelAbandoned, vars, loopVars, clientVars
<1>2. ASSUME NEW k \in JobIds
      PROVE  \/ status'[k] = status[k]
             \/ status[k] \in ActiveStatuses /\ status'[k] \in ActiveStatuses
  <2>1. CASE \E j \in JobIds : RunBegins(j)
    <3>1. PICK j \in JobIds : RunBegins(j)
      BY <2>1
    <3>2. status[j] \in ActiveStatuses
      BY <3>1 DEF RunBegins, OutcomeInv, IndInv, Supervision, Active
    <3>3. status'[k] = IF k = j THEN "running" ELSE status[k]
      BY <3>1 DEF RunBegins, OutcomeInv, IndInv, TypeOK
    <3> QED BY <3>2, <3>3 DEF ActiveStatuses
  <2>2. CASE UNCHANGED status
    BY <2>2
  <2> QED BY <2>1, <2>2 DEF StartAbandoned, CreateTask, RunMarked, WriteEnds, CancelDeliver,
          CancelAbandoned, vars, loopVars
<1>3. \A k \in JobIds : View(k)' = View(k)
  BY <1>1, <1>2, ViewUnchanged
<1> QED BY <1>1, <1>3 DEF Lifecycle!vars

LEMMA RunConcludesEnds ==
    ASSUME OutcomeInv, NEW j \in JobIds,
           RunRefused(j) \/ RunReturns(j) \/ RunRaises(j) \/ RunCancelled(j)
    PROVE  Lifecycle!End(j)
<1> USE StatusSets
<1>1. j \in Active
  BY DEF RunRefused, RunReturns, RunRaises, RunCancelled, OutcomeInv, IndInv, Supervision
<1>2. j \in jobs /\ status[j] \in ActiveStatuses
  BY <1>1 DEF Active
<1>3. PICK s \in TerminalStatuses \ {"interrupted"} :
         /\ status' = [status EXCEPT ![j] = s]
         /\ UNCHANGED <<jobs, lastId, told, vouched, requested, restarts>>
  BY OutcomesAssumption DEF RunRefused, RunReturns, RunRaises, RunCancelled, Conclude,
     clientVars, TerminalStatuses
<1>4. j <= lastId /\ View(j) = "active"
  BY <1>2, ViewFacts
<1>5. View(j)' = s
  <2>1. status'[j] = s
    BY <1>3 DEF OutcomeInv, IndInv, TypeOK
  <2>2. ~(j > lastId)
    BY <1>4, ViewFacts
  <2> QED BY <1>3, <2>1, <2>2 DEF View
<1>6. \A k \in JobIds \ {j} : View(k)' = View(k)
  BY <1>3, ViewUnchanged DEF OutcomeInv, IndInv, TypeOK
<1>7. [k \in JobIds |-> View(k)]' = [[k \in JobIds |-> View(k)] EXCEPT ![j] = s]
  BY <1>5, <1>6
<1> QED BY <1>2, <1>3, <1>4, <1>7 DEF Lifecycle!End

LEMMA RunFinishesForgets ==
    ASSUME OutcomeInv, NEW j \in JobIds, RunFinishes(j)
    PROVE  Lifecycle!Forget
<1>1. UNCHANGED <<lastId, status, told, vouched, requested, restarts>>
  BY DEF RunFinishes, clientVars
<1>2. \A k \in JobIds : View(k)' = View(k)
  BY <1>1, ViewUnchanged
<1>3. \E S \in SUBSET Lifecycle!Ended : jobs' = jobs \ S
  BY PrunableEnded DEF RunFinishes
<1> QED BY <1>1, <1>2, <1>3 DEF Lifecycle!Forget

LEMMA CancelRequestRequests ==
    ASSUME OutcomeInv, NEW j \in JobIds, NEW c \in Cancellers, CancelRequest(c, j)
    PROVE  Lifecycle!RequestCancel(j)
<1>1. j \in jobs /\ status[j] \in ActiveStatuses
  BY DEF CancelRequest, Cancellable, Active
<1>2. /\ status' = [status EXCEPT ![j] = "cancelling"]
      /\ UNCHANGED <<jobs, lastId, told, vouched, restarts>>
      /\ requested' = requested \cup {j}
  BY DEF CancelRequest
<1>3. \A k \in JobIds : status'[k] = IF k = j THEN "cancelling" ELSE status[k]
  BY <1>2 DEF OutcomeInv, IndInv, TypeOK
<1>4. "cancelling" \in ActiveStatuses
  BY DEF ActiveStatuses
<1>5. \A k \in JobIds : View(k)' = View(k)
  BY <1>1, <1>2, <1>3, <1>4, ViewUnchanged
<1>6. View(j) = "active"
  BY <1>1, ViewFacts
<1> QED BY <1>1, <1>2, <1>5, <1>6 DEF Lifecycle!RequestCancel

\* A reply or a report tells its client the status the record has.
LEMMA TellingReports ==
    ASSUME OutcomeInv, NEW j \in JobIds, NEW s, Tell(j, s),
           s \in TerminalStatuses => s = status[j],
           j <= lastId, status[j] # "none",
           UNCHANGED <<jobs, lastId, status, requested, restarts>>,
           \/ vouched' \in {vouched, vouched \ {j}}
           \/ j \in jobs /\ s \in TerminalStatuses /\ vouched' = vouched \cup {j}
    PROVE  Lifecycle!Report(j)
<1> USE StatusSets
<1>1. status[j] \in Statuses
  BY DEF OutcomeInv, IndInv, TypeOK
<1>2. \A k \in JobIds : View(k)' = View(k)
  BY ViewUnchanged
<1>3. View(j) = IF status[j] \in ActiveStatuses THEN "active" ELSE status[j]
  BY <1>1, ViewFacts DEF Statuses
<1>4. Lifecycle!Terminal = TerminalStatuses
  BY DEF Lifecycle!Terminal, TerminalStatuses
<1>5. s \in TerminalStatuses => View(j) = s /\ told' = [told EXCEPT ![j] = s] /\ told'[j] = s
  BY <1>3 DEF Tell, OutcomeInv, IndInv, TypeOK
<1>6. s \notin TerminalStatuses => UNCHANGED told
  BY DEF Tell
<1>7. View(j) \in TerminalStatuses \cup {"active"}
  BY <1>1, <1>3 DEF Statuses
<1> QED BY <1>2, <1>4, <1>5, <1>6, <1>7 DEF Lifecycle!Report

LEMMA TellingStepsReport ==
    ASSUME OutcomeInv, NEW j \in JobIds,
           \/ Report(j)
           \/ \E c \in Cancellers : CancelRefused(c, j) \/ CancelReply(c)
    PROVE  \E i \in JobIds : Lifecycle!Report(i)
<1> USE StatusSets
<1>1. CASE Report(j)
  <2>1. /\ j \in jobs /\ Tell(j, VisibleStatus(j))
        /\ UNCHANGED <<jobs, lastId, status, requested, restarts>>
        /\ \/ vouched' \in {vouched, vouched \ {j}}
           \/ VisibleStatus(j) \in TerminalStatuses /\ vouched' = vouched \cup {j}
    BY <1>1 DEF Report, loopVars
  <2>2. VisibleStatus(j) \in TerminalStatuses => VisibleStatus(j) = status[j]
    BY DEF VisibleStatus, ActiveStatuses
  <2>3. j <= lastId /\ status[j] # "none"
    BY <2>1, ViewFacts
  <2> QED BY <2>1, <2>2, <2>3, TellingReports
<1>2. ASSUME NEW c \in Cancellers, CancelRefused(c, j)
      PROVE  \E i \in JobIds : Lifecycle!Report(i)
  <2>1. /\ j \in jobs /\ Tell(j, status[j])
        /\ UNCHANGED <<jobs, lastId, status, requested, restarts, vouched>>
    BY <1>2 DEF CancelRefused, loopVars
  <2>2. j <= lastId /\ status[j] # "none"
    BY <2>1, ViewFacts
  <2> QED BY <2>1, <2>2, TellingReports
<1>3. ASSUME NEW c \in Cancellers, CancelReply(c)
      PROVE  \E i \in JobIds : Lifecycle!Report(i)
  <2>1. PICK i \in JobIds :
           i = canceller[c].job /\ i \in requested /\ status[i] # "none" /\ i <= lastId
    BY <1>3 DEF CancelReply, OutcomeInv, CancellerSound, IndInv, Admitted, TypeOK
  <2>2. /\ Tell(i, status[i])
        /\ UNCHANGED <<jobs, lastId, status, requested, restarts, vouched>>
    BY <1>3, <2>1 DEF CancelReply, loopVars
  <2> QED BY <2>1, <2>2, TellingReports
<1> QED BY <1>1, <1>2, <1>3

LEMMA RestartRestarts ==
    ASSUME OutcomeInv, Restart
    PROVE  Lifecycle!Restart
<1> USE StatusSets
<1>1. UNCHANGED <<lastId, told, vouched, requested>> /\ restarts' = restarts + 1
  BY RestartFacts DEF Restart
<1>2. OutcomeInv'
  BY RestartSound
<1>3. jobs' \subseteq JobIds
  <2>1. lastId' \in 0..MaxJobs /\ jobs' \subseteq 1..lastId'
    BY <1>2 DEF OutcomeInv, IndInv, TypeOK
  <2> QED BY <2>1, BoundsAssumption DEF JobIds
<1>4. Lifecycle!Terminal = TerminalStatuses
  BY DEF Lifecycle!Terminal, TerminalStatuses
<1>5. ASSUME NEW j \in JobIds
      PROVE  /\ View(j) = "new" => View(j)' = "new" /\ j \notin jobs'
             /\ View(j) # "new" /\ j \notin jobs' => View(j)' = "unknown"
             /\ j \in jobs' => View(j)' \in Lifecycle!Recovered(j)
             /\ View(j)' \in Lifecycle!States
  <2>1. RestartOf(j) /\ OutcomeSound(j)
    BY RestartFacts DEF OutcomeInv
  <2>2. disk[j] \in ActiveStatuses \cup TerminalStatuses \cup {"absent"}
    BY DEF OutcomeInv, IndInv, TypeOK, Statuses
  <2>3. View(j) = "new" <=> j > lastId
    BY ViewFacts
  <2>4. View(j) = "new" => View(j)' = "new" /\ j \notin jobs'
    <3>1. j > lastId => disk[j] = "absent"
      BY DEF OutcomeInv, IndInv, Admitted
    <3> QED BY <1>1, <2>1, <2>3, <3>1 DEF RestartOf, View
  <2>5. View(j) # "new" /\ j \notin jobs' => View(j)' = "unknown"
    BY <1>1, <2>1, <2>3 DEF RestartOf, View
  <2>6. ASSUME j \in jobs'
        PROVE  /\ View(j)' = IF disk[j] \in ActiveStatuses THEN "interrupted" ELSE disk[j]
               /\ View(j)' \in TerminalStatuses
    <3>1. ~(j > lastId)
      BY <2>3, <2>4, <2>6
    <3>2. /\ status'[j] = IF disk[j] \in ActiveStatuses THEN "interrupted" ELSE disk[j]
          /\ status'[j] \in TerminalStatuses
      BY <2>1, <2>2, <2>6 DEF RestartOf, TerminalStatuses
    <3> QED BY <1>1, <3>1, <3>2 DEF View
  <2>7. ASSUME j \in jobs' PROVE View(j)' \in Lifecycle!Recovered(j)
    <3>1. CASE j \in vouched \ requested
      <4>1. disk[j] = told[j] /\ told[j] \in TerminalStatuses
        BY <2>1, <2>7, <3>1 DEF OutcomeInv, VouchedSound, Durable, RestartOf
      <4> QED BY <2>6, <2>7, <3>1, <4>1 DEF Lifecycle!Recovered
    <3>2. CASE j \notin vouched \ requested /\ told[j] # "none"
      <4>1. disk[j] \in TerminalStatuses => disk[j] \in {told[j], "interrupted"}
        BY <2>1, <3>2 DEF OutcomeSound
      <4>2. View(j)' \in {told[j], "interrupted"}
        BY <2>1, <2>2, <2>6, <2>7, <4>1 DEF RestartOf
      <4> QED BY <3>2, <4>2 DEF Lifecycle!Recovered
    <3>3. CASE j \notin vouched \ requested /\ told[j] = "none"
      BY <1>4, <2>6, <2>7, <3>3 DEF Lifecycle!Recovered
    <3> QED BY <3>1, <3>2, <3>3
  <2>8. View(j)' \in Lifecycle!States
    BY <1>4, <2>4, <2>5, <2>6 DEF Lifecycle!States
  <2> QED BY <2>4, <2>5, <2>7, <2>8
<1> DEFINE st == [j \in JobIds |-> View(j)]
<1>6. jobs' \in SUBSET {j \in JobIds : st[j] # "new"}
  BY <1>3, <1>5
<1>7. st' \in [JobIds -> Lifecycle!States]
  BY <1>5
<1>8. \A j \in JobIds :
         st'[j] \in IF st[j] = "new" THEN {"new"}
                    ELSE IF j \in jobs' THEN Lifecycle!Recovered(j) ELSE {"unknown"}
  BY <1>5
<1> QED BY <1>1, <1>6, <1>7, <1>8 DEF Lifecycle!Restart

\* The job manager implements JobLifecycle: an admission starts a job, an outcome
\* set in memory ends it, a pruning forgets it, a reply or a report tells of it, and
\* every write, resumption and delivery in between is a stutter.
THEOREM Implements == Spec => ImplementsLifecycle
<1>1. Init => Lifecycle!Init
  <2> SUFFICES ASSUME Init PROVE Lifecycle!Init
    OBVIOUS
  <2>1. \A j \in JobIds : j > lastId
    BY BoundsAssumption DEF Init, JobIds
  <2>2. \A j \in JobIds : View(j) = "new"
    BY <2>1 DEF View
  <2> QED BY <2>2 DEF Init, Lifecycle!Init
<1>2. OutcomeInv /\ [Next]_vars => [Lifecycle!Next]_(Lifecycle!vars)
  <2> SUFFICES ASSUME OutcomeInv, [Next]_vars
               PROVE  [Lifecycle!Next]_(Lifecycle!vars)
    OBVIOUS
  <2>1. CASE StartJob
    BY <2>1, StartJobStarts DEF Lifecycle!Next
  <2>2. ASSUME NEW j \in JobIds,
               StartAbandoned(j) \/ CreateTask(j) \/ RunBegins(j) \/ RunMarked(j)
        PROVE  UNCHANGED Lifecycle!vars
    BY <2>2, HiddenStutters
  <2>3. ASSUME NEW j \in JobIds,
               RunRefused(j) \/ RunReturns(j) \/ RunRaises(j) \/ RunCancelled(j)
        PROVE  Lifecycle!Next
    BY <2>3, RunConcludesEnds DEF Lifecycle!Next
  <2>4. ASSUME NEW j \in JobIds, RunFinishes(j)
        PROVE  Lifecycle!Next
    BY <2>4, RunFinishesForgets DEF Lifecycle!Next
  <2>5. ASSUME NEW j \in JobIds, Report(j)
        PROVE  Lifecycle!Next
    <3>1. \E i \in JobIds : Lifecycle!Report(i)
      BY <2>5, TellingStepsReport
    <3> QED BY <3>1 DEF Lifecycle!Next
  <2>6. ASSUME NEW j \in JobIds, NEW w \in Writers, WriteEnds(j, w)
        PROVE  UNCHANGED Lifecycle!vars
    BY <2>6, HiddenStutters
  <2>7. ASSUME NEW j \in JobIds, NEW c \in Cancellers, CancelRefused(c, j) \/ CancelReply(c)
        PROVE  Lifecycle!Next
    BY <2>7, TellingStepsReport DEF Lifecycle!Next
  <2>8. ASSUME NEW j \in JobIds, NEW c \in Cancellers, CancelRequest(c, j)
        PROVE  Lifecycle!Next
    BY <2>8, CancelRequestRequests DEF Lifecycle!Next
  <2>9. ASSUME NEW c \in Cancellers, CancelDeliver(c) \/ CancelAbandoned(c)
        PROVE  UNCHANGED Lifecycle!vars
    BY <2>9, HiddenStutters
  <2>10. CASE Restart
    BY <2>10, RestartRestarts DEF Lifecycle!Next
  <2>11. CASE UNCHANGED vars
    BY <2>11, HiddenStutters
  <2>12. 1 \in JobIds
    BY BoundsAssumption DEF JobIds
  <2> QED BY <2>1, <2>2, <2>3, <2>4, <2>5, <2>6, <2>7, <2>8, <2>9, <2>10, <2>11, <2>12 DEF Next
<1> QED BY <1>1, <1>2, OutcomeInductive, PTL DEF Spec, ImplementsLifecycle, Lifecycle!Spec

=============================================================================
