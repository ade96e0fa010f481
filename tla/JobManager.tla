----------------------------- MODULE JobManager -----------------------------
(***************************************************************************)
(* The managed-job component of the bridge (jobs.py): background jobs      *)
(* started, supervised, cancelled and persisted by one asyncio event loop. *)
(*                                                                         *)
(* Code between two awaits runs atomically on the loop, so it is one       *)
(* action.  `await self._persist(record)` hands a payload CAPTURED AT THE  *)
(* CALL to a worker thread: the call, the end of the thread and the        *)
(* resumption of the awaiting coroutine are three separate steps, and the  *)
(* threads of several coroutines finish in any order.  A client may give   *)
(* up its request: CancelledError is raised at the await of the handler,   *)
(* and its thread goes on.  A restart loses the memory of the process and  *)
(* the threads that have not finished; the state directory survives.       *)
(*                                                                         *)
(* The model is the persistent configuration (state_dir is not None).  A   *)
(* job is the number of its admission: uuid4 never repeats, and            *)
(* (created_at, job_id), the order the history is pruned by, is that of    *)
(* admission.  Output, argv and timestamps are not represented.            *)
(***************************************************************************)
EXTENDS Naturals, FiniteSets

CONSTANTS
    MaxJobs,        \* bound on the jobs admitted in a behaviour
    MaxActive,      \* MAX_ACTIVE_MANAGED_JOBS
    HistoryLimit,   \* history_limit
    RecoveryLimit,  \* state files that fit in MAX_RECOVERY_BYTES
    Cancellers,     \* concurrent cancel_job requests
    Abandonable,    \* the requests a client may give up: "start", cancel_jobs
    MaxRestarts,    \* bound on the restarts in a behaviour
    Outcomes        \* the statuses _apply_result chooses from

ASSUME BoundsAssumption ==
    /\ MaxJobs \in Nat \ {0}
    /\ MaxActive \in Nat \ {0}
    /\ HistoryLimit \in Nat \ {0}
    /\ RecoveryLimit \in Nat \ {0}
    /\ MaxRestarts \in Nat

ASSUME CancellersAssumption == Cancellers \cap {"start", "run"} = {}

ASSUME OutcomesAssumption ==
    Outcomes \subseteq {"succeeded", "failed", "timeout", "output_limit"}

ASSUME AbandonableAssumption == Abandonable \subseteq {"start"} \cup Cancellers

JobIds == 1..MaxJobs

\* Fault: _ACTIVE_STATUSES misses one.
ActiveStatusesShort == {"starting", "running"}

ActiveStatuses == {"starting", "running", "cancelling"}
TerminalStatuses == Outcomes \cup {"failed", "cancelled", "interrupted"}
Statuses == ActiveStatuses \cup TerminalStatuses

\* Who awaits a write of a job's state file: start_job, _run_job or a cancel_job.
Writers == {"start", "run"} \cup Cancellers

\* A write holds the status in the captured payload while its thread runs, then
\* its result until the awaiting coroutine resumes.
WriteStates == Statuses \cup {"idle", "saved", "unsaved"}

\* Where record.task is: None; None for ever, start_job being gone; created and
\* not yet stepped; awaiting the persist of "running"; in run_process; in
\* run_process with a cancellation delivered; awaiting the persist of a result,
\* or of an exception's status; done.
TaskStates == {"none", "never", "created", "marking", "executing", "unwinding",
               "saving_result", "saving_error", "done"}

VARIABLES
    jobs,        \* the keys of _jobs
    lastId,      \* the jobs admitted so far are 1..lastId
    status,      \* record.status
    persistent,  \* record.persistent
    task,        \* record.task
    write,       \* write[j][w]: the state-file write of j that w awaits
    canceller,   \* the cancel_job requests in progress
    disk,        \* the status in <job>.job.json, or "absent"
    mtime,       \* rank of the modification times of the state files
    restarts,    \* restarts so far
    told,        \* the last terminal status a client was told of
    vouched,     \* jobs whose last report was terminal and persistent
    requested,   \* jobs for which a cancel_job has begun
    accepted     \* jobs for which a cancel_job replied accepted (this session)

vars == <<jobs, lastId, status, persistent, task, write, canceller, disk,
          mtime, restarts, told, vouched, requested, accepted>>

loopVars == <<jobs, lastId, status, persistent, task>>
clientVars == <<told, vouched, requested, accepted>>
fileVars == <<disk, mtime>>

TypeOK ==
    /\ jobs \subseteq 1..lastId
    /\ lastId \in 0..MaxJobs
    /\ status \in [JobIds -> Statuses \cup {"none"}]
    /\ persistent \in [JobIds -> BOOLEAN]
    /\ task \in [JobIds -> TaskStates]
    /\ write \in [JobIds -> [Writers -> WriteStates]]
    /\ canceller \in [Cancellers -> [pc: {"idle", "saving", "gathering", "gone"},
                                     job: JobIds \cup {0}]]
    /\ disk \in [JobIds -> Statuses \cup {"absent"}]
    /\ mtime \in [JobIds -> 0..MaxJobs]
    /\ restarts \in 0..MaxRestarts
    /\ told \in [JobIds -> TerminalStatuses \cup {"none"}]
    /\ vouched \subseteq JobIds
    /\ requested \subseteq JobIds /\ accepted \subseteq JobIds

-----------------------------------------------------------------------------
\* The n elements of S with the greatest keys (the keys of S are distinct).
NewestOf(S, key, n) ==
    {j \in S : Cardinality({k \in S : key[k] > key[j]}) < n}

Active == {j \in jobs : status[j] \in ActiveStatuses}
Files == {j \in JobIds : disk[j] # "absent"}

\* Fault: the history slice starts one record early.
PrunableOneTooMany(s) ==
    LET terminal == {j \in jobs : s[j] \in TerminalStatuses}
    IN  terminal \ NewestOf(terminal, [j \in JobIds |-> j], HistoryLimit - 1)

\* The terminal records _prune_history_sync drops when the statuses are s.
Prunable(s) ==
    LET terminal == {j \in jobs : s[j] \in TerminalStatuses}
    IN  terminal \ NewestOf(terminal, [j \in JobIds |-> j], HistoryLimit)

\* Only the order of the modification times matters: keep their ranks.
Ranks(files, key) ==
    [j \in JobIds |-> IF j \in files
                      THEN Cardinality({k \in files : key[k] <= key[j]})
                      ELSE 0]

\* unlink(missing_ok=True) of the state files of a set of jobs succeeds.
Unlink(gone) ==
    /\ disk' = [j \in JobIds |-> IF j \in gone THEN "absent" ELSE disk[j]]
    /\ mtime' = Ranks(Files \ gone, mtime)

\* os.replace of the state file of j by one that says s.
Replace(j, s) ==
    /\ disk' = [disk EXCEPT ![j] = s]
    /\ mtime' = Ranks(Files \cup {j}, [mtime EXCEPT ![j] = MaxJobs + 1])

\* The status summary() and get_job_output() publish.
VisibleStatus(j) ==
    IF task[j] \notin {"none", "never", "done"} /\ status[j] \in TerminalStatuses
    THEN "running" ELSE status[j]

\* A client is told that the status of j is s.
Tell(j, s) ==
    told' = IF s \in TerminalStatuses THEN [told EXCEPT ![j] = s] ELSE told

\* w calls _persist for j: the payload is captured now.
Persist(j, w, s) == write' = [write EXCEPT ![j][w] = s]

\* The thread of the write w awaits has ended, and the coroutine can resume.
Ended(j, w) == write[j][w] \in {"saved", "unsaved"}

\* w resumes from _persist.
Resume(j, w) ==
    /\ Ended(j, w)
    /\ persistent' = [persistent EXCEPT ![j] = write[j][w] = "saved"]
    /\ write' = [write EXCEPT ![j][w] = "idle"]

-----------------------------------------------------------------------------
Init ==
    /\ jobs = {}
    /\ lastId = 0
    /\ status = [j \in JobIds |-> "none"]
    /\ persistent = [j \in JobIds |-> FALSE]
    /\ task = [j \in JobIds |-> "none"]
    /\ write = [j \in JobIds |-> [w \in Writers |-> "idle"]]
    /\ canceller = [c \in Cancellers |-> [pc |-> "idle", job |-> 0]]
    /\ disk = [j \in JobIds |-> "absent"]
    /\ mtime = [j \in JobIds |-> 0]
    /\ restarts = 0
    /\ told = [j \in JobIds |-> "none"]
    /\ vouched = {}
    /\ requested = {} /\ accepted = {}

\* Fault: the admission check is off by one.
MayAdmitOneMore == Cardinality(Active) <= MaxActive

MayAdmit == Cardinality(Active) < MaxActive

\* start_job: admission, then the first await.
StartJob ==
    LET j == lastId + 1
        gone == Prunable(status)
    IN  /\ j <= MaxJobs
        /\ MayAdmit
        /\ jobs' = (jobs \ gone) \cup {j}
        /\ lastId' = j
        /\ status' = [status EXCEPT ![j] = "starting"]
        /\ Persist(j, "start", "starting")
        /\ \E removed \in SUBSET gone : Unlink(removed)
        /\ UNCHANGED <<persistent, task, canceller, restarts, clientVars>>

\* The client of start_job is gone before the persist returned: the record stays
\* in the inventory, and no task is ever created for it.
StartAbandoned(j) ==
    /\ "start" \in Abandonable
    /\ write[j]["start"] # "idle"
    /\ task[j] = "none"
    /\ task' = [task EXCEPT ![j] = "never"]
    /\ write' = [write EXCEPT ![j]["start"] = IF Ended(j, "start") THEN "idle" ELSE @]
    /\ UNCHANGED <<jobs, lastId, status, persistent, canceller, fileVars, restarts,
                   clientVars>>

\* start_job resumes, and creates the supervising task.
CreateTask(j) ==
    /\ task[j] = "none"
    /\ Resume(j, "start")
    /\ task' = [task EXCEPT ![j] = "created"]
    /\ UNCHANGED <<jobs, lastId, status, canceller, fileVars, restarts, clientVars>>

\* The first step of _run_job: the status is overwritten whatever it is.
RunBegins(j) ==
    /\ task[j] = "created"
    /\ task' = [task EXCEPT ![j] = "marking"]
    /\ status' = [status EXCEPT ![j] = "running"]
    /\ Persist(j, "run", "running")
    /\ UNCHANGED <<jobs, lastId, persistent, canceller, fileVars, restarts, clientVars>>

RunMarked(j) ==
    /\ task[j] = "marking"
    /\ Resume(j, "run")
    /\ task' = [task EXCEPT ![j] = "executing"]
    /\ UNCHANGED <<jobs, lastId, status, canceller, fileVars, restarts, clientVars>>

\* _run_job sets a terminal status and awaits its persist.
Conclude(j, s, next) ==
    /\ status' = [status EXCEPT ![j] = s]
    /\ task' = [task EXCEPT ![j] = next]
    /\ Persist(j, "run", s)
    /\ UNCHANGED <<jobs, lastId, persistent, canceller, fileVars, restarts, clientVars>>

\* run_process returns a result (_apply_result).
RunReturns(j) ==
    /\ task[j] = "executing"
    /\ \E s \in Outcomes : Conclude(j, s, "saving_result")

\* Fault: the handler of unexpected exceptions is missing.
RunRaisesUncaught(j) ==
    /\ task[j] = "executing"
    /\ task' = [task EXCEPT ![j] = "done"]
    /\ UNCHANGED <<jobs, lastId, status, persistent, write, canceller, fileVars,
                   restarts, clientVars>>

\* run_process raises ExecutionError or another exception.
RunRaises(j) ==
    /\ task[j] = "executing"
    /\ Conclude(j, "failed", "saving_error")

\* run_process raises before its first await: the request is not authorized any
\* more, the executable is missing, or the project has no free slot.
RunRefused(j) ==
    /\ task[j] = "marking"
    /\ Ended(j, "run")
    /\ persistent' = [persistent EXCEPT ![j] = write[j]["run"] = "saved"]
    /\ status' = [status EXCEPT ![j] = "failed"]
    /\ task' = [task EXCEPT ![j] = "saving_error"]
    /\ Persist(j, "run", "failed")
    /\ UNCHANGED <<jobs, lastId, canceller, fileVars, restarts, clientVars>>

\* run_process raises CancelledError, once it has stopped its process.
RunCancelled(j) ==
    /\ task[j] = "unwinding"
    /\ Conclude(j, "cancelled", "saving_error")

\* _run_job resumes from its last persist; only after a result does it prune.
RunFinishes(j) ==
    /\ task[j] \in {"saving_result", "saving_error"}
    /\ Resume(j, "run")
    /\ task' = [task EXCEPT ![j] = "done"]
    /\ LET gone == IF task[j] = "saving_result" THEN Prunable(status) ELSE {}
       IN  /\ jobs' = jobs \ gone
           /\ \E removed \in SUBSET gone : Unlink(removed)
    /\ UNCHANGED <<lastId, status, canceller, restarts, clientVars>>

-----------------------------------------------------------------------------
\* The coroutine that awaited the write of w has been cancelled, or given up.
Deserted(j, w) ==
    \/ w = "run" /\ task[j] = "done"
    \/ w = "start" /\ task[j] = "never"
    \/ w \in Cancellers /\ canceller[w].pc \in {"idle", "gone"}

\* The worker thread of _write_payload_sync ends: it has replaced the file, or
\* failed before the replacement, or failed after it (chmod).
WriteEnds(j, w) ==
    /\ write[j][w] \in Statuses
    /\ \E replaced \in BOOLEAN, ok \in BOOLEAN :
          /\ ok => replaced
          /\ write' = [write EXCEPT ![j][w] =
                         IF Deserted(j, w) THEN "idle"
                         ELSE IF ok THEN "saved" ELSE "unsaved"]
          /\ IF replaced THEN Replace(j, write[j][w]) ELSE UNCHANGED fileVars
    /\ UNCHANGED <<loopVars, canceller, restarts, clientVars>>

\* Fault: cancel_job does not check that the job is still active.
CancellableAnyway(j) == j \in jobs /\ task[j] \notin {"none", "never"}

Cancellable(j) == j \in Active /\ task[j] \notin {"none", "never"}

\* cancel_job of a job that is not active, or has no task yet: it replies with
\* the status of the record.
CancelRefused(c, j) ==
    /\ canceller[c].pc = "idle"
    /\ j \in jobs
    /\ ~Cancellable(j)
    /\ Tell(j, status[j])
    /\ UNCHANGED <<loopVars, write, canceller, fileVars, restarts, vouched, requested, accepted>>

\* cancel_job of an active job: the first await is the persist of "cancelling".
\* (A request is a coroutine and its thread: c is free when both have ended.)
CancelRequest(c, j) ==
    /\ canceller[c].pc = "idle"
    /\ \A k \in JobIds : write[k][c] = "idle"
    /\ Cancellable(j)
    /\ status' = [status EXCEPT ![j] = "cancelling"]
    /\ Persist(j, c, "cancelling")
    /\ canceller' = [canceller EXCEPT ![c] = [pc |-> "saving", job |-> j]]
    /\ requested' = requested \cup {j}
    /\ UNCHANGED <<jobs, lastId, persistent, task, fileVars, restarts, told, vouched, accepted>>

\* task.cancel(): CancelledError is raised at the await _run_job is suspended in;
\* only run_process is inside its try.  dropped: the writes whose result is lost.
CancelTask(j, dropped) ==
    LET awaited == task[j] \in {"marking", "saving_result", "saving_error"}
        lost == dropped \cup (IF awaited THEN {"run"} ELSE {})
    IN  /\ task' = [task EXCEPT ![j] = IF awaited THEN "done"
                                       ELSE IF @ = "executing" THEN "unwinding"
                                       ELSE @]
        /\ write' = [write EXCEPT ![j] =
                       [w \in Writers |-> IF w \in lost /\ Ended(j, w)
                                          THEN "idle" ELSE write[j][w]]]

\* cancel_job resumes, and cancels the task.  The loop is FIFO: a task's first
\* step was queued before this resumption.
CancelDeliver(c) ==
    LET j == canceller[c].job
    IN  /\ canceller[c].pc = "saving"
        /\ Ended(j, c)
        /\ task[j] # "created"
        /\ persistent' = [persistent EXCEPT ![j] = write[j][c] = "saved"]
        /\ CancelTask(j, {c})
        /\ canceller' = [canceller EXCEPT ![c].pc = "gathering"]
        /\ UNCHANGED <<jobs, lastId, status, fileVars, restarts, clientVars>>

\* The client of cancel_job is gone (bound: it makes no other request before the
\* restart).  During the persist, task.cancel() is never called; during the gather,
\* gather cancels the task it awaits once more.
CancelAbandoned(c) ==
    LET j == canceller[c].job
    IN  /\ c \in Abandonable
        /\ \/ /\ canceller[c].pc = "saving"
              /\ write' = [write EXCEPT ![j][c] = IF Ended(j, c) THEN "idle" ELSE @]
              /\ UNCHANGED task
           \/ /\ canceller[c].pc = "gathering"
              /\ CancelTask(j, {})
        /\ canceller' = [canceller EXCEPT ![c] = [pc |-> "gone", job |-> 0]]
        /\ UNCHANGED <<jobs, lastId, status, persistent, fileVars, restarts, clientVars>>

\* Fault: cancel_job does not gather the task.
GatheredAtOnce(j) == TRUE

Gathered(j) == task[j] = "done"

\* gather returns when the task is done; the reply holds the record's status.
CancelReply(c) ==
    LET j == canceller[c].job
    IN  /\ canceller[c].pc = "gathering"
        /\ Gathered(j)
        /\ canceller' = [canceller EXCEPT ![c] = [pc |-> "idle", job |-> 0]]
        /\ accepted' = accepted \cup {j}
        /\ Tell(j, status[j])
        /\ UNCHANGED <<loopVars, write, fileVars, restarts, vouched, requested>>

\* get_job and list_jobs publish the visible status and the persistent flag.
Report(j) ==
    /\ j \in jobs
    /\ Tell(j, VisibleStatus(j))
    /\ vouched' = IF VisibleStatus(j) \in TerminalStatuses /\ persistent[j]
                  THEN vouched \cup {j} ELSE vouched \ {j}
    /\ UNCHANGED <<loopVars, write, canceller, fileVars, restarts, requested, accepted>>

\* _load_state tries the newest files that fit in MAX_RECOVERY_BYTES, and keeps
\* the newest readable ones: a file is skipped, and left where it is, when it is
\* damaged or its project or executable is no longer authorized.  The active ones
\* among those loaded are rewritten as "interrupted", most recent first.

\* Fault: recovery does not check that a state file exists.
LoadedUnchecked(readable) ==
    NewestOf(readable \cap NewestOf(JobIds, mtime, RecoveryLimit), mtime, HistoryLimit)

Loaded(readable) ==
    NewestOf(readable \cap NewestOf(Files, mtime, RecoveryLimit), mtime, HistoryLimit)

\* Fault: recovery interrupts every record it loads.
LostAll(loaded) == loaded

Lost(loaded) == {j \in loaded : disk[j] \in ActiveStatuses}

\* Fault: recovery keeps the active status of a record it rewrites.
RecoveredAsIs(j) == disk[j]

RecoveredStatus(j) == IF j \in Lost({j}) THEN "interrupted" ELSE disk[j]

\* rewritten: the files replaced; secured: those whose write raised nothing.
Recover(loaded, rewritten, secured) ==
    /\ jobs' = loaded
    /\ status' = [j \in JobIds |-> IF j \in loaded THEN RecoveredStatus(j) ELSE "none"]
    /\ persistent' = [j \in JobIds |-> j \in loaded \ (Lost(loaded) \ secured)]
    /\ disk' = [j \in JobIds |-> IF j \in rewritten THEN "interrupted" ELSE disk[j]]
    /\ mtime' = Ranks(Files, [j \in JobIds |-> IF j \in rewritten
                                               THEN 2 * MaxJobs + 1 - mtime[j]
                                               ELSE mtime[j]])

\* The process dies at any point, and a new JobManager loads the directory (the
\* pruning of its constructor finds at most history_limit records).
Restart ==
    /\ restarts < MaxRestarts
    /\ restarts' = restarts + 1
    /\ \E readable \in SUBSET JobIds :
          \E rewritten \in SUBSET Lost(Loaded(readable)) :
             \E secured \in SUBSET rewritten :
                Recover(Loaded(readable), rewritten, secured)
    /\ task' = [j \in JobIds |-> "none"]
    /\ write' = [j \in JobIds |-> [w \in Writers |-> "idle"]]
    /\ canceller' = [c \in Cancellers |-> [pc |-> "idle", job |-> 0]]
    /\ accepted' = {}
    /\ UNCHANGED <<lastId, told, vouched, requested>>

Next ==
    \/ StartJob
    \/ \E j \in JobIds :
          \/ StartAbandoned(j)
          \/ CreateTask(j)
          \/ RunBegins(j)
          \/ RunMarked(j)
          \/ RunRefused(j)
          \/ RunReturns(j)
          \/ RunRaises(j)
          \/ RunCancelled(j)
          \/ RunFinishes(j)
          \/ Report(j)
          \/ \E w \in Writers : WriteEnds(j, w)
          \/ \E c \in Cancellers : CancelRefused(c, j) \/ CancelRequest(c, j)
    \/ \E c \in Cancellers : CancelDeliver(c) \/ CancelReply(c) \/ CancelAbandoned(c)
    \/ Restart

Spec == Init /\ [][Next]_vars

\* The next step of the coroutine that starts, runs and concludes j: what the event
\* loop owes a job, provided that run_process returns.
Supervise(j) ==
    \/ CreateTask(j) \/ RunBegins(j) \/ RunMarked(j) \/ RunRefused(j)
    \/ RunReturns(j) \/ RunRaises(j) \/ RunCancelled(j) \/ RunFinishes(j)

-----------------------------------------------------------------------------
(* Safety *)

\* Admission, completion, cancellation and recovery together never leave more
\* than MAX_ACTIVE_MANAGED_JOBS active records (start_job, line 428).
CapacityBound == Cardinality(Active) <= MaxActive

\* The inventory is bounded although pruning happens only at an admission and
\* after a result: between two prunings terminal records pile up, never beyond
\* what the active jobs of the last admission can add to the history limit.
InventoryBound == Cardinality(jobs) <= HistoryLimit + MaxActive

\* A job whose process may be alive is listed, is active and so is counted by
\* the admission check: no pruning, refusal or failed write loses track of it.
ProcessIsTracked ==
    \A j \in JobIds : task[j] \in {"executing", "unwinding"} => j \in Active

\* A terminal status in a state file is the job's own outcome: late, reordered
\* or abandoned writes never store an outcome the job did not have.
DiskOutcomeIsTrue ==
    \A j \in jobs : disk[j] \in TerminalStatuses => status[j] = disk[j]

\* visible_status, lines 201-204: an outcome reported as persistent is in the
\* state file, until at least history_limit newer jobs have pushed it out.
Durable(j) ==
    \/ disk[j] = told[j]
    \/ disk[j] = "absent" /\ lastId - j >= HistoryLimit

\* The docstring makes no exception.
PublishedIsDurable == \A j \in vouched : Durable(j)

\* What holds: the promise is kept to every job that nobody tried to cancel,
\* whatever happens to the others.
UndisturbedIsDurable == \A j \in vouched \ requested : Durable(j)

\* An outcome on disk is there to stay, whatever writes are still in flight, for
\* a job that nobody tried to cancel.
DiskOutcomeIsFinal ==
    [][\A j \in JobIds \ requested :
          disk[j] \in TerminalStatuses => disk'[j] \in {disk[j], "absent"}]_vars

\* tests/test_jobs.py: an accepted cancellation leaves a terminal status.
AcceptedCancelSettles == \A j \in accepted : status[j] \in TerminalStatuses

\* The status of a job's record as its clients may know it.
View(j) ==
    IF j > lastId THEN "new"
    ELSE IF status[j] = "none" THEN "unknown"
    ELSE IF status[j] \in ActiveStatuses THEN "active"
    ELSE status[j]

Lifecycle == INSTANCE JobLifecycle
    WITH Ids <- JobIds, Endings <- TerminalStatuses \ {"interrupted"},
         state <- [j \in JobIds |-> View(j)], listed <- jobs, session <- restarts

\* The job manager keeps the promises of JobLifecycle: a job ends once per session
\* whatever late cancellations and supervising steps do (line 564 is checked
\* before the await of line 572, and used after it), and a restart takes back
\* only outcomes nobody vouched for, or that a cancellation disturbed.
ImplementsLifecycle == Lifecycle!Spec

=============================================================================
