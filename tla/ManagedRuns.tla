----------------------------- MODULE ManagedRuns -----------------------------
(***************************************************************************)
(* The job manager and the execution service together, in one session of   *)
(* the bridge: _run_job awaits run_process directly, so a call that starts *)
(* or returns is one step of both, and task.cancel() becomes a             *)
(* CancelledError at the await run_process is suspended in.  Direct calls  *)
(* (the run_process tool) share the slots of the project.                  *)
(*                                                                         *)
(* Execution is extended; the job manager is the instance Jobs.  The calls *)
(* of Execution are the job ids and the direct calls.                      *)
(***************************************************************************)
EXTENDS Execution

CONSTANTS
    MaxJobs, MaxActive, HistoryLimit, RecoveryLimit, Cancellers, Abandonable,
    MaxRestarts, Outcomes

VARIABLES
    jobs, lastId, status, persistent, task, write, canceller, disk, mtime,
    restarts, told, vouched, requested, accepted,
    struck  \* jobs whose task has a CancelledError pending in run_process

Jobs == INSTANCE JobManager

JobIds == Jobs!JobIds

ASSUME ManagedAssumption ==
    /\ JobIds \subseteq Calls
    /\ Outcomes \subseteq {"succeeded", "failed", "timeout", "output_limit"}

Direct == Calls \ JobIds

jobVars == <<jobs, lastId, status, persistent, task, write, canceller, disk, mtime,
             restarts, told, vouched, requested, accepted>>

managedVars == <<vars, jobVars, struck>>

ManagedInit == Init /\ Jobs!Init /\ struck = {}

-----------------------------------------------------------------------------
\* The steps of the job manager that involve no run, by or for job j.
Manage(j) ==
    \/ Jobs!CreateTask(j) \/ Jobs!RunBegins(j) \/ Jobs!RunFinishes(j)
    \/ \E w \in Jobs!Writers : Jobs!WriteEnds(j, w)

Request(j) ==
    \/ Jobs!StartAbandoned(j) \/ Jobs!Report(j)
    \/ \E c \in Cancellers : Jobs!CancelRefused(c, j) \/ Jobs!CancelRequest(c, j)

Managing ==
    /\ \/ Jobs!StartJob
       \/ \E j \in JobIds : Manage(j) \/ Request(j)
       \/ \E c \in Cancellers : Jobs!CancelReply(c)
    /\ UNCHANGED <<vars, struck>>

\* task.cancel() by request c: the CancelledError is pending until the task runs.
Strike(c) ==
    LET j == canceller[c].job
    IN  struck' = IF task'[j] = "unwinding" THEN struck \cup {j} ELSE struck

\* A cancel_job reaches the task, or is given up before or after that.
Cancelling(c) ==
    /\ \/ Jobs!CancelDeliver(c) /\ Strike(c)
       \/ /\ Jobs!CancelAbandoned(c)
          /\ IF canceller[c].pc = "gathering" THEN Strike(c) ELSE UNCHANGED struck
    /\ UNCHANGED vars

\* _run_job resumes from its first persist and calls run_process.
RunStarts(j) ==
    /\ \/ Jobs!RunMarked(j) /\ Acquire(j)
       \/ Jobs!RunRefused(j) /\ (Refuse(j) \/ UNCHANGED vars)
    /\ UNCHANGED struck

\* What run_process does at its next resumption, unless a CancelledError is
\* pending, and when one is.
Proceed(j) ==
    \/ Spawned(j) \/ SpawnFails(j) \/ WakeOnExit(j) \/ WakeOnLimit(j)
    \/ LimitTerminated(j) \/ Drained(j) \/ Timeout(j) \/ Terminated(j)

Break(j) == SpawnCancelled(j) \/ Cancel(j) \/ CancelAgain(j)

\* The statuses _apply_result chooses from, for each reason of a result.
StatusesOf(r) ==
    CASE r = "exited" -> Outcomes \cap {"succeeded", "failed"}
      [] r \in {"timeout", "output_limit"} -> Outcomes \cap {r}
      [] OTHER -> {}

\* _run_job goes on in the same step when run_process returns or raises.
RunReported(j) ==
    \/ pc'[j] # "returned" /\ UNCHANGED jobVars
    \/ /\ pc'[j] = "returned"
       /\ \/ /\ task[j] = "executing"
             /\ \E s \in StatusesOf(reason'[j]) : Jobs!Conclude(j, s, "saving_result")
          \/ reason'[j] = "unstarted" /\ Jobs!RunRaises(j)
          \/ reason'[j] = "cancelled" /\ Jobs!RunCancelled(j)

RunStep(j) ==
    /\ task[j] \in {"executing", "unwinding"}
    /\ IF j \in struck THEN Break(j) ELSE Proceed(j)
    /\ struck' = struck \ {j}
    /\ RunReported(j)

\* The readers of a run, its child and the descendants of its child.
Outside(c) ==
    /\ \/ \E s \in Streams : Read(c, s) \/ ReadEof(c, s)
       \/ Environment(c)
    /\ UNCHANGED <<jobVars, struck>>

\* A call of the run_process tool; its client may give it up.
DirectStep(d) ==
    /\ \/ Refuse(d) \/ Acquire(d)
       \/ Proceed(d) \/ Break(d)
    /\ UNCHANGED <<jobVars, struck>>

ManagedNext ==
    \/ Managing
    \/ \E c \in Cancellers : Cancelling(c)
    \/ \E j \in JobIds : RunStarts(j) \/ RunStep(j)
    \/ \E d \in Direct : DirectStep(d)
    \/ \E c \in Calls : Outside(c)

ManagedSpec == ManagedInit /\ [][ManagedNext]_managedVars

Alone(A) == A /\ UNCHANGED <<vars, struck>>

\* The loop takes the queued steps, the worker threads end, and the timers of
\* run_process expire.  Nothing is assumed of children, descendants or clients.
ManagedFairness ==
    /\ \A j \in JobIds :
          /\ WF_managedVars(Alone(Jobs!CreateTask(j) \/ Jobs!RunBegins(j) \/ Jobs!RunFinishes(j)))
          /\ WF_managedVars(RunStarts(j))
          /\ WF_managedVars(RunStep(j))
          /\ \A w \in Jobs!Writers : WF_managedVars(Alone(Jobs!WriteEnds(j, w)))
    /\ \A c \in Cancellers :
          WF_managedVars(Cancelling(c) \/ Alone(Jobs!CancelReply(c)))

ManagedFairSpec == ManagedSpec /\ ManagedFairness

-----------------------------------------------------------------------------
(* Properties *)

\* A client that has been told that its cancellation was accepted, or sees a
\* terminal status, can rely on it: the run of the job is over, its slot is free
\* for another one and its child has been signalled, whichever of exit, timeout
\* and cancellation came first and however often they met.
OutcomeMeansStopped ==
    \A j \in JobIds :
        \/ j \in accepted
        \/ j \in jobs /\ Jobs!VisibleStatus(j) \in Jobs!TerminalStatuses
        => j \notin Holding /\ proc[j] # "alive" /\ task[j] # "unwinding"

\* run_process never holds up a job for ever: the task that supervises a job always
\* comes to its next step, because timers expire, however its child, the descendants
\* that hold its pipes and its cancellers behave.
SupervisionIsFair == \A j \in JobIds : WF_jobVars(Jobs!Supervise(j))

\* Every admitted job reaches a published terminal status or leaves the history,
\* unless its start was abandoned or a cancellation ended its task (line 459); and
\* every cancel_job is answered or given up.
JobsSettle ==
    /\ \A j \in JobIds :
          j \in Jobs!Active ~> \/ j \notin jobs
                               \/ Jobs!VisibleStatus(j) \in Jobs!TerminalStatuses
                               \/ task[j] = "never"
                               \/ task[j] = "done" /\ j \in requested
    /\ \A c \in Cancellers :
          canceller[c].pc = "saving" ~> canceller[c].pc \in {"idle", "gone"}

=============================================================================
