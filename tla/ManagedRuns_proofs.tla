------------------------- MODULE ManagedRuns_proofs --------------------------
(***************************************************************************)
(* Proofs about ManagedRuns, for every number of jobs, direct calls and    *)
(* cancel requests: the composition is a behaviour of both of its          *)
(* components, so that what is proved of either of them holds in it, and a *)
(* job that clients see as over has no run any more.                       *)
(***************************************************************************)
EXTENDS ManagedRuns, Execution_proofs

-----------------------------------------------------------------------------
(* The composition implements its components.                              *)

LEMMA ExecutionStep == [ManagedNext]_managedVars => [Next]_vars
<1> SUFFICES ASSUME [ManagedNext]_managedVars PROVE [Next]_vars
  OBVIOUS
<1> USE ManagedAssumption DEF Next, Step
<1>1. CASE Managing \/ \E c \in Cancellers : Cancelling(c)
  BY <1>1 DEF Managing, Cancelling
<1>2. ASSUME NEW j \in JobIds, RunStarts(j) PROVE [Next]_vars
  BY <1>2 DEF RunStarts
<1>3. ASSUME NEW c \in Calls, Proceed(c) \/ Break(c) PROVE [Next]_vars
  BY <1>3 DEF Proceed, Break
<1>4. ASSUME NEW j \in JobIds, RunStep(j) PROVE [Next]_vars
  BY <1>3, <1>4 DEF RunStep
<1>5. ASSUME NEW d \in Direct, DirectStep(d) PROVE [Next]_vars
  BY <1>3, <1>5 DEF DirectStep, Direct
<1>6. ASSUME NEW c \in Calls, Outside(c) PROVE [Next]_vars
  BY <1>6 DEF Outside
<1>7. CASE UNCHANGED managedVars
  BY <1>7 DEF managedVars
<1> QED BY <1>1, <1>2, <1>4, <1>5, <1>6, <1>7 DEF ManagedNext

\* Whatever the job manager does with its runs, run_process runs as specified: its
\* slots, its budget and its captures are sound for managed and direct calls alike.
THEOREM RunsAsExecution == ManagedSpec => Spec
<1>1. ManagedInit => Init
  BY DEF ManagedInit
<1> QED BY <1>1, ExecutionStep, PTL DEF ManagedSpec, Spec

\* What run_process reports, _run_job records: each outcome is one the job manager
\* may set, at a moment at which it may.
LEMMA ReportedIsConcluded ==
    ASSUME NEW j \in JobIds, RunReported(j)
    PROVE  \/ UNCHANGED jobVars
           \/ Jobs!RunReturns(j) \/ Jobs!RunRaises(j) \/ Jobs!RunCancelled(j)
<1>1. \A r : StatusesOf(r) \subseteq Outcomes
  BY DEF StatusesOf
<1> QED BY <1>1 DEF RunReported, Jobs!RunReturns

LEMMA JobsStep == [ManagedNext]_managedVars => [Jobs!Next]_(Jobs!vars)
<1> SUFFICES ASSUME [ManagedNext]_managedVars PROVE [Jobs!Next]_(Jobs!vars)
  OBVIOUS
<1> USE DEF JobIds
<1>1. CASE Managing
  BY <1>1 DEF Managing, Manage, Request, Jobs!Next
<1>2. ASSUME NEW c \in Cancellers, Cancelling(c) PROVE Jobs!Next
  BY <1>2 DEF Cancelling, Jobs!Next
<1>3. ASSUME NEW j \in JobIds, RunStarts(j) PROVE Jobs!Next
  BY <1>3 DEF RunStarts, Jobs!Next
<1>4. UNCHANGED jobVars => UNCHANGED Jobs!vars
  BY DEF jobVars, Jobs!vars
<1>5. ASSUME NEW j \in JobIds, RunStep(j) PROVE [Jobs!Next]_(Jobs!vars)
  BY <1>4, <1>5, ReportedIsConcluded DEF RunStep, Jobs!Next
<1>6. CASE \/ \E d \in Direct : DirectStep(d)
           \/ \E c \in Calls : Outside(c)
           \/ UNCHANGED managedVars
  BY <1>4, <1>6 DEF DirectStep, Outside, managedVars
<1> QED BY <1>1, <1>2, <1>3, <1>5, <1>6 DEF ManagedNext

\* However the runs of its jobs start, end and are interrupted, the job manager
\* runs as specified.
THEOREM RunsAsJobs == ManagedSpec => Jobs!Spec
<1>1. ManagedInit => Jobs!Init
  BY DEF ManagedInit
<1> QED BY <1>1, JobsStep, PTL DEF ManagedSpec, Jobs!Spec

\* The slots of the project are balanced although managed jobs and direct calls
\* share them.
THEOREM SharedSlotsBalanced == ManagedSpec => []SlotsBalanced
  BY RunsAsExecution, SlotsAlwaysBalanced, PTL

\* No run ends leaving its child unsignalled, however it was cancelled.
THEOREM ManagedChildIsSignalled == ManagedSpec => []ChildrenSignalled
  BY RunsAsExecution, ReturnedChildIsSignalled, PTL

-----------------------------------------------------------------------------
(* The task of a job and the run it awaits.                                *)

Early == {"none", "never", "created", "marking"}
Running == {"executing", "unwinding"}
Late == {"saving_result", "saving_error", "done"}

\* The task of j is in run_process exactly while the run of j is in progress, and
\* a cancellation is accepted only when the task is over.
Linked(j) ==
    /\ task[j] \in Early => pc[j] = "idle"
    /\ task[j] \in Running => pc[j] \notin {"idle", "returned"}
    /\ task[j] \in Late => pc[j] \in {"idle", "returned"}
    /\ j \in accepted => task[j] = "done"

LinkInv ==
    /\ task \in [JobIds -> Early \cup Running \cup Late]
    /\ \A j \in JobIds : Linked(j)

\* What a step that is none of a run may do to the task of j.
Moves(j) ==
    /\ \/ task'[j] = task[j]
       \/ task[j] \in Early /\ task'[j] \in Early \cup Late
       \/ task[j] \in Running /\ task'[j] \in Running
       \/ task[j] \in {"saving_result", "saving_error"} /\ task'[j] = "done"
    /\ j \in accepted' => j \in accepted \/ task[j] = "done"

LEMMA CancelTaskMoves ==
    ASSUME task \in [JobIds -> Early \cup Running \cup Late],
           NEW i, NEW dropped, Jobs!CancelTask(i, dropped), NEW j \in JobIds
    PROVE  \/ task'[j] = task[j]
           \/ task[j] \in Early /\ task'[j] \in Late
           \/ task[j] \in Running /\ task'[j] \in Running
           \/ task[j] \in {"saving_result", "saving_error"} /\ task'[j] = "done"
  BY DEF Jobs!CancelTask, Early, Running, Late

LEMMA CancellingMoves ==
    ASSUME LinkInv, NEW c \in Cancellers, Cancelling(c), NEW j \in JobIds
    PROVE  Moves(j)
<1>1. UNCHANGED accepted
  BY DEF Cancelling, Jobs!CancelDeliver, Jobs!CancelAbandoned, Jobs!clientVars
<1>2. \/ UNCHANGED task
      \/ \E i, dropped : Jobs!CancelTask(i, dropped)
  BY DEF Cancelling, Jobs!CancelDeliver, Jobs!CancelAbandoned
<1> QED BY <1>1, <1>2, CancelTaskMoves DEF LinkInv, Moves

LEMMA ManagingMoves ==
    ASSUME LinkInv, Managing, NEW j \in JobIds
    PROVE  Moves(j)
<1> USE DEF LinkInv, Moves
<1>1. CASE Jobs!StartJob
  BY <1>1 DEF Jobs!StartJob, Jobs!clientVars
<1>2. ASSUME NEW i \in JobIds,
             Jobs!CreateTask(i) \/ Jobs!RunBegins(i) \/ Jobs!StartAbandoned(i)
      PROVE  Moves(j)
  BY <1>2 DEF Jobs!CreateTask, Jobs!RunBegins, Jobs!StartAbandoned, Jobs!clientVars, Early
<1>3. ASSUME NEW i \in JobIds, Jobs!RunFinishes(i)
      PROVE  Moves(j)
  BY <1>3 DEF Jobs!RunFinishes, Jobs!clientVars
<1>4. ASSUME NEW i \in JobIds, NEW w, Jobs!WriteEnds(i, w)
      PROVE  Moves(j)
  BY <1>4 DEF Jobs!WriteEnds, Jobs!loopVars, Jobs!clientVars
<1>5. ASSUME NEW i \in JobIds, NEW c,
             Jobs!Report(i) \/ Jobs!CancelRefused(c, i) \/ Jobs!CancelRequest(c, i)
      PROVE  Moves(j)
  BY <1>5 DEF Jobs!Report, Jobs!CancelRefused, Jobs!CancelRequest, Jobs!loopVars
<1>6. ASSUME NEW i \in JobIds, Jobs!Report(i)
      PROVE  Moves(j)
  BY <1>6 DEF Jobs!Report, Jobs!loopVars
<1>7. ASSUME NEW c \in Cancellers, Jobs!CancelReply(c)
      PROVE  Moves(j)
  BY <1>7 DEF Jobs!CancelReply, Jobs!Gathered, Jobs!loopVars
<1> QED BY <1>1, <1>2, <1>3, <1>4, <1>5, <1>6, <1>7 DEF Managing, Manage, Request

\* The type of record.task.
LEMMA TaskTyped ==
    ASSUME LinkInv, [ManagedNext]_managedVars
    PROVE  task' \in [JobIds -> Early \cup Running \cup Late]
<1> USE DEF LinkInv, Early, Running, Late
<1>1. CASE Managing
  BY <1>1 DEF Managing, Manage, Request, Jobs!StartJob, Jobs!CreateTask, Jobs!RunBegins,
     Jobs!StartAbandoned, Jobs!RunFinishes, Jobs!WriteEnds, Jobs!Report,
     Jobs!CancelRefused, Jobs!CancelRequest, Jobs!CancelReply, Jobs!loopVars
<1>2. ASSUME NEW c \in Cancellers, Cancelling(c)
      PROVE  task' \in [JobIds -> Early \cup Running \cup Late]
  BY <1>2 DEF Cancelling, Jobs!CancelDeliver, Jobs!CancelAbandoned, Jobs!CancelTask
<1>3. ASSUME NEW j \in JobIds, RunStarts(j)
      PROVE  task' \in [JobIds -> Early \cup Running \cup Late]
  BY <1>3 DEF RunStarts, Jobs!RunMarked, Jobs!RunRefused
<1>4. ASSUME NEW j \in JobIds, RunStep(j)
      PROVE  task' \in [JobIds -> Early \cup Running \cup Late]
  BY <1>4 DEF RunStep, RunReported, Jobs!Conclude, Jobs!RunRaises, Jobs!RunCancelled, jobVars
<1>5. CASE UNCHANGED task
  BY <1>5
<1>6. ASSUME \/ \E d \in Direct : DirectStep(d)
             \/ \E c \in Calls : Outside(c)
             \/ UNCHANGED managedVars
      PROVE  UNCHANGED task
  BY <1>6 DEF DirectStep, Outside, managedVars, jobVars
<1> QED BY <1>1, <1>2, <1>3, <1>4, <1>5, <1>6 DEF ManagedNext

\* A step of run_process is a step of one call, which is running or over after it.
LEMMA CallMoves ==
    ASSUME TypeOK, NEW c \in Calls, Proceed(c) \/ Break(c)
    PROVE  /\ \A k \in Calls \ {c} : pc'[k] = pc[k]
           /\ pc'[c] # "idle"
<1> USE DEF TypeOK, Finish
<1>1. CASE Break(c)
  BY <1>1 DEF Break, SpawnCancelled, Cancel, CancelAgain
<1>2. CASE Spawned(c) \/ SpawnFails(c) \/ WakeOnExit(c)
  BY <1>2 DEF Spawned, SpawnFails, WakeOnExit
<1>3. CASE WakeOnLimit(c) \/ LimitTerminated(c) \/ Drained(c)
  BY <1>3 DEF WakeOnLimit, LimitTerminated, Drained
<1>4. CASE Timeout(c) \/ Terminated(c)
  BY <1>4 DEF Timeout, Terminated
<1> QED BY <1>1, <1>2, <1>3, <1>4 DEF Proceed

\* A job whose task is over has no run, and no child.
LEMMA MovesKeep ==
    ASSUME LinkInv, NEW j \in JobIds, Moves(j), pc'[j] = pc[j]
    PROVE  Linked(j)'
<1>1. Linked(j)
  BY DEF LinkInv
<1> QED BY <1>1 DEF Moves, Linked, Early, Running, Late

LEMMA LinkStep == LinkInv /\ TypeOK /\ [ManagedNext]_managedVars => LinkInv'
<1> SUFFICES ASSUME LinkInv, TypeOK, [ManagedNext]_managedVars, NEW j \in JobIds
             PROVE  Linked(j)'
  BY TaskTyped DEF LinkInv
<1> USE ManagedAssumption
<1>0. Linked(j) /\ j \in Calls
  BY DEF LinkInv
<1>1. CASE Managing \/ \E c \in Cancellers : Cancelling(c)
  <2>1. pc' = pc
    BY <1>1 DEF Managing, Cancelling, vars
  <2> QED BY <1>1, <2>1, ManagingMoves, CancellingMoves, MovesKeep
<1>2. ASSUME NEW i \in JobIds, RunStarts(i) PROVE Linked(j)'
  <2>1. /\ UNCHANGED accepted
        /\ task[i] = "marking" /\ pc[i] = "idle"
        /\ \A k \in JobIds \ {i} : task'[k] = task[k] /\ pc'[k] = pc[k]
        /\ \/ task'[i] = "executing" /\ pc'[i] = "spawning"
           \/ task'[i] = "saving_error" /\ pc'[i] \in {"idle", "returned"}
    <3>1. task[i] = "marking" /\ UNCHANGED accepted
      BY <1>2 DEF RunStarts, Jobs!RunMarked, Jobs!RunRefused, Jobs!clientVars
    <3>2. pc[i] = "idle"
      BY <3>1 DEF LinkInv, Linked, Early
    <3>3. CASE Jobs!RunMarked(i) /\ Acquire(i)
      BY <3>1, <3>2, <3>3 DEF Jobs!RunMarked, Acquire, LinkInv, TypeOK
    <3>4. CASE Jobs!RunRefused(i) /\ (Refuse(i) \/ UNCHANGED vars)
      BY <3>1, <3>2, <3>4 DEF Jobs!RunRefused, Refuse, vars, LinkInv, TypeOK
    <3> QED BY <1>2, <3>1, <3>2, <3>3, <3>4 DEF RunStarts
  <2> QED BY <1>0, <2>1 DEF Linked, Early, Running, Late
<1>3. ASSUME NEW i \in JobIds, RunStep(i) PROVE Linked(j)'
  <2>1. task[i] \in Running
    BY <1>3 DEF RunStep, Running
  <2>2. (\A k \in Calls \ {i} : pc'[k] = pc[k]) /\ pc'[i] # "idle"
    BY <1>3, CallMoves DEF RunStep
  <2>3. /\ UNCHANGED accepted
        /\ \A k \in JobIds \ {i} : task'[k] = task[k]
        /\ \/ task'[i] = task[i] /\ pc'[i] # "returned"
           \/ task'[i] \in {"saving_result", "saving_error"} /\ pc'[i] = "returned"
    BY <1>3 DEF RunStep, RunReported, Jobs!Conclude, Jobs!RunRaises, Jobs!RunCancelled,
       jobVars, Jobs!clientVars, LinkInv
  <2>4. CASE j # i
    BY <1>0, <2>2, <2>3, <2>4 DEF Linked
  <2>5. CASE j = i
    BY <1>0, <2>1, <2>2, <2>3, <2>5 DEF Linked, Early, Running, Late
  <2> QED BY <2>4, <2>5
<1>4. ASSUME NEW d \in Direct, DirectStep(d) PROVE Linked(j)'
  <2>1. UNCHANGED <<task, accepted>>
    BY <1>4 DEF DirectStep, jobVars
  <2>2. d \in Calls /\ j # d
    BY DEF Direct
  <2>3. pc'[j] = pc[j]
    <3>1. CASE Refuse(d) \/ Acquire(d)
      BY <1>0, <2>2, <3>1 DEF Refuse, Acquire, TypeOK
    <3>2. CASE Proceed(d) \/ Break(d)
      BY <1>0, <2>2, <3>2, CallMoves
    <3> QED BY <1>4, <3>1, <3>2 DEF DirectStep
  <2> QED BY <1>0, <2>1, <2>3 DEF Linked
<1>5. ASSUME NEW c \in Calls, Outside(c) PROVE Linked(j)'
  <2>1. UNCHANGED <<task, accepted, pc>>
    BY <1>5 DEF Outside, jobVars, Read, ReadEof, Environment, Write, Fork, Exit, Reap,
       DescendantExit
  <2> QED BY <1>0, <2>1 DEF Linked
<1>6. CASE UNCHANGED managedVars
  BY <1>0, <1>6 DEF managedVars, vars, jobVars, Linked
<1> QED BY <1>1, <1>2, <1>3, <1>4, <1>5, <1>6 DEF ManagedNext

LEMMA LinkInductive == ManagedSpec => [](IndInv /\ LinkInv)
<1>1. ManagedInit => LinkInv
  BY ManagedAssumption
  DEF ManagedInit, Init, Jobs!Init, LinkInv, Linked, Early, Running, Late, JobIds
<1>2. IndInv => TypeOK
  BY DEF IndInv
<1>3. ManagedSpec => []IndInv
  BY RunsAsExecution, Inductive, PTL
<1> QED BY <1>1, <1>2, <1>3, LinkStep, PTL DEF ManagedSpec

\* A client that has been told that its cancellation was accepted, or sees a
\* terminal status, can rely on it: the run of the job is over, its slot is free
\* and its child has been signalled.
THEOREM OutcomeStopsRun == ManagedSpec => []OutcomeMeansStopped
<1>1. IndInv /\ LinkInv => OutcomeMeansStopped
  <2> SUFFICES ASSUME IndInv, LinkInv, NEW j \in JobIds,
                      \/ j \in accepted
                      \/ j \in jobs /\ Jobs!VisibleStatus(j) \in Jobs!TerminalStatuses
               PROVE  j \notin Holding /\ proc[j] # "alive" /\ task[j] # "unwinding"
    BY DEF OutcomeMeansStopped
  <2>1. j \in Calls /\ Linked(j)
    BY ManagedAssumption DEF LinkInv
  <2>2. "running" \notin Jobs!TerminalStatuses
    BY ManagedAssumption DEF Jobs!TerminalStatuses
  <2>3. task[j] \in {"none", "never", "done"}
    BY <2>1, <2>2 DEF Linked, Jobs!VisibleStatus
  <2>4. pc[j] \in {"idle", "returned"}
    BY <2>1, <2>3 DEF Linked, Early, Late
  <2>5. proc[j] # "alive"
    BY <2>1, <2>4 DEF IndInv, Orderly
  <2> QED BY <2>3, <2>4, <2>5 DEF Holding
<1> QED BY <1>1, LinkInductive, PTL

=============================================================================
