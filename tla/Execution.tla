------------------------------ MODULE Execution ------------------------------
(***************************************************************************)
(* ExecutionService.run_process (tools/execution.py) for one project: the  *)
(* concurrency limit, the life of the child process, the capture of its    *)
(* output under one byte budget, and the ways out: exit, output limit,     *)
(* timeout and cancellation, in every order.                               *)
(*                                                                         *)
(* A call is one run_process; its validation and executable resolution     *)
(* (lines 427-456) precede every state change and are not represented.     *)
(* The child, its descendants and the pipes belong to the operating        *)
(* system: any of them may run, write, fork or end between two steps of    *)
(* the event loop.  An output byte is a unit of a counter.                 *)
(***************************************************************************)
EXTENDS Naturals, FiniteSets

CONSTANTS
    Calls,          \* run_process calls
    MaxConcurrent,  \* max_concurrent_jobs of the project
    MaxOutput,      \* max_output_bytes of the project
    MaxWrite,       \* bound on the bytes a child writes to one stream
    Writing,        \* bound: the calls whose child may write or fork
    Posix           \* os.name == "posix": a kill reaches the process group

ASSUME LimitsAssumption ==
    /\ MaxConcurrent \in Nat \ {0}
    /\ MaxOutput \in Nat \ {0}
    /\ MaxWrite \in Nat
    /\ Posix \in BOOLEAN
    /\ IsFiniteSet(Calls)

Streams == {"stdout", "stderr"}

\* Where run_process is suspended: not called; in create_subprocess_exec; in
\* asyncio.wait; in _terminate_process after the limit; in the gather of the
\* readers; in _terminate_process after a timeout, or a cancellation; returned.
PcStates == {"idle", "spawning", "collecting", "limiting", "draining",
             "timing_out", "aborting", "returned"}

\* The direct child: alive; alive with a SIGKILL pending; dead and not yet
\* reaped; reaped, so that returncode is known.
ProcStates == {"none", "alive", "killed", "zombie", "reaped"}

Reasons == {"none", "busy", "unstarted", "exited", "output_limit", "timeout", "cancelled"}

VARIABLES
    free,        \* value of the project's semaphore
    pc, reason,  \* of each call
    proc,        \* the direct child of each call
    descendant,  \* a descendant that inherited the pipes is alive
    written,     \* bytes written to each pipe
    taken,       \* bytes the reader has read from each pipe
    captured,    \* bytes appended to capture.stdout and capture.stderr
    remaining,   \* capture.remaining
    limit,       \* capture.limit_reached
    reading      \* the streams whose _capture_stream has not returned

vars == <<free, pc, reason, proc, descendant, written, taken, captured,
          remaining, limit, reading>>

captureVars == <<taken, captured, remaining, limit, reading>>
osVars == <<proc, descendant, written>>

TypeOK ==
    /\ free \in 0..MaxConcurrent
    /\ pc \in [Calls -> PcStates]
    /\ reason \in [Calls -> Reasons]
    /\ proc \in [Calls -> ProcStates]
    /\ descendant \in [Calls -> BOOLEAN]
    /\ written \in [Calls -> [Streams -> 0..MaxWrite]]
    /\ taken \in [Calls -> [Streams -> 0..MaxWrite]]
    /\ captured \in [Calls -> [Streams -> 0..MaxOutput]]
    /\ remaining \in [Calls -> 0..MaxOutput]
    /\ limit \in [Calls -> BOOLEAN]
    /\ reading \in [Calls -> SUBSET Streams]

-----------------------------------------------------------------------------
\* The calls between semaphore.acquire and semaphore.release.
Holding == {c \in Calls : pc[c] \notin {"idle", "returned"}}

\* Fault: the timeout covers asyncio.wait only.
SupervisedWait(c) == pc[c] = "collecting"

\* _collect_process is running, under wait_for.
Supervised(c) == pc[c] \in {"collecting", "limiting", "draining"}

\* returncode is not None.
Reaped(c) == proc[c] = "reaped"

\* No process holds the write end of the pipes.
PipesClosed(c) == proc[c] \in {"none", "zombie", "reaped"} /\ ~descendant[c]

Unread(c, s) == written[c][s] - taken[c][s]

\* Fault: no signal is sent.
TerminateWeakly(c) == UNCHANGED <<proc, descendant>>

\* _terminate_process up to its await: nothing if returncode is known, else a
\* SIGKILL to the process group (to the child alone on other systems).
Terminate(c) ==
    IF Reaped(c) THEN UNCHANGED <<proc, descendant>>
    ELSE /\ proc' = [proc EXCEPT ![c] = IF @ = "alive" THEN "killed" ELSE @]
         /\ descendant' = IF Posix THEN [descendant EXCEPT ![c] = FALSE] ELSE descendant

\* Fault: the slot is released by the handler and by the finally clause.
FinishTwice(c, r) ==
    /\ pc' = [pc EXCEPT ![c] = "returned"]
    /\ reason' = [reason EXCEPT ![c] = r]
    /\ free' = free + 2

\* The semaphore is released and the call ends for reason r.
Finish(c, r) ==
    /\ pc' = [pc EXCEPT ![c] = "returned"]
    /\ reason' = [reason EXCEPT ![c] = r]
    /\ free' = free + 1

\* The tasks of _collect_process are cancelled: no reader is left.
StopReaders(c) ==
    /\ reading' = [reading EXCEPT ![c] = {}]
    /\ UNCHANGED <<taken, captured, remaining, limit>>

-----------------------------------------------------------------------------
Init ==
    /\ free = MaxConcurrent
    /\ pc = [c \in Calls |-> "idle"]
    /\ reason = [c \in Calls |-> "none"]
    /\ proc = [c \in Calls |-> "none"]
    /\ descendant = [c \in Calls |-> FALSE]
    /\ written = [c \in Calls |-> [s \in Streams |-> 0]]
    /\ taken = [c \in Calls |-> [s \in Streams |-> 0]]
    /\ captured = [c \in Calls |-> [s \in Streams |-> 0]]
    /\ remaining = [c \in Calls |-> MaxOutput]
    /\ limit = [c \in Calls |-> FALSE]
    /\ reading = [c \in Calls |-> {}]

\* semaphore.locked(): the call fails at once, it never waits for a slot.
Refuse(c) ==
    /\ pc[c] = "idle"
    /\ free = 0
    /\ pc' = [pc EXCEPT ![c] = "returned"]
    /\ reason' = [reason EXCEPT ![c] = "busy"]
    /\ UNCHANGED <<free, osVars, captureVars>>

\* The semaphore is free: acquire does not suspend, create_subprocess_exec does.
Acquire(c) ==
    /\ pc[c] = "idle"
    /\ free > 0
    /\ free' = free - 1
    /\ pc' = [pc EXCEPT ![c] = "spawning"]
    /\ UNCHANGED <<reason, osVars, captureVars>>

\* create_subprocess_exec returns, and _collect_process starts its readers.
Spawned(c) ==
    /\ pc[c] = "spawning"
    /\ proc' = [proc EXCEPT ![c] = "alive"]
    /\ pc' = [pc EXCEPT ![c] = "collecting"]
    /\ reading' = [reading EXCEPT ![c] = Streams]
    /\ UNCHANGED <<free, reason, descendant, written, taken, captured, remaining, limit>>

\* Fault: a failed start leaves the semaphore taken.
SpawnFailsHolding(c) ==
    /\ pc[c] = "spawning"
    /\ pc' = [pc EXCEPT ![c] = "returned"]
    /\ reason' = [reason EXCEPT ![c] = "unstarted"]
    /\ UNCHANGED <<free, osVars, captureVars>>

SpawnFails(c) ==
    /\ pc[c] = "spawning"
    /\ Finish(c, "unstarted")
    /\ UNCHANGED <<osVars, captureVars>>

\* Cancelled while spawning: asyncio closes the transport, which kills a child
\* that was already created, waits for it, and raises.
SpawnCancelled(c) ==
    /\ pc[c] = "spawning"
    /\ Finish(c, "cancelled")
    /\ UNCHANGED <<osVars, captureVars>>

\* Fault: reaching the budget exactly counts as exceeding it.
AppendStrict(c, s, n) ==
    /\ captured' = [captured EXCEPT ![c][s] = @ + (IF n >= remaining[c] THEN remaining[c] ELSE n)]
    /\ remaining' = [remaining EXCEPT ![c] = IF n >= @ THEN 0 ELSE @ - n]
    /\ limit' = [limit EXCEPT ![c] = @ \/ n >= remaining[c]]
    /\ reading' = IF n >= remaining[c] THEN [reading EXCEPT ![c] = @ \ {s}] ELSE reading

\* Fault: a truncated chunk does not use up the budget.
AppendUncharged(c, s, n) ==
    /\ captured' = [captured EXCEPT ![c][s] = @ + (IF n > remaining[c] THEN remaining[c] ELSE n)]
    /\ remaining' = [remaining EXCEPT ![c] = IF n > @ THEN @ ELSE @ - n]
    /\ limit' = [limit EXCEPT ![c] = @ \/ n > remaining[c]]
    /\ reading' = IF n > remaining[c] THEN [reading EXCEPT ![c] = @ \ {s}] ELSE reading

\* A chunk of n bytes is appended as far as the budget goes; a reader with more
\* than the budget sets limit_reached and returns.
Append(c, s, n) ==
    /\ captured' = [captured EXCEPT ![c][s] = @ + (IF n > remaining[c] THEN remaining[c] ELSE n)]
    /\ remaining' = [remaining EXCEPT ![c] = IF n > @ THEN 0 ELSE @ - n]
    /\ limit' = [limit EXCEPT ![c] = @ \/ n > remaining[c]]
    /\ reading' = IF n > remaining[c] THEN [reading EXCEPT ![c] = @ \ {s}] ELSE reading

\* _capture_stream reads a chunk.
Read(c, s) ==
    /\ s \in reading[c]
    /\ \E n \in 1..Unread(c, s) :
          /\ taken' = [taken EXCEPT ![c][s] = @ + n]
          /\ Append(c, s, n)
    /\ UNCHANGED <<free, pc, reason, osVars>>

\* _capture_stream reads end of file.
ReadEof(c, s) ==
    /\ s \in reading[c]
    /\ Unread(c, s) = 0
    /\ PipesClosed(c)
    /\ reading' = [reading EXCEPT ![c] = @ \ {s}]
    /\ UNCHANGED <<free, pc, reason, osVars, taken, captured, remaining, limit>>

\* asyncio.wait returns because the child was reaped; limit_task, a task of its
\* own, need not be done although limit_reached is set.
WakeOnExit(c) ==
    /\ pc[c] = "collecting"
    /\ Reaped(c)
    /\ pc' = [pc EXCEPT ![c] = "draining"]
    /\ UNCHANGED <<free, reason, osVars, captureVars>>

\* asyncio.wait returns with limit_task done.
WakeOnLimit(c) ==
    /\ pc[c] = "collecting"
    /\ limit[c]
    /\ Terminate(c)
    /\ pc' = [pc EXCEPT ![c] = IF Reaped(c) THEN "draining" ELSE "limiting"]
    /\ UNCHANGED <<free, reason, written, captureVars>>

\* _terminate_process returns: the child was reaped or the grace period is over.
LimitTerminated(c) ==
    /\ pc[c] = "limiting"
    /\ pc' = [pc EXCEPT ![c] = "draining"]
    /\ UNCHANGED <<free, reason, osVars, captureVars>>

\* Fault: the limit is not looked at again after the readers have returned.
DrainedReasonEarly(c) == "exited"

DrainedReason(c) == IF limit[c] THEN "output_limit" ELSE "exited"

\* Both readers have returned; the limit may have been reached since the exit.
Drained(c) ==
    /\ pc[c] = "draining"
    /\ reading[c] = {}
    /\ Finish(c, DrainedReason(c))
    /\ UNCHANGED <<osVars, captureVars>>

\* wait_for expires: _collect_process is cancelled, then the child terminated.
Timeout(c) ==
    /\ Supervised(c)
    /\ StopReaders(c)
    /\ Terminate(c)
    /\ IF Reaped(c) THEN Finish(c, "timeout")
       ELSE pc' = [pc EXCEPT ![c] = "timing_out"] /\ UNCHANGED <<free, reason>>
    /\ UNCHANGED written

\* The caller cancels run_process (cancel_job, or a client that went away).
Cancel(c) ==
    /\ Supervised(c)
    /\ StopReaders(c)
    /\ Terminate(c)
    /\ IF Reaped(c) THEN Finish(c, "cancelled")
       ELSE pc' = [pc EXCEPT ![c] = "aborting"] /\ UNCHANGED <<free, reason>>
    /\ UNCHANGED written

\* _terminate_process returns after a timeout or a cancellation: the child was
\* reaped, or the five seconds of grace are over.
Terminated(c) ==
    /\ \/ pc[c] = "timing_out" /\ Finish(c, "timeout")
       \/ pc[c] = "aborting" /\ Finish(c, "cancelled")
    /\ UNCHANGED <<osVars, captureVars>>

\* A cancellation that lands in the wait of _terminate_process ends it.
CancelAgain(c) ==
    /\ pc[c] \in {"timing_out", "aborting"}
    /\ Finish(c, "cancelled")
    /\ UNCHANGED <<osVars, captureVars>>

-----------------------------------------------------------------------------
(* The operating system.                                                   *)

\* The child or a descendant writes to a pipe.
Write(c, s) ==
    /\ c \in Writing
    /\ proc[c] = "alive" \/ descendant[c]
    /\ written[c][s] < MaxWrite
    /\ written' = [written EXCEPT ![c][s] = @ + 1]
    /\ UNCHANGED <<free, pc, reason, proc, descendant, captureVars>>

\* The child starts a descendant in its process group.
Fork(c) ==
    /\ c \in Writing
    /\ proc[c] = "alive"
    /\ ~descendant[c]
    /\ descendant' = [descendant EXCEPT ![c] = TRUE]
    /\ UNCHANGED <<free, pc, reason, proc, written, captureVars>>

\* The child exits, or a pending SIGKILL takes effect.
Exit(c) ==
    /\ proc[c] \in {"alive", "killed"}
    /\ proc' = [proc EXCEPT ![c] = "zombie"]
    /\ UNCHANGED <<free, pc, reason, descendant, written, captureVars>>

\* The child watcher of asyncio collects the exit status.
Reap(c) ==
    /\ proc[c] = "zombie"
    /\ proc' = [proc EXCEPT ![c] = "reaped"]
    /\ UNCHANGED <<free, pc, reason, descendant, written, captureVars>>

DescendantExit(c) ==
    /\ descendant[c]
    /\ descendant' = [descendant EXCEPT ![c] = FALSE]
    /\ UNCHANGED <<free, pc, reason, proc, written, captureVars>>

\* The steps of the event loop for a call.
Step(c) ==
    \/ Refuse(c) \/ Acquire(c)
    \/ Spawned(c) \/ SpawnFails(c) \/ SpawnCancelled(c)
    \/ \E s \in Streams : Read(c, s) \/ ReadEof(c, s)
    \/ WakeOnExit(c) \/ WakeOnLimit(c) \/ LimitTerminated(c) \/ Drained(c)
    \/ Timeout(c) \/ Cancel(c) \/ Terminated(c) \/ CancelAgain(c)

Environment(c) ==
    \/ \E s \in Streams : Write(c, s)
    \/ Fork(c) \/ Exit(c) \/ Reap(c) \/ DescendantExit(c)

Next == \E c \in Calls : Step(c) \/ Environment(c)

Spec == Init /\ [][Next]_vars

\* The loop runs what is ready, the timer of wait_for and the grace period
\* expire, and creating a process succeeds or fails.  Nothing is assumed of the
\* child, its descendants or the callers.
FairStep(c) ==
    /\ WF_vars(Spawned(c) \/ SpawnFails(c) \/ SpawnCancelled(c))
    /\ WF_vars(LimitTerminated(c) \/ Drained(c) \/ Terminated(c))
    /\ \A s \in Streams : WF_vars(Read(c, s)) /\ WF_vars(ReadEof(c, s))
    /\ WF_vars(Timeout(c))

FairSpec == Spec /\ \A c \in Calls : FairStep(c)

-----------------------------------------------------------------------------
(* Properties *)

\* Every way out of run_process gives back exactly the slot it took (the finally
\* of line 503), whatever combination of timeout and cancellations led there.
SlotsBalanced == free + Cardinality(Holding) = MaxConcurrent

\* No call ends with its child running unsignalled, so the children that run
\* undisturbed never outnumber max_concurrent_jobs.
ChildrenSignalled == \A c \in Calls : pc[c] = "returned" => proc[c] # "alive"

ChildrenBounded == Cardinality({c \in Calls : proc[c] = "alive"}) <= MaxConcurrent

\* stdout and stderr share one budget, and never exceed it together.
BudgetShared ==
    \A c \in Calls :
        captured[c]["stdout"] + captured[c]["stderr"] + remaining[c] = MaxOutput

\* A result that says "exited" holds every byte that was written, those of a
\* descendant that outlived the child and those read after the exit included.
ExitedIsComplete ==
    \A c \in Calls : reason[c] = "exited" => captured[c] = written[c]

\* A result that says "output_limit" holds a full budget and did lose output:
\* output of exactly the budget is not a truncation.
LimitIsTruncation ==
    \A c \in Calls :
        reason[c] = "output_limit" =>
            /\ captured[c]["stdout"] + captured[c]["stderr"] = MaxOutput
            /\ \E s \in Streams : captured[c][s] < taken[c][s]

\* threat-model.md, "Descendants survive termination": on POSIX the process
\* group of a call that timed out or was cancelled does not survive it.
GroupTerminated ==
    \A c \in Calls :
        Posix /\ reason[c] \in {"timeout", "cancelled"} => ~descendant[c]

\* Every call that took a slot returns, whatever its child does.
CallsReturn == \A c \in Calls : pc[c] = "spawning" ~> pc[c] = "returned"

=============================================================================
