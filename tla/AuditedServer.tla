---------------------------- MODULE AuditedServer ----------------------------
(***************************************************************************)
(* The tools of server.py and their audit events: the strict attempt that  *)
(* precedes every effect, and the completion event that must not fail the  *)
(* tool.  The bridge process may end and be started again at any point;    *)
(* its bootstrap (runtime_composition.py) is audited too.                  *)
(***************************************************************************)
EXTENDS AuditLog

CONSTANTS
    Mutating,     \* calls of run_process, start_job, cancel_job, git_fetch, git_sync
    Reading,      \* calls of the read-only tools
    Unlabelled,   \* calls whose project_id the audit schema refuses
    Cancellable   \* calls the client may cancel: those of asynchronous tools

Calls == Mutating \cup Reading

ASSUME CallsAssumption ==
    /\ Mutating \cap Reading = {}
    /\ Unlabelled \subseteq Calls
    /\ Cancellable \subseteq Calls
    /\ "runtime.bootstrap" \notin Calls

\* Where a call is: the attempt event, the effect, the completion event; or how
\* it ended: the attempt was refused, the completion was recorded or was not,
\* the client cancelled it, the process ended under it.
PcStates == {"idle", "attempting", "running", "completing",
             "refused", "recorded", "unrecorded", "cancelled", "lost"}

VARIABLES
    pc,       \* of each call
    result,   \* how the effect of each call ended
    effects,  \* the calls whose effect began
    runtime   \* "down", "starting", "recovering", "finishing", "serving"

vars == <<logVars, pc, result, effects, runtime>>

TypeOK ==
    /\ stage \in Stages
    /\ slot \in Slots /\ put \in 0..EventSize
    /\ sequence \in Nat /\ session \in 1..MaxSessions /\ healthy \in BOOLEAN
    /\ stage = "free" <=> event = NoEvent
    /\ pc \in [Calls -> PcStates]
    /\ result \in [Calls -> {"none", "success", "error"}]
    /\ effects \subseteq Calls
    /\ runtime \in {"down", "starting", "recovering", "finishing", "serving"}

Init ==
    /\ LogInit
    /\ pc = [c \in Calls |-> "idle"]
    /\ result = [c \in Calls |-> "none"]
    /\ effects = {}
    /\ runtime = "down"

-----------------------------------------------------------------------------
(* A tool call.                                                            *)

Begins(c) == pc[c] = "idle" /\ runtime = "serving"

\* A high-impact tool records its attempt before anything else.
Attempt(c) ==
    /\ Begins(c) /\ c \in Mutating \ Unlabelled
    /\ Begin(c, "attempt")
    /\ pc' = [pc EXCEPT ![c] = "attempting"]
    /\ UNCHANGED <<result, effects, runtime>>

\* record refuses the event by its schema, before the lock: the tool is refused.
AttemptRejected(c) ==
    /\ Begins(c) /\ c \in Mutating \cap Unlabelled
    /\ pc' = [pc EXCEPT ![c] = "refused"]
    /\ UNCHANGED <<logVars, result, effects, runtime>>

\* Fault: the failure of the attempt is not raised to the tool.
AttemptFailsLeniently(c) ==
    /\ pc[c] = "attempting" /\ event.call = c
    /\ Fail
    /\ pc' = [pc EXCEPT ![c] = "running"]
    /\ effects' = effects \cup {c}
    /\ UNCHANGED <<result, runtime>>

AttemptFails(c) ==
    /\ pc[c] = "attempting" /\ event.call = c
    /\ Fail
    /\ pc' = [pc EXCEPT ![c] = "refused"]
    /\ UNCHANGED <<result, effects, runtime>>

\* The attempt is recorded, and the effect begins.
AttemptRecorded(c) ==
    /\ pc[c] = "attempting" /\ event.call = c
    /\ Succeed
    /\ pc' = [pc EXCEPT ![c] = "running"]
    /\ effects' = effects \cup {c}
    /\ UNCHANGED <<result, runtime>>

\* A read-only tool works without an attempt.
ReadBegins(c) ==
    /\ Begins(c) /\ c \in Reading
    /\ pc' = [pc EXCEPT ![c] = "running"]
    /\ UNCHANGED <<logVars, result, effects, runtime>>

\* The service returns or raises.
WorkEnds(c) ==
    /\ pc[c] = "running"
    /\ \E r \in {"success", "error"} : result' = [result EXCEPT ![c] = r]
    /\ pc' = [pc EXCEPT ![c] = "completing"]
    /\ UNCHANGED <<logVars, effects, runtime>>

\* The client cancels the request: CancelledError is not an Exception, so the
\* tool records neither success nor error.
WorkCancelled(c) ==
    /\ pc[c] = "running" /\ c \in Cancellable
    /\ pc' = [pc EXCEPT ![c] = "cancelled"]
    /\ UNCHANGED <<logVars, result, effects, runtime>>

Complete(c) ==
    /\ pc[c] = "completing" /\ c \notin Unlabelled
    /\ Begin(c, result[c])
    /\ UNCHANGED <<pc, result, effects, runtime>>

\* The schema refuses the event and the tool swallows the AuditError.
CompleteRejected(c) ==
    /\ pc[c] = "completing" /\ c \in Unlabelled
    /\ pc' = [pc EXCEPT ![c] = "unrecorded"]
    /\ UNCHANGED <<logVars, result, effects, runtime>>

CompleteFails(c) ==
    /\ pc[c] = "completing" /\ event.call = c
    /\ Fail
    /\ pc' = [pc EXCEPT ![c] = "unrecorded"]
    /\ UNCHANGED <<result, effects, runtime>>

CompleteRecorded(c) ==
    /\ pc[c] = "completing" /\ event.call = c
    /\ Succeed
    /\ pc' = [pc EXCEPT ![c] = "recorded"]
    /\ UNCHANGED <<result, effects, runtime>>

-----------------------------------------------------------------------------
(* The process.                                                            *)

\* create_runtime_composition: the attempt, the job manager, the success event.
BootEvent(from, to, o) ==
    /\ runtime = from
    /\ Begin("runtime.bootstrap", o)
    /\ runtime' = to
    /\ UNCHANGED <<pc, result, effects>>

Boot ==
    \/ BootEvent("down", "starting", "attempt")
    \/ BootEvent("recovering", "finishing", "success")

BootRecorded ==
    /\ event.call = "runtime.bootstrap"
    /\ Succeed
    /\ runtime' = IF runtime = "starting" THEN "recovering" ELSE "serving"
    /\ UNCHANGED <<pc, result, effects>>

\* The process ends, on its own or because a bootstrap event cannot be recorded:
\* the calls in flight are lost, and a bootstrap begins anew.
Crash ==
    /\ NewSession
    /\ runtime' = "down"
    /\ pc' = [c \in Calls |->
                 IF pc[c] \in {"attempting", "running", "completing"} THEN "lost" ELSE pc[c]]
    /\ UNCHANGED <<result, effects>>

\* The lock holder's own steps, whoever it is.
Recording == (Unlink \/ Shift \/ Write) /\ UNCHANGED <<pc, result, effects, runtime>>

ToolStep(c) ==
    \/ Attempt(c) \/ AttemptRejected(c) \/ AttemptFails(c) \/ AttemptRecorded(c)
    \/ ReadBegins(c) \/ WorkEnds(c) \/ WorkCancelled(c)
    \/ Complete(c) \/ CompleteRejected(c) \/ CompleteFails(c) \/ CompleteRecorded(c)

Next ==
    \/ \E c \in Calls : ToolStep(c)
    \/ Boot \/ BootRecorded \/ Crash
    \/ Recording

Spec == Init /\ [][Next]_vars

-----------------------------------------------------------------------------
(* Properties *)

\* The line of an event can be read in a retained file, or was until rotation
\* removed its file; the weaker form is that its line was stored whole.
OnRecord(c, o) == [call |-> c, outcome |-> o] \in Readables \cup forgotten
Kept(c, o) == [call |-> c, outcome |-> o] \in forgotten \cup (UNION {Stored(files[i]) : i \in Slots})

\* README.md: no process, job or Git mutation happens without an attempt that can
\* be read in the log.
EffectsOnRecord == \A c \in effects : OnRecord(c, "attempt")

\* What holds of the fail-closed gate: an effect happens only behind an attempt
\* that is stored whole, whatever write, rotation or process failed before, and
\* no later failure or rotation loses it ahead of its turn; its line may be the
\* tail of a torn one (audit_torn).
EffectsKept == \A c \in effects : Kept(c, "attempt")

\* A recorded outcome stays stored, and no retained outcome stands before its own
\* attempt or without one that was there: rotation, failing and torn records and
\* restarts never turn a call's story around.
OutcomeFollowsAttempt ==
    \A c \in Mutating :
        pc[c] = "recorded" =>
            /\ \E o \in {"success", "error"} : Kept(c, o)
            /\ \A i \in DOMAIN Retention :
                  Retention[i].call = c /\ Retention[i].outcome # "attempt" =>
                      \/ [call |-> c, outcome |-> "attempt"] \in forgotten
                      \/ \E k \in 1..i-1 :
                            Retention[k].call = c /\ Retention[k].outcome = "attempt"

\* threat-model.md, line 161: a failed completion write marks the logger unhealthy,
\* and the next attempt fails closed.  The code only reports the mark (health_check):
\* record never reads it, and an attempt that can be written succeeds.  This fails (README).
NextAttemptFailsClosed ==
    [][\A c \in Mutating, d \in Mutating \ Unlabelled :
          pc[d] = "unrecorded" /\ ~healthy /\ pc[c] = "attempting" => pc'[c] # "running"]_vars

=============================================================================
