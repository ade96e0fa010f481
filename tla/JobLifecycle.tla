---------------------------- MODULE JobLifecycle ----------------------------
(***************************************************************************)
(* What the job tools promise to their clients about one job id, with no   *)
(* word of tasks, threads or files: a job is admitted once, it ends once,  *)
(* and an outcome that has been reported is taken back only by a restart,  *)
(* as "interrupted", and not even then when it was vouched for and nobody  *)
(* had tried to cancel the job.                                            *)
(***************************************************************************)
EXTENDS Naturals

CONSTANTS
    Ids,       \* the job ids
    Endings    \* the terminal statuses a job can reach in its session

VARIABLES
    state,     \* of each job: "new", "active", an ending, "interrupted" or, when
               \* a restart did not load it, "unknown"
    listed,    \* the jobs of the history
    told,      \* the last terminal status reported
    vouched,   \* jobs whose last report was of a persistent terminal status
    requested, \* jobs for which a cancellation has begun
    session    \* the number of the session

vars == <<state, listed, told, vouched, requested, session>>

Terminal == Endings \cup {"interrupted"}
States == Terminal \cup {"new", "active", "unknown"}

Init ==
    /\ state = [j \in Ids |-> "new"]
    /\ listed = {}
    /\ told = [j \in Ids |-> "none"]
    /\ vouched = {}
    /\ requested = {}
    /\ session = 0

\* Listed jobs that have ended.
Ended == {k \in listed : state[k] \in Terminal}

\* Jobs that have ended leave the history.
Forget ==
    /\ \E S \in SUBSET Ended : listed' = listed \ S
    /\ UNCHANGED <<state, told, vouched, requested, session>>

\* A job is admitted, and older ones leave the history.
Start(j) ==
    /\ state[j] = "new"
    /\ state' = [state EXCEPT ![j] = "active"]
    /\ \E S \in SUBSET Ended : listed' = (listed \ S) \cup {j}
    /\ UNCHANGED <<told, vouched, requested, session>>

End(j) ==
    /\ j \in listed /\ state[j] = "active"
    /\ \E s \in Endings : state' = [state EXCEPT ![j] = s]
    /\ UNCHANGED <<listed, told, vouched, requested, session>>

\* A reply or a report about a listed job, which may vouch for a terminal status;
\* the reply to a cancellation may come after its job has left the history.
Report(j) ==
    /\ state[j] \in Terminal \cup {"active"}
    /\ \/ state[j] \in Terminal /\ told' = [told EXCEPT ![j] = state[j]]
       \/ UNCHANGED told
    /\ \/ vouched' \in {vouched, vouched \ {j}}
       \/ j \in listed /\ told'[j] = state[j] /\ vouched' = vouched \cup {j}
    /\ UNCHANGED <<state, listed, requested, session>>

RequestCancel(j) ==
    /\ j \in listed /\ state[j] = "active"
    /\ requested' = requested \cup {j}
    /\ UNCHANGED <<state, listed, told, vouched, session>>

\* What a restart that finds j can make of it: what it was told to be, or a
\* confession that its supervision was interrupted.
Recovered(j) ==
    IF j \in vouched \ requested THEN {told[j]}
    ELSE IF told[j] # "none" THEN {told[j], "interrupted"}
    ELSE Terminal

Restart ==
    /\ session' = session + 1
    /\ listed' \in SUBSET {j \in Ids : state[j] # "new"}
    /\ state' \in [Ids -> States]
    /\ \A j \in Ids :
          state'[j] \in IF state[j] = "new" THEN {"new"}
                       ELSE IF j \in listed' THEN Recovered(j) ELSE {"unknown"}
    /\ UNCHANGED <<told, vouched, requested>>

Next ==
    \/ \E j \in Ids : Start(j) \/ End(j) \/ Report(j) \/ RequestCancel(j)
    \/ Forget
    \/ Restart

Spec == Init /\ [][Next]_vars

=============================================================================
