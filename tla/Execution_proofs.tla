-------------------------- MODULE Execution_proofs ---------------------------
(***************************************************************************)
(* Proofs about Execution, for every set of calls and every limit: the     *)
(* slots are balanced, the running children are bounded, the two streams   *)
(* share one budget, and a result says the truth about its output.         *)
(***************************************************************************)
EXTENDS Execution, FiniteSetTheorems, TLAPS

\* A call that has not been spawned has no child, a child is undisturbed only
\* while its call collects, and a reader never gets ahead of the pipe.
Orderly ==
    /\ \A c \in Calls : pc[c] \in {"idle", "spawning"} => proc[c] = "none"
    /\ \A c \in Calls : proc[c] = "alive" => pc[c] = "collecting"
    /\ \A c \in Calls, s \in Streams : taken[c][s] <= written[c][s]

IndInv == TypeOK /\ Orderly /\ SlotsBalanced /\ ChildrenSignalled /\ BudgetShared

-----------------------------------------------------------------------------
(* The slots.                                                              *)

LEMMA HoldingFinite ==
    /\ IsFiniteSet(Holding)
    /\ Cardinality(Holding) \in Nat
<1>1. Holding \subseteq Calls /\ IsFiniteSet(Calls)
  BY LimitsAssumption DEF Holding
<1> QED BY <1>1, FS_Subset, FS_CardinalityType

\* Taking a slot, giving it back, and keeping what one has.
LEMMA SlotTaken ==
    ASSUME TypeOK, SlotsBalanced, NEW c \in Calls, pc[c] = "idle", free > 0,
           free' = free - 1, pc' = [pc EXCEPT ![c] = "spawning"]
    PROVE  SlotsBalanced' /\ free' \in 0..MaxConcurrent
<1>1. Holding' = Holding \cup {c} /\ c \notin Holding
  BY DEF Holding, TypeOK
<1>2. Cardinality(Holding') = Cardinality(Holding) + 1
  BY <1>1, HoldingFinite, FS_AddElement
<1>3. free \in 0..MaxConcurrent /\ MaxConcurrent \in Nat
  BY LimitsAssumption DEF TypeOK
<1>4. free + Cardinality(Holding) = MaxConcurrent
  BY DEF SlotsBalanced
<1>5. (free + Cardinality(Holding) = MaxConcurrent)' <=> SlotsBalanced'
  BY DEF SlotsBalanced
<1> QED BY <1>2, <1>3, <1>4, <1>5, HoldingFinite

LEMMA SlotGivenBack ==
    ASSUME TypeOK, SlotsBalanced, NEW c \in Calls, NEW r \in Reasons,
           pc[c] \notin {"idle", "returned"}, Finish(c, r)
    PROVE  /\ SlotsBalanced'
           /\ free' \in 0..MaxConcurrent
           /\ pc' = [pc EXCEPT ![c] = "returned"]
           /\ pc' \in [Calls -> PcStates]
           /\ reason' \in [Calls -> Reasons]
<1>1. Holding' = Holding \ {c} /\ c \in Holding
  BY DEF Holding, TypeOK, Finish
<1>2. Cardinality(Holding') = Cardinality(Holding) - 1
  BY <1>1, HoldingFinite, FS_RemoveElement
<1>3. Cardinality(Holding) # 0
  BY <1>1, HoldingFinite, FS_EmptySet
<1>4. free \in 0..MaxConcurrent /\ MaxConcurrent \in Nat /\ free' = free + 1
  BY LimitsAssumption DEF TypeOK, Finish
<1>5. free + Cardinality(Holding) = MaxConcurrent
  BY DEF SlotsBalanced
<1>6. SlotsBalanced' /\ free' \in 0..MaxConcurrent
  BY <1>2, <1>3, <1>4, <1>5, HoldingFinite DEF SlotsBalanced
<1>7. /\ pc' = [pc EXCEPT ![c] = "returned"]
      /\ pc' \in [Calls -> PcStates]
      /\ reason' \in [Calls -> Reasons]
  BY DEF Finish, TypeOK, PcStates
<1> QED BY <1>6, <1>7

LEMMA SlotsKept ==
    ASSUME SlotsBalanced, UNCHANGED free, Holding' = Holding
    PROVE  SlotsBalanced'
  BY DEF SlotsBalanced

-----------------------------------------------------------------------------
(* The output budget.                                                      *)

LEMMA AppendKeeps ==
    ASSUME TypeOK, BudgetShared, NEW c \in Calls, NEW s \in Streams, NEW n \in Nat,
           Append(c, s, n)
    PROVE  /\ captured' \in [Calls -> [Streams -> 0..MaxOutput]]
           /\ remaining' \in [Calls -> 0..MaxOutput]
           /\ limit' \in [Calls -> BOOLEAN]
           /\ reading' \in [Calls -> SUBSET Streams]
           /\ BudgetShared'
<1> DEFINE kept == IF n > remaining[c] THEN remaining[c] ELSE n
           left == IF n > remaining[c] THEN 0 ELSE remaining[c] - n
<1>1. /\ captured[c]["stdout"] \in 0..MaxOutput /\ captured[c]["stderr"] \in 0..MaxOutput
      /\ remaining[c] \in 0..MaxOutput /\ MaxOutput \in Nat
      /\ captured[c]["stdout"] + captured[c]["stderr"] + remaining[c] = MaxOutput
  BY LimitsAssumption DEF TypeOK, BudgetShared, Streams
<1>2. kept \in Nat /\ left \in 0..MaxOutput /\ kept + left = remaining[c]
  BY <1>1
<1>3. captured' = [captured EXCEPT ![c][s] = captured[c][s] + kept]
  BY DEF Append
<1>4. remaining' = [remaining EXCEPT ![c] = left]
  BY DEF Append
<1> HIDE DEF kept, left
<1>5. captured[c][s] + kept \in 0..MaxOutput
  BY <1>1, <1>2 DEF Streams
<1>6. captured' \in [Calls -> [Streams -> 0..MaxOutput]]
  BY <1>3, <1>5 DEF TypeOK
<1>7. remaining' \in [Calls -> 0..MaxOutput]
  BY <1>2, <1>4 DEF TypeOK
<1>8. limit' \in [Calls -> BOOLEAN] /\ reading' \in [Calls -> SUBSET Streams]
  BY DEF Append, TypeOK
<1>9. BudgetShared'
  <2> SUFFICES ASSUME NEW d \in Calls
               PROVE  captured'[d]["stdout"] + captured'[d]["stderr"] + remaining'[d]
                        = MaxOutput
    BY DEF BudgetShared
  <2>1. CASE d # c
    <3>1. captured'[d] = captured[d] /\ remaining'[d] = remaining[d]
      BY <1>3, <1>4, <2>1 DEF TypeOK
    <3> QED BY <3>1 DEF BudgetShared
  <2>2. CASE d = c
    <3>1. remaining'[c] = left
      BY <1>4 DEF TypeOK
    <3>2. CASE s = "stdout"
      <4>1. /\ captured'[c]["stdout"] = captured[c]["stdout"] + kept
            /\ captured'[c]["stderr"] = captured[c]["stderr"]
        BY <1>3, <3>2 DEF TypeOK, Streams
      <4> QED BY <1>1, <1>2, <2>2, <3>1, <4>1
    <3>3. CASE s = "stderr"
      <4>1. /\ captured'[c]["stderr"] = captured[c]["stderr"] + kept
            /\ captured'[c]["stdout"] = captured[c]["stdout"]
        BY <1>3, <3>3 DEF TypeOK, Streams
      <4> QED BY <1>1, <1>2, <2>2, <3>1, <4>1
    <3> QED BY <3>2, <3>3 DEF Streams
  <2> QED BY <2>1, <2>2
<1> QED BY <1>6, <1>7, <1>8, <1>9

-----------------------------------------------------------------------------
(* One lemma per group of actions.                                         *)

\* Terminating and its bookkeeping keep the types and leave no child alive.
LEMMA TerminateKeeps ==
    ASSUME TypeOK, NEW c \in Calls, Terminate(c)
    PROVE  /\ proc' \in [Calls -> ProcStates]
           /\ descendant' \in [Calls -> BOOLEAN]
           /\ \A d \in Calls : d # c => proc'[d] = proc[d]
           /\ proc'[c] # "alive"
           /\ proc[c] # "none" => proc'[c] # "none"
           /\ Reaped(c) => proc'[c] = "reaped"
  BY DEF TypeOK, Terminate, ProcStates, Reaped

\* The steps that only move pc between places that hold a slot, or not at all,
\* and the processes by one transition.
LEMMA QuietKeeps ==
    ASSUME IndInv, NEW c \in Calls,
           UNCHANGED <<free, taken, captured, remaining, limit>>,
           pc' \in [Calls -> PcStates],
           \A d \in Calls : pc'[d] \in {"idle", "returned"} <=> pc[d] \in {"idle", "returned"},
           \A d \in Calls : pc'[d] = "returned" <=> pc[d] = "returned",
           reason' = reason,
           proc' \in [Calls -> ProcStates],
           descendant' \in [Calls -> BOOLEAN],
           written' \in [Calls -> [Streams -> 0..MaxWrite]],
           reading' \in [Calls -> SUBSET Streams],
           \A d \in Calls : proc'[d] = "alive" => pc'[d] = "collecting",
           \A d \in Calls : pc'[d] \in {"idle", "spawning"} => proc'[d] = "none",
           \A d \in Calls, s \in Streams : written[d][s] <= written'[d][s]
    PROVE  IndInv'
<1>1. TypeOK'
  BY DEF IndInv, TypeOK
<1>2. Holding' = Holding
  BY DEF Holding
<1>3. SlotsBalanced'
  BY <1>2, SlotsKept DEF IndInv
<1>4. ChildrenSignalled'
  BY DEF IndInv, ChildrenSignalled
<1>5. BudgetShared'
  BY DEF IndInv, BudgetShared
<1>6. Orderly'
  <2>1. ASSUME NEW d \in Calls, NEW s \in Streams PROVE taken'[d][s] <= written'[d][s]
    <3>1. taken[d][s] <= written[d][s] /\ taken'[d][s] = taken[d][s]
      BY DEF IndInv, Orderly
    <3>2. /\ taken[d][s] \in Nat /\ written[d][s] \in Nat /\ written'[d][s] \in Nat
          /\ written[d][s] <= written'[d][s]
      BY LimitsAssumption DEF IndInv, TypeOK
    <3> QED BY <3>1, <3>2
  <2> QED BY <2>1 DEF Orderly
<1> QED BY <1>1, <1>3, <1>4, <1>5, <1>6 DEF IndInv

\* The steps that end a call and give its slot back.
LEMMA FinishKeeps ==
    ASSUME IndInv, NEW c \in Calls, NEW r \in Reasons,
           pc[c] \notin {"idle", "returned"}, Finish(c, r),
           UNCHANGED <<taken, captured, remaining, limit, written>>,
           reading' \in [Calls -> SUBSET Streams],
           proc' \in [Calls -> ProcStates],
           descendant' \in [Calls -> BOOLEAN],
           proc'[c] # "alive",
           \A d \in Calls : d # c => proc'[d] = proc[d]
    PROVE  IndInv'
<1>1. /\ SlotsBalanced' /\ free' \in 0..MaxConcurrent
      /\ pc' = [pc EXCEPT ![c] = "returned"]
      /\ pc' \in [Calls -> PcStates] /\ reason' \in [Calls -> Reasons]
  BY SlotGivenBack DEF IndInv
<1>2. TypeOK'
  BY <1>1 DEF IndInv, TypeOK
<1>3. ChildrenSignalled'
  BY <1>1 DEF IndInv, TypeOK, ChildrenSignalled
<1>4. BudgetShared'
  BY DEF IndInv, BudgetShared
<1>5. Orderly'
  BY <1>1 DEF IndInv, TypeOK, Orderly
<1> QED BY <1>1, <1>2, <1>3, <1>4, <1>5 DEF IndInv


-----------------------------------------------------------------------------
(* One lemma per way of taking a step.                                     *)

LEMMA RefuseKeeps ==
    ASSUME IndInv, NEW c \in Calls, Refuse(c)
    PROVE  IndInv'
<1>1. pc' = [pc EXCEPT ![c] = "returned"] /\ pc[c] = "idle" /\ proc[c] = "none"
  BY DEF IndInv, Orderly, Refuse
<1>2. Holding' = Holding
  BY <1>1 DEF IndInv, TypeOK, Holding
<1>3. SlotsBalanced'
  BY <1>2, SlotsKept DEF IndInv, Refuse
<1>4. TypeOK'
  BY DEF IndInv, TypeOK, Refuse, PcStates, Reasons, osVars, captureVars
<1>5. ChildrenSignalled'
  BY <1>1 DEF IndInv, TypeOK, ChildrenSignalled, Refuse, osVars
<1>6. Orderly' /\ BudgetShared'
  BY <1>1 DEF IndInv, TypeOK, Orderly, BudgetShared, Refuse, osVars, captureVars
<1> QED BY <1>3, <1>4, <1>5, <1>6 DEF IndInv

LEMMA AcquireKeeps ==
    ASSUME IndInv, NEW c \in Calls, Acquire(c)
    PROVE  IndInv'
<1>1. SlotsBalanced' /\ free' \in 0..MaxConcurrent
  BY SlotTaken DEF IndInv, Acquire
<1>2. TypeOK'
  BY <1>1 DEF IndInv, TypeOK, Acquire, PcStates, osVars, captureVars
<1>3. ChildrenSignalled'
  BY DEF IndInv, TypeOK, ChildrenSignalled, Acquire, osVars
<1>4. Orderly' /\ BudgetShared'
  BY DEF IndInv, TypeOK, Orderly, BudgetShared, Acquire, osVars, captureVars
<1> QED BY <1>1, <1>2, <1>3, <1>4 DEF IndInv

LEMMA ReadKeeps ==
    ASSUME IndInv, NEW c \in Calls, NEW s \in Streams, Read(c, s)
    PROVE  IndInv'
<1>1. PICK n \in 1..Unread(c, s) :
         /\ taken' = [taken EXCEPT ![c][s] = @ + n]
         /\ Append(c, s, n)
  BY DEF Read
<1>2. /\ written[c][s] \in 0..MaxWrite /\ taken[c][s] \in 0..MaxWrite
      /\ MaxWrite \in Nat /\ taken[c][s] <= written[c][s]
  BY LimitsAssumption DEF IndInv, TypeOK, Orderly
<1>3. n \in Nat /\ taken[c][s] + n \in 0..MaxWrite /\ taken[c][s] + n <= written[c][s]
  BY <1>2 DEF Unread
<1>4. /\ captured' \in [Calls -> [Streams -> 0..MaxOutput]]
      /\ remaining' \in [Calls -> 0..MaxOutput]
      /\ limit' \in [Calls -> BOOLEAN]
      /\ reading' \in [Calls -> SUBSET Streams]
      /\ BudgetShared'
  BY <1>1, <1>3, AppendKeeps DEF IndInv
<1>5. taken' = [taken EXCEPT ![c][s] = taken[c][s] + n]
  BY <1>1
<1>6. taken' \in [Calls -> [Streams -> 0..MaxWrite]]
  BY <1>3, <1>5 DEF IndInv, TypeOK
<1>7. UNCHANGED <<free, pc, reason, proc, descendant, written>>
  BY DEF Read, osVars
<1>8. TypeOK'
  BY <1>4, <1>6, <1>7 DEF IndInv, TypeOK
<1>9. Orderly'
  <2>1. ASSUME NEW d \in Calls, NEW t \in Streams PROVE taken'[d][t] <= written'[d][t]
    <3>1. CASE d = c /\ t = s
      BY <1>3, <1>5, <1>7, <3>1 DEF IndInv, TypeOK
    <3>2. CASE ~(d = c /\ t = s)
      <4>1. taken'[d][t] = taken[d][t]
        BY <1>5, <3>2 DEF IndInv, TypeOK
      <4> QED BY <1>7, <4>1 DEF IndInv, Orderly
    <3> QED BY <3>1, <3>2
  <2> QED BY <1>7, <2>1 DEF IndInv, Orderly
<1>10. SlotsBalanced' /\ ChildrenSignalled'
  BY <1>7 DEF IndInv, SlotsBalanced, Holding, ChildrenSignalled
<1> QED BY <1>4, <1>8, <1>9, <1>10 DEF IndInv

\* The bounds of what a pipe holds are numbers: <= is reflexive on them.
LEMMA WrittenReflexive ==
    ASSUME TypeOK
    PROVE  \A d \in Calls, s \in Streams : written[d][s] <= written[d][s]
  BY LimitsAssumption DEF TypeOK

\* The steps of the event loop that end nothing.
LEMMA LoopKeeps ==
    ASSUME IndInv, NEW c \in Calls,
           \/ Spawned(c)
           \/ \E s \in Streams : ReadEof(c, s)
           \/ WakeOnExit(c)
           \/ WakeOnLimit(c)
           \/ LimitTerminated(c)
    PROVE  IndInv'
<1> USE WrittenReflexive
<1>1. CASE Spawned(c)
  <2>1. pc'[c] = "collecting" /\ \A d \in Calls : d # c => pc'[d] = pc[d] /\ proc'[d] = proc[d]
    BY <1>1 DEF IndInv, TypeOK, Spawned
  <2>2. /\ pc' \in [Calls -> PcStates] /\ proc' \in [Calls -> ProcStates]
        /\ reading' \in [Calls -> SUBSET Streams]
    BY <1>1 DEF IndInv, TypeOK, Spawned, PcStates, ProcStates
  <2>3. pc[c] = "spawning" /\ UNCHANGED <<free, reason, descendant, written, taken, captured, remaining, limit>>
    BY <1>1 DEF Spawned
  <2>4. \A d \in Calls : pc'[d] \in {"idle", "spawning"} => proc'[d] = "none"
    BY <2>1 DEF IndInv, Orderly
  <2>5. /\ \A d \in Calls : pc'[d] \in {"idle", "returned"} <=> pc[d] \in {"idle", "returned"}
        /\ \A d \in Calls : pc'[d] = "returned" <=> pc[d] = "returned"
        /\ \A d \in Calls : proc'[d] = "alive" => pc'[d] = "collecting"
    BY <2>1, <2>3 DEF IndInv, Orderly
  <2> QED BY <2>2, <2>3, <2>4, <2>5, QuietKeeps DEF IndInv, TypeOK
<1>2. ASSUME NEW s \in Streams, ReadEof(c, s) PROVE IndInv'
  <2>1. reading' \in [Calls -> SUBSET Streams]
    BY <1>2 DEF IndInv, TypeOK, ReadEof
  <2>2. UNCHANGED <<free, pc, reason, proc, descendant, written, taken, captured, remaining, limit>>
    BY <1>2 DEF ReadEof, osVars
  <2> QED BY <2>1, <2>2, QuietKeeps DEF IndInv, TypeOK, Orderly
<1>3. CASE WakeOnExit(c) \/ LimitTerminated(c)
  <2>1. /\ pc' = [pc EXCEPT ![c] = "draining"] /\ pc[c] \in {"collecting", "limiting"}
        /\ proc[c] # "alive"
    BY <1>3 DEF WakeOnExit, LimitTerminated, Reaped, IndInv, Orderly
  <2>2. UNCHANGED <<free, reason, proc, descendant, written, taken, captured, remaining, limit, reading>>
    BY <1>3 DEF WakeOnExit, LimitTerminated, osVars, captureVars
  <2>3. pc' \in [Calls -> PcStates] /\ pc'[c] = "draining" /\ \A d \in Calls : d # c => pc'[d] = pc[d]
    BY <2>1 DEF IndInv, TypeOK, PcStates
  <2> QED BY <2>1, <2>2, <2>3, QuietKeeps DEF IndInv, TypeOK, Orderly
<1>4. CASE WakeOnLimit(c)
  <2>1. pc[c] = "collecting" /\ pc'[c] \in {"draining", "limiting"}
        /\ pc' \in [Calls -> PcStates] /\ \A d \in Calls : d # c => pc'[d] = pc[d]
    BY <1>4 DEF IndInv, TypeOK, WakeOnLimit, PcStates
  <2>2. UNCHANGED <<free, reason, written, taken, captured, remaining, limit, reading>>
    BY <1>4 DEF WakeOnLimit, captureVars
  <2>3. /\ proc' \in [Calls -> ProcStates]
        /\ descendant' \in [Calls -> BOOLEAN]
        /\ \A d \in Calls : d # c => proc'[d] = proc[d]
        /\ proc'[c] # "alive"
    BY <1>4, TerminateKeeps DEF IndInv, WakeOnLimit
  <2> QED BY <2>1, <2>2, <2>3, QuietKeeps DEF IndInv, TypeOK, Orderly
<1> QED BY <1>1, <1>2, <1>3, <1>4

\* The steps that end a call which holds a slot, or begin to.
LEMMA EndKeeps ==
    ASSUME IndInv, NEW c \in Calls,
           \/ SpawnFails(c) \/ SpawnCancelled(c)
           \/ Drained(c) \/ Terminated(c) \/ CancelAgain(c)
    PROVE  IndInv'
<1>1. PICK r \in Reasons : Finish(c, r)
  BY DEF SpawnFails, SpawnCancelled, Drained, DrainedReason, Terminated, CancelAgain, Reasons
<1>2. UNCHANGED <<proc, descendant, written, taken, captured, remaining, limit, reading>>
  BY DEF SpawnFails, SpawnCancelled, Drained, Terminated, CancelAgain, osVars, captureVars
<1>3. pc[c] \notin {"idle", "returned"}
  BY DEF SpawnFails, SpawnCancelled, Drained, Terminated, CancelAgain
<1>4. proc[c] # "alive"
  BY DEF SpawnFails, SpawnCancelled, Drained, Terminated, CancelAgain, IndInv, Orderly
<1> QED BY <1>1, <1>2, <1>3, <1>4, FinishKeeps DEF IndInv, TypeOK

\* A timeout or a cancellation: the readers stop, the child is terminated, and
\* the call ends at once when the child had been reaped.
LEMMA AbandonKeeps ==
    ASSUME IndInv, NEW c \in Calls, NEW r \in {"timeout", "cancelled"},
           NEW next \in {"timing_out", "aborting"},
           Supervised(c), StopReaders(c), Terminate(c), UNCHANGED written,
           IF Reaped(c) THEN Finish(c, r)
           ELSE pc' = [pc EXCEPT ![c] = next] /\ UNCHANGED <<free, reason>>
    PROVE  IndInv'
<1>1. /\ proc' \in [Calls -> ProcStates]
      /\ descendant' \in [Calls -> BOOLEAN]
      /\ \A d \in Calls : d # c => proc'[d] = proc[d]
      /\ proc'[c] # "alive"
  BY TerminateKeeps DEF IndInv
<1>2. reading' \in [Calls -> SUBSET Streams] /\ UNCHANGED <<taken, captured, remaining, limit>>
  BY DEF StopReaders, IndInv, TypeOK
<1>3. pc[c] \in {"collecting", "limiting", "draining"} /\ r \in Reasons
  BY DEF Supervised, Reasons
<1>4. CASE Reaped(c)
  BY <1>1, <1>2, <1>3, <1>4, FinishKeeps
<1>5. CASE ~Reaped(c)
  <2>1. pc' = [pc EXCEPT ![c] = next] /\ UNCHANGED <<free, reason>>
    BY <1>5
  <2>2. pc' \in [Calls -> PcStates] /\ pc'[c] = next /\ \A d \in Calls : d # c => pc'[d] = pc[d]
    BY <2>1 DEF IndInv, TypeOK, PcStates
  <2> QED BY <1>1, <1>2, <1>3, <2>1, <2>2, WrittenReflexive, QuietKeeps
      DEF IndInv, TypeOK, Orderly
<1> QED BY <1>4, <1>5

\* The operating system's steps.
LEMMA EnvironmentKeeps ==
    ASSUME IndInv, NEW c \in Calls, Environment(c)
    PROVE  IndInv'
<1> USE WrittenReflexive
<1>1. UNCHANGED <<free, pc, reason, taken, captured, remaining, limit, reading>>
  BY DEF Environment, Write, Fork, Exit, Reap, DescendantExit, captureVars
<1>2. ASSUME NEW s \in Streams, Write(c, s) PROVE IndInv'
  <2>1. written[c][s] \in 0..MaxWrite /\ MaxWrite \in Nat /\ written[c][s] + 1 \in 0..MaxWrite
    BY <1>2, LimitsAssumption DEF IndInv, TypeOK, Write
  <2>2. written' = [written EXCEPT ![c][s] = written[c][s] + 1]
    BY <1>2 DEF Write
  <2>3. written' \in [Calls -> [Streams -> 0..MaxWrite]]
    BY <2>1, <2>2 DEF IndInv, TypeOK
  <2>4. ASSUME NEW d \in Calls, NEW t \in Streams PROVE written[d][t] <= written'[d][t]
    <3>1. CASE d = c /\ t = s
      BY <2>1, <2>2, <3>1 DEF IndInv, TypeOK
    <3>2. CASE ~(d = c /\ t = s)
      <4>1. written'[d][t] = written[d][t]
        BY <2>2, <3>2 DEF IndInv, TypeOK
      <4> QED BY <4>1 DEF IndInv
    <3> QED BY <3>1, <3>2
  <2>5. UNCHANGED <<proc, descendant>>
    BY <1>2 DEF Write
  <2> QED BY <1>1, <2>3, <2>4, <2>5, QuietKeeps DEF IndInv, TypeOK, Orderly
<1>3. CASE Fork(c) \/ DescendantExit(c)
  <2>1. descendant' \in [Calls -> BOOLEAN] /\ UNCHANGED <<proc, written>>
    BY <1>3 DEF Fork, DescendantExit, IndInv, TypeOK
  <2> QED BY <1>1, <2>1, QuietKeeps DEF IndInv, TypeOK, Orderly
<1>4. CASE Exit(c) \/ Reap(c)
  <2>1. /\ proc' \in [Calls -> ProcStates] /\ UNCHANGED <<descendant, written>>
        /\ proc'[c] # "alive" /\ proc[c] # "none"
        /\ \A d \in Calls : d # c => proc'[d] = proc[d]
    BY <1>4 DEF Exit, Reap, IndInv, TypeOK, ProcStates
  <2> QED BY <1>1, <2>1, QuietKeeps DEF IndInv, TypeOK, Orderly
<1> QED BY <1>2, <1>3, <1>4 DEF Environment

LEMMA StepKeeps ==
    ASSUME IndInv, NEW c \in Calls, Step(c)
    PROVE  IndInv'
<1>1. CASE Refuse(c) \/ Acquire(c)
  BY <1>1, RefuseKeeps, AcquireKeeps
<1>2. CASE Spawned(c) \/ WakeOnExit(c) \/ WakeOnLimit(c) \/ LimitTerminated(c)
  BY <1>2, LoopKeeps
<1>3. ASSUME NEW s \in Streams, Read(c, s) \/ ReadEof(c, s) PROVE IndInv'
  BY <1>3, ReadKeeps, LoopKeeps
<1>4. CASE SpawnFails(c) \/ SpawnCancelled(c) \/ Drained(c) \/ Terminated(c) \/ CancelAgain(c)
  BY <1>4, EndKeeps
<1>5. CASE Timeout(c)
  BY <1>5, AbandonKeeps DEF Timeout
<1>6. CASE Cancel(c)
  BY <1>6, AbandonKeeps DEF Cancel
<1> QED BY <1>1, <1>2, <1>3, <1>4, <1>5, <1>6 DEF Step

LEMMA StutterKeeps ==
    ASSUME IndInv, UNCHANGED vars
    PROVE  IndInv'
<1>1. TypeOK' /\ Orderly' /\ ChildrenSignalled' /\ BudgetShared'
  BY DEF IndInv, vars, TypeOK, Orderly, ChildrenSignalled, BudgetShared
<1>2. SlotsBalanced'
  BY DEF IndInv, vars, SlotsBalanced, Holding
<1> QED BY <1>1, <1>2 DEF IndInv

LEMMA InitEstablishes ==
    ASSUME Init
    PROVE  IndInv
<1> USE LimitsAssumption
<1>1. TypeOK
  BY DEF Init, TypeOK, PcStates, Reasons, ProcStates
<1>2. Holding = {}
  BY DEF Init, Holding
<1>3. SlotsBalanced
  BY <1>2, FS_EmptySet DEF Init, SlotsBalanced
<1>4. Orderly /\ ChildrenSignalled
  BY DEF Init, Orderly, ChildrenSignalled
<1>5. BudgetShared
  BY DEF Init, BudgetShared, Streams
<1> QED BY <1>1, <1>3, <1>4, <1>5 DEF IndInv

LEMMA Inductive == Spec => []IndInv
<1>1. Init => IndInv
  BY InitEstablishes
<1>2. IndInv /\ [Next]_vars => IndInv'
  BY StepKeeps, EnvironmentKeeps, StutterKeeps DEF Next
<1> QED BY <1>1, <1>2, PTL DEF Spec

-----------------------------------------------------------------------------
(* What a result says about its output.                                    *)

\* The capture of call c: readers run only under supervision; what is read and
\* not kept, limit_reached and an exhausted budget go together; unless the limit
\* was reached, a reader that has returned has seen the end of its stream, for
\* good; and a reason says which of the two happened.
CaptureSound(c) ==
    /\ reading[c] # {} => Supervised(c)
    /\ reason[c] # "none" => pc[c] = "returned"
    /\ limit[c] => /\ remaining[c] = 0
                   /\ \E s \in Streams : captured[c][s] < taken[c][s]
    /\ ~limit[c] => captured[c] = taken[c]
    /\ Supervised(c) /\ ~limit[c] =>
          \A s \in Streams \ reading[c] : PipesClosed(c) /\ taken[c][s] = written[c][s]
    /\ reason[c] = "exited" => PipesClosed(c) /\ captured[c] = written[c]
    /\ reason[c] = "output_limit" => limit[c]

CaptureInv == IndInv /\ \A c \in Calls : CaptureSound(c)

\* A call that a step does not touch keeps what is known of it.
Untouched(c) ==
    /\ pc'[c] = pc[c] /\ reason'[c] = reason[c]
    /\ proc'[c] = proc[c] /\ descendant'[c] = descendant[c] /\ written'[c] = written[c]
    /\ taken'[c] = taken[c] /\ captured'[c] = captured[c] /\ remaining'[c] = remaining[c]
    /\ limit'[c] = limit[c] /\ reading'[c] = reading[c]

LEMMA UntouchedKeeps ==
    ASSUME NEW c \in Calls, Untouched(c), CaptureSound(c)
    PROVE  CaptureSound(c)'
  BY DEF Untouched, CaptureSound, Supervised, PipesClosed

LEMMA OthersUntouched ==
    ASSUME TypeOK, NEW c \in Calls, NEW d \in Calls, d # c, Step(c) \/ Environment(c)
    PROVE  Untouched(d)
<1> USE DEF TypeOK, Untouched
<1>1. CASE Refuse(c) \/ Acquire(c)
  BY <1>1 DEF Refuse, Acquire, osVars, captureVars
<1>2. CASE Spawned(c) \/ SpawnFails(c) \/ SpawnCancelled(c)
  BY <1>2 DEF Spawned, SpawnFails, SpawnCancelled, Finish, osVars, captureVars
<1>3. ASSUME NEW s \in Streams, Read(c, s) \/ ReadEof(c, s) PROVE Untouched(d)
  BY <1>3 DEF Read, Append, ReadEof, osVars
<1>4. CASE WakeOnExit(c) \/ WakeOnLimit(c) \/ LimitTerminated(c)
  BY <1>4 DEF WakeOnExit, WakeOnLimit, LimitTerminated, Terminate, osVars, captureVars
<1>5. CASE Drained(c) \/ Terminated(c) \/ CancelAgain(c)
  BY <1>5 DEF Drained, Terminated, CancelAgain, Finish, osVars, captureVars
<1>6. CASE Timeout(c) \/ Cancel(c)
  BY <1>6 DEF Timeout, Cancel, StopReaders, Terminate, Finish
<1>7. CASE Environment(c)
  BY <1>7 DEF Environment, Write, Fork, Exit, Reap, DescendantExit, captureVars
<1> QED BY <1>1, <1>2, <1>3, <1>4, <1>5, <1>6, <1>7 DEF Step

\* The steps before a call has readers, and those that end it without a result.
LEMMA StartKeepsCapture ==
    ASSUME CaptureInv, NEW c \in Calls,
           Refuse(c) \/ Acquire(c) \/ Spawned(c) \/ SpawnFails(c) \/ SpawnCancelled(c)
    PROVE  CaptureSound(c)'
<1> USE DEF CaptureInv, CaptureSound, IndInv, TypeOK, Supervised, PipesClosed
<1>1. reading[c] = {} /\ reason[c] = "none"
  BY DEF Refuse, Acquire, Spawned, SpawnFails, SpawnCancelled
<1>2. CASE Spawned(c)
  <2>1. /\ pc'[c] = "collecting" /\ reading'[c] = Streams
        /\ UNCHANGED <<reason, written, taken, captured, remaining, limit>>
    BY <1>2 DEF Spawned
  <2> QED BY <1>1, <2>1
<1>3. CASE ~Spawned(c)
  <2>1. /\ UNCHANGED <<proc, descendant, written, taken, captured, remaining, limit, reading>>
        /\ pc'[c] \in {"spawning", "returned"}
        /\ reason'[c] \in {"none", "busy", "unstarted", "cancelled"}
        /\ reason'[c] # "none" => pc'[c] = "returned"
    BY <1>1, <1>3 DEF Refuse, Acquire, SpawnFails, SpawnCancelled, Finish, osVars, captureVars
  <2> QED BY <1>1, <2>1
<1> QED BY <1>2, <1>3

\* A chunk: it fits, and all of it is kept, or it does not, and the rest is lost.
LEMMA ReadKeepsCapture ==
    ASSUME CaptureInv, NEW c \in Calls, NEW s \in Streams, Read(c, s)
    PROVE  CaptureSound(c)'
<1> USE DEF CaptureInv, IndInv
<1>1. PICK n \in 1..Unread(c, s) :
         /\ taken' = [taken EXCEPT ![c][s] = @ + n]
         /\ Append(c, s, n)
  BY DEF Read
<1>2. /\ written[c][s] \in Nat /\ taken[c][s] \in Nat /\ n \in Nat \ {0}
      /\ remaining[c] \in Nat /\ captured[c][s] \in Nat
  BY <1>1, LimitsAssumption DEF TypeOK, Unread
<1>3. s \in reading[c] /\ UNCHANGED <<pc, reason, proc, descendant, written>>
  BY DEF Read, osVars
<1>4. Supervised(c) /\ reason[c] = "none"
  BY <1>3 DEF CaptureSound, Supervised
<1>5. taken'[c] = [taken[c] EXCEPT ![s] = taken[c][s] + n]
  BY <1>1 DEF TypeOK
<1>6. CASE n > remaining[c]
  <2>1. /\ captured'[c] = [captured[c] EXCEPT ![s] = captured[c][s] + remaining[c]]
        /\ remaining'[c] = 0 /\ limit'[c]
    BY <1>1, <1>6 DEF Append, TypeOK
  <2>2. \E t \in Streams : captured'[c][t] < taken'[c][t]
    <3>1. CASE limit[c]
      <4>1. remaining[c] = 0 /\ \E t \in Streams : captured[c][t] < taken[c][t]
        BY <3>1 DEF CaptureSound
      <4>2. PICK t \in Streams : captured[c][t] < taken[c][t]
        BY <4>1
      <4>3. CASE t = s
        <5>1. captured'[c][t] = captured[c][t] /\ taken'[c][t] = taken[c][t] + n
          BY <1>2, <1>5, <2>1, <4>1, <4>3 DEF TypeOK
        <5> QED BY <1>2, <4>2, <4>3, <5>1
      <4>4. CASE t # s
        BY <1>5, <2>1, <4>2, <4>4 DEF TypeOK
      <4> QED BY <4>3, <4>4
    <3>2. CASE ~limit[c]
      <4>1. captured[c] = taken[c]
        BY <3>2 DEF CaptureSound
      <4>2. /\ captured'[c][s] = captured[c][s] + remaining[c]
            /\ taken'[c][s] = captured[c][s] + n
        BY <1>5, <2>1, <4>1 DEF TypeOK
      <4> QED BY <1>2, <1>6, <4>2
    <3> QED BY <3>1, <3>2
  <2> QED BY <1>3, <1>4, <2>1, <2>2 DEF CaptureSound, Supervised
<1>7. CASE ~(n > remaining[c])
  <2>1. /\ captured'[c] = [captured[c] EXCEPT ![s] = captured[c][s] + n]
        /\ limit'[c] = limit[c] /\ reading'[c] = reading[c]
    BY <1>1, <1>7 DEF Append, TypeOK
  <2>2. ~limit[c]
    BY <1>2, <1>7 DEF CaptureSound
  <2>3. captured'[c] = taken'[c]
    BY <1>5, <2>1, <2>2 DEF CaptureSound
  <2>4. ASSUME NEW t \in Streams \ reading'[c]
        PROVE  PipesClosed(c)' /\ taken'[c][t] = written'[c][t]
    <3>1. t # s /\ PipesClosed(c) /\ taken[c][t] = written[c][t]
      BY <1>3, <1>4, <2>1, <2>2, <2>4 DEF CaptureSound
    <3> QED BY <1>3, <1>5, <3>1 DEF TypeOK, PipesClosed
  <2> QED BY <1>3, <1>4, <2>1, <2>2, <2>3, <2>4 DEF CaptureSound, Supervised
<1> QED BY <1>6, <1>7

\* The end of a stream, and the steps of _collect_process.
LEMMA CollectKeepsCapture ==
    ASSUME CaptureInv, NEW c \in Calls,
           \/ \E s \in Streams : ReadEof(c, s)
           \/ WakeOnExit(c) \/ WakeOnLimit(c) \/ LimitTerminated(c) \/ Drained(c)
    PROVE  CaptureSound(c)'
<1> USE DEF CaptureInv, CaptureSound, IndInv, TypeOK
<1>1. ASSUME NEW s \in Streams, ReadEof(c, s) PROVE CaptureSound(c)'
  <2>1. /\ UNCHANGED <<pc, reason, proc, descendant, written, taken, captured, remaining, limit>>
        /\ reading'[c] = reading[c] \ {s} /\ s \in reading[c] /\ PipesClosed(c)
    BY <1>1 DEF ReadEof, osVars
  <2>2. taken[c][s] = written[c][s]
    <3>1. taken[c][s] \in Nat /\ written[c][s] \in Nat
      <4>1. taken[c][s] \in 0..MaxWrite /\ written[c][s] \in 0..MaxWrite
        BY <1>1
      <4> QED BY <4>1, LimitsAssumption
    <3>2. written[c][s] - taken[c][s] = 0
      BY <1>1 DEF ReadEof, Unread
    <3>3. \A a, b \in Nat : a - b = 0 => b = a
      OBVIOUS
    <3> QED BY ONLY <3>1, <3>2, <3>3
  <2> QED BY <2>1, <2>2 DEF Supervised, PipesClosed
<1>2. CASE WakeOnExit(c) \/ LimitTerminated(c)
  <2>1. /\ pc'[c] = "draining" /\ Supervised(c)
        /\ UNCHANGED <<reason, proc, descendant, written, taken, captured, remaining, limit, reading>>
    BY <1>2 DEF WakeOnExit, LimitTerminated, Supervised, osVars, captureVars
  <2> QED BY <2>1 DEF Supervised, PipesClosed
<1>3. CASE WakeOnLimit(c)
  <2>1. /\ pc'[c] \in {"limiting", "draining"} /\ Supervised(c) /\ limit[c]
        /\ UNCHANGED <<reason, written, taken, captured, remaining, limit, reading>>
    BY <1>3 DEF WakeOnLimit, Supervised, captureVars
  <2>2. reason[c] = "none"
    BY <2>1 DEF Supervised
  <2> QED BY <2>1, <2>2 DEF Supervised
<1>4. CASE Drained(c)
  <2>1. /\ pc'[c] = "returned" /\ reading[c] = {} /\ Supervised(c)
        /\ reason'[c] = IF limit[c] THEN "output_limit" ELSE "exited"
        /\ UNCHANGED <<proc, descendant, written, taken, captured, remaining, limit, reading>>
    BY <1>4 DEF Drained, DrainedReason, Finish, Supervised, osVars, captureVars
  <2>2. CASE limit[c]
    BY <2>1, <2>2 DEF Supervised
  <2>3. CASE ~limit[c]
    <3>1. PipesClosed(c) /\ \A s \in Streams : taken[c][s] = written[c][s]
      BY <2>1, <2>3 DEF Streams
    <3>2. taken[c] \in [Streams -> 0..MaxWrite] /\ written[c] \in [Streams -> 0..MaxWrite]
      OBVIOUS
    <3>3. taken[c] = written[c]
      BY <3>1, <3>2
    <3> QED BY <2>1, <2>3, <3>1, <3>3 DEF Supervised, PipesClosed
  <2> QED BY <2>2, <2>3
<1> QED BY <1>1, <1>2, <1>3, <1>4

\* The ways out that tell nothing about the output.
LEMMA AbandonKeepsCapture ==
    ASSUME CaptureInv, NEW c \in Calls,
           Timeout(c) \/ Cancel(c) \/ Terminated(c) \/ CancelAgain(c)
    PROVE  CaptureSound(c)'
<1> USE DEF CaptureInv, CaptureSound, IndInv, TypeOK
<1>1. /\ pc'[c] \in {"timing_out", "aborting", "returned"}
      /\ pc[c] \notin {"idle", "returned"}
      /\ UNCHANGED <<taken, captured, remaining, limit>>
      /\ reading'[c] = {}
  BY DEF Timeout, Cancel, Terminated, CancelAgain, StopReaders, Finish, Supervised, captureVars
<1>2. /\ reason'[c] \in {"none", "timeout", "cancelled"}
      /\ reason'[c] # "none" => pc'[c] = "returned"
  BY DEF Timeout, Cancel, Terminated, CancelAgain, Finish, Supervised
<1> QED BY <1>1, <1>2 DEF Supervised

\* The operating system: nothing is written to a pipe that no process holds.
LEMMA EnvironmentKeepsCapture ==
    ASSUME CaptureInv, NEW c \in Calls, Environment(c)
    PROVE  CaptureSound(c)'
<1> USE DEF CaptureInv, CaptureSound, IndInv, TypeOK
<1>1. UNCHANGED <<pc, reason, taken, captured, remaining, limit, reading>>
  BY DEF Environment, Write, Fork, Exit, Reap, DescendantExit, captureVars
<1>2. PipesClosed(c) => PipesClosed(c)' /\ written'[c] = written[c]
  BY DEF Environment, Write, Fork, Exit, Reap, DescendantExit, PipesClosed
<1> QED BY <1>1, <1>2 DEF Supervised

LEMMA CaptureInductive == Spec => []CaptureInv
<1>1. Init => CaptureInv
  BY InitEstablishes, LimitsAssumption
  DEF Init, CaptureInv, CaptureSound, Supervised, PipesClosed
<1>2. CaptureInv /\ [Next]_vars => CaptureInv'
  <2> SUFFICES ASSUME CaptureInv, [Next]_vars PROVE CaptureInv'
    OBVIOUS
  <2>1. IndInv'
    BY StepKeeps, EnvironmentKeeps, StutterKeeps DEF CaptureInv, Next
  <2>2. ASSUME NEW c \in Calls, Step(c) \/ Environment(c), NEW d \in Calls
        PROVE  CaptureSound(d)'
    <3>1. CASE d # c
      BY <2>2, <3>1, OthersUntouched, UntouchedKeeps DEF CaptureInv, IndInv
    <3>2. CASE d = c
      <4>1. CaptureSound(c)'
        BY <2>2, StartKeepsCapture, ReadKeepsCapture, CollectKeepsCapture,
           AbandonKeepsCapture, EnvironmentKeepsCapture DEF Step
      <4> QED BY <3>2, <4>1
    <3> QED BY <3>1, <3>2
  <2>3. ASSUME UNCHANGED vars, NEW d \in Calls PROVE CaptureSound(d)'
    BY <2>3, UntouchedKeeps DEF vars, CaptureInv, Untouched
  <2> QED BY <2>1, <2>2, <2>3 DEF CaptureInv, Next
<1> QED BY <1>1, <1>2, PTL DEF Spec

-----------------------------------------------------------------------------
\* Every variable of every call keeps its type, whatever the limits.
THEOREM TypeCorrect == Spec => []TypeOK
<1>1. IndInv => TypeOK
  BY DEF IndInv
<1> QED BY <1>1, Inductive, PTL

\* The semaphore's value and the calls between acquire and release always add up
\* to max_concurrent_jobs: no slot is lost and none is given back twice.
THEOREM SlotsAlwaysBalanced == Spec => []SlotsBalanced
<1>1. IndInv => SlotsBalanced
  BY DEF IndInv
<1> QED BY <1>1, Inductive, PTL

\* No run_process returns leaving its child running without a SIGKILL.
THEOREM ReturnedChildIsSignalled == Spec => []ChildrenSignalled
<1>1. IndInv => ChildrenSignalled
  BY DEF IndInv
<1> QED BY <1>1, Inductive, PTL

\* The children that run undisturbed never outnumber max_concurrent_jobs.
THEOREM RunningChildrenBounded == Spec => []ChildrenBounded
<1>1. ASSUME IndInv PROVE ChildrenBounded
  <2> DEFINE Running == {c \in Calls : proc[c] = "alive"}
  <2>1. Running \subseteq Holding
    BY <1>1 DEF IndInv, Orderly, Holding
  <2>2. Cardinality(Running) <= Cardinality(Holding) /\ Cardinality(Running) \in Nat
    BY <2>1, HoldingFinite, FS_Subset, FS_CardinalityType
  <2>3. free \in Nat /\ MaxConcurrent \in Nat /\ free + Cardinality(Holding) = MaxConcurrent
    BY <1>1, LimitsAssumption DEF IndInv, TypeOK, SlotsBalanced
  <2>4. Cardinality(Running) <= MaxConcurrent
    BY <2>2, <2>3, HoldingFinite
  <2> QED BY <2>4 DEF ChildrenBounded
<1> QED BY <1>1, Inductive, PTL

\* What the two readers keep of both streams and what is left of the budget add
\* up to max_output_bytes, in every interleaving of their chunks.
THEOREM BudgetAlwaysShared == Spec => []BudgetShared
<1>1. IndInv => BudgetShared
  BY DEF IndInv
<1> QED BY <1>1, Inductive, PTL

\* A result that says "exited" holds every byte that was written to both pipes,
\* whoever wrote it, and none can be written any more.
THEOREM ExitedResultIsComplete == Spec => []ExitedIsComplete
<1>1. CaptureInv => ExitedIsComplete
  BY DEF CaptureInv, CaptureSound, ExitedIsComplete
<1> QED BY <1>1, CaptureInductive, PTL

\* A result that says "output_limit" holds exactly max_output_bytes, and output
\* was lost: reaching the budget is not exceeding it.
THEOREM LimitMeansTruncation == Spec => []LimitIsTruncation
<1>1. ASSUME CaptureInv PROVE LimitIsTruncation
  <2> SUFFICES ASSUME NEW c \in Calls, reason[c] = "output_limit"
               PROVE  /\ captured[c]["stdout"] + captured[c]["stderr"] = MaxOutput
                      /\ \E s \in Streams : captured[c][s] < taken[c][s]
    BY DEF LimitIsTruncation
  <2>1. remaining[c] = 0 /\ \E s \in Streams : captured[c][s] < taken[c][s]
    BY <1>1 DEF CaptureInv, CaptureSound
  <2>2. /\ captured[c]["stdout"] \in Nat /\ captured[c]["stderr"] \in Nat
        /\ captured[c]["stdout"] + captured[c]["stderr"] + remaining[c] = MaxOutput
    BY <1>1, LimitsAssumption DEF CaptureInv, IndInv, TypeOK, BudgetShared, Streams
  <2> QED BY <2>1, <2>2
<1> QED BY <1>1, CaptureInductive, PTL

=============================================================================
