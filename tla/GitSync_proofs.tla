---------------------------- MODULE GitSync_proofs ----------------------------
(***************************************************************************)
(* Theorems about GitSync, for every history, every set of calls and, but  *)
(* for GuardedAdvance and ReportsHold, every moment at which others act.   *)
(***************************************************************************)
EXTENDS GitSync, TLAPS

\* The call that holds the lock is the one that runs.
LockHeld == \A c \in Calls : status[c] = "running" <=> lock = c

Inv == TypeOK /\ LockHeld

\* What a sync has required since its fetch is still so, when others act only
\* while the fetch waits.
SyncHolds(c) ==
    /\ pc[c] >= 7 => seen[c].fetched = tracking
    /\ pc[c] >= 8 => trusted
    /\ pc[c] >= 9 => branch = Configured
    /\ pc[c] >= 10 => clean

RequiredStillHolds ==
    \A c \in Calls : status[c] = "running" /\ Kind[c] = "sync" => SyncHolds(c)

\* A step that ends the call c, and one that goes on to its next command.
EndsCall(c) == \E s \in {"done", "up to date", "failed"} : End(c, s)

GoesOn(c) ==
    /\ pc[c] # Len(CommandsOf(c))
    /\ pc' = [pc EXCEPT ![c] = @ + 1]
    /\ \E view \in Views : seen' = [seen EXCEPT ![c] = view]
    /\ UNCHANGED <<status, lock, found>>

-----------------------------------------------------------------------------
(* The scripts.                                                            *)

\* How many commands each tool has.
LEMMA Lengths ==
    ASSUME NEW c \in Calls
    PROVE  /\ Kind[c] = "status" => Len(CommandsOf(c)) = 6
           /\ Kind[c] = "fetch" => Len(CommandsOf(c)) = 5
           /\ Kind[c] = "sync" => Len(CommandsOf(c)) = 13
BY DEF CommandsOf, Script, Kinds

\* The length of a script is one of three numbers.
LEMMA LengthIsNat ==
    ASSUME NEW c \in Calls
    PROVE  Len(CommandsOf(c)) \in {5, 6, 13}
BY Lengths, GitAssumption DEF Kinds

\* Where the commands that matter to an advance are.
LEMMA Places ==
    ASSUME NEW c \in Calls, status[c] = "running", pc[c] \in 1..Len(CommandsOf(c))
    PROVE  /\ At(c, "merge") => Kind[c] = "sync" /\ pc[c] = 12
           /\ Kind[c] = "sync" /\ pc[c] = 7 => At(c, "validate")
           /\ Kind[c] = "sync" /\ pc[c] = 8 => At(c, "require branch")
           /\ Kind[c] = "sync" /\ pc[c] = 9 => At(c, "require clean")
           /\ Kind[c] = "sync" /\ pc[c] = 6 => At(c, "fetched")
           /\ At(c, "fetch") => pc[c] \in {3, 5}
           /\ At(c, "fetch") /\ Kind[c] = "sync" => pc[c] = 5
           /\ Kind[c] = "sync" /\ CommandsOf(c)[pc[c]] = "fetch" => pc[c] = 5
<1>1. CASE Kind[c] = "status"
  <2>1. pc[c] \in 1..6
    BY <1>1, Lengths
  <2> QED BY <1>1, <2>1 DEF At, CommandsOf, Script, Kinds
<1>2. CASE Kind[c] = "fetch"
  <2>1. pc[c] \in 1..5
    BY <1>2, Lengths
  <2> QED BY <1>2, <2>1 DEF At, CommandsOf, Script, Kinds
<1>3. CASE Kind[c] = "sync"
  <2> DEFINE s == CommandsOf(c)
  <2>1. pc[c] \in 1..13
    BY <1>3, Lengths
  <2>2. /\ s[1] = "validate" /\ s[2] = "require branch" /\ s[3] = "require clean"
        /\ s[4] = "tracking" /\ s[5] = "fetch" /\ s[6] = "fetched"
    BY <1>3 DEF CommandsOf, Script, Kinds
  <2>3. /\ s[7] = "validate" /\ s[8] = "require branch" /\ s[9] = "require clean"
        /\ s[10] = "compare" /\ s[11] = "ancestor" /\ s[12] = "merge" /\ s[13] = "verify"
    BY <1>3 DEF CommandsOf, Script, Kinds
  <2>4. \A command : At(c, command) <=> s[pc[c]] = command
    BY DEF At
  <2> HIDE DEF s
  <2>a. PICK k : k = pc[c]
    OBVIOUS
  <2>b. \/ k = 1 \/ k = 2 \/ k = 3 \/ k = 4 \/ k = 5 \/ k = 6 \/ k = 7
        \/ k = 8 \/ k = 9 \/ k = 10 \/ k = 11 \/ k = 12 \/ k = 13
    BY <2>1, <2>a
  <2>5. s[pc[c]] = "merge" => pc[c] = 12
    BY <2>a, <2>b, <2>2, <2>3, Zenon
  <2>6. s[pc[c]] = "fetch" => pc[c] = 5
    BY <2>a, <2>b, <2>2, <2>3, Zenon
  <2>7. At(c, "merge") => pc[c] = 12
    BY <2>4, <2>5
  <2>8. At(c, "fetch") => pc[c] = 5
    BY <2>4, <2>6
  <2>9. /\ pc[c] = 7 => At(c, "validate")
        /\ pc[c] = 8 => At(c, "require branch")
        /\ pc[c] = 9 => At(c, "require clean")
        /\ pc[c] = 6 => At(c, "fetched")
    BY <2>2, <2>3, <2>4
  <2> QED BY <1>3, <2>6, <2>7, <2>8, <2>9 DEF s
<1> QED BY <1>1, <1>2, <1>3, GitAssumption DEF Kinds

-----------------------------------------------------------------------------
(* Type correctness, and the lock.                                         *)

\* A call begins with a view.
LEMMA NothingSeenIsView == NothingSeen \in Views
BY DEF NothingSeen, Views

\* Proceed ends the call or goes on, by its own condition.
LEMMA ProceedShape ==
    ASSUME NEW c \in Calls, NEW view \in Views, Proceed(c, view)
    PROVE  EndsCall(c) \/ GoesOn(c)
<1>1. CASE pc[c] = Len(CommandsOf(c))
  BY <1>1 DEF Proceed, EndsCall
<1>2. CASE pc[c] # Len(CommandsOf(c))
  BY <1>2 DEF Proceed, GoesOn
<1> QED BY <1>1, <1>2

\* What a step of a running call does to the calls, whatever its command.
LEMMA RunShape ==
    ASSUME NEW c \in Calls, TypeOK, Run(c)
    PROVE  status[c] = "running" /\ (EndsCall(c) \/ GoesOn(c))
<1>0. seen[c] \in Views /\ branch \in Branches /\ heads[branch] \in Commits
      /\ clean \in BOOLEAN /\ tracking \in Commits \cup {NoCommit}
  BY DEF TypeOK
<1>1. CASE Validate(c)
  BY <1>0, <1>1, ProceedShape DEF Validate, At
<1>2. CASE Require(c)
  BY <1>0, <1>2, ProceedShape DEF Require, At
<1>3. CASE Read(c)
  <2>1. /\ [seen[c] EXCEPT !.branch = branch] \in Views
        /\ [seen[c] EXCEPT !.head = heads[branch]] \in Views
        /\ [seen[c] EXCEPT !.clean = clean] \in Views
        /\ [seen[c] EXCEPT !.previous = tracking] \in Views
        /\ [seen[c] EXCEPT !.fetched = tracking] \in Views
    BY <1>0 DEF Views
  <2>2. status[c] = "running"
    BY <1>3 DEF Read, At
  <2>3. End(c, "done") => EndsCall(c)
    BY DEF EndsCall
  <2> QED BY <1>0, <1>3, <2>1, <2>2, <2>3, ProceedShape DEF Read
<1>4. CASE Fetch(c)
  <2>1. End(c, "failed") => EndsCall(c)
    BY DEF EndsCall
  <2> QED BY <1>0, <1>4, <2>1, ProceedShape DEF Fetch, At
<1>5. CASE Compare(c)
  <2>1. End(c, "up to date") => EndsCall(c)
    BY DEF EndsCall
  <2>2. [seen[c] EXCEPT !.head = heads[branch]] \in Views
    BY <1>0 DEF Views
  <2> QED BY <1>0, <1>5, <2>1, <2>2, ProceedShape DEF Compare, At
<1>6. CASE Ancestor(c)
  BY <1>0, <1>6, ProceedShape DEF Ancestor, At
<1>7. CASE Merge(c)
  <2>1. End(c, "failed") => EndsCall(c)
    BY DEF EndsCall
  <2> QED BY <1>0, <1>7, <2>1, ProceedShape DEF Merge, At
<1>8. CASE MergeTorn(c)
  BY <1>8 DEF MergeTorn, At, EndsCall
<1>9. CASE Verify(c)
  BY <1>0, <1>9, ProceedShape DEF Verify, At
<1>10. CASE Fail(c)
  BY <1>10 DEF Fail, EndsCall
<1> QED BY <1>1, <1>2, <1>3, <1>4, <1>5, <1>6, <1>7, <1>8, <1>9, <1>10 DEF Run

\* What a step of a running call does to the repository: the tracking ref moves
\* only in Fetch, the branches only in Merge, and both only forward.
LEMMA RunRepository ==
    ASSUME NEW c \in Calls, Inv, Run(c)
    PROVE  /\ UNCHANGED <<upstream, branch, trusted>>
           /\ clean' = clean \/ (clean' = FALSE /\ EndsCall(c))
           /\ \/ UNCHANGED tracking
              \/ /\ At(c, "fetch") /\ tracking' = upstream
                 /\ tracking = NoCommit \/ IsBefore(tracking, upstream)
           /\ \/ UNCHANGED heads
              \/ /\ At(c, "merge") /\ IsBefore(heads[branch], tracking)
                 /\ heads' = [heads EXCEPT ![branch] = tracking]
<1>1. CASE Validate(c) \/ Require(c) \/ Read(c) \/ Compare(c) \/ Ancestor(c) \/ Verify(c)
             \/ Fail(c)
  BY <1>1 DEF Validate, Require, Read, Compare, Ancestor, Verify, Fail, repository
<1>2. CASE Fetch(c)
  BY <1>2 DEF Fetch
<1>3. CASE Merge(c)
  BY <1>3 DEF Merge
<1>4. CASE MergeTorn(c)
  BY <1>4 DEF MergeTorn, EndsCall
<1> QED BY <1>1, <1>2, <1>3, <1>4 DEF Run

\* What a step that ends or goes on leaves of the types and of the lock.
LEMMA CallsInv ==
    ASSUME NEW c \in Calls, Inv, Run(c)
    PROVE  /\ lock' \in Calls \cup {NoCall}
           /\ status' \in [Calls -> {"idle", "running", "done", "up to date", "refused", "failed"}]
           /\ pc' \in [Calls -> Nat]
           /\ \A d \in Calls :
                 pc'[d] \in IF status'[d] = "running" THEN 1..Len(CommandsOf(d)) ELSE {0}
           /\ seen' \in [Calls -> Views]
           /\ found' \in [Calls -> Commits \cup {NoCommit}]
           /\ LockHeld'
<1>1. status[c] = "running" /\ (EndsCall(c) \/ GoesOn(c))
  BY RunShape DEF Inv
<1>2. lock = c /\ \A d \in Calls : d # c => status[d] # "running"
  BY <1>1 DEF Inv, LockHeld
<1>3. CASE EndsCall(c)
  <2>1. PICK s \in {"done", "up to date", "failed"} : End(c, s)
    BY <1>3 DEF EndsCall
  <2>2. /\ lock' \in Calls \cup {NoCall}
        /\ status' \in [Calls -> {"idle", "running", "done", "up to date", "refused", "failed"}]
    BY <2>1 DEF End, Inv, TypeOK
  <2>3. pc' \in [Calls -> Nat]
    BY <2>1 DEF End, Inv, TypeOK
  <2>4. \A d \in Calls : status'[d] # "running" /\ pc'[d] = 0
    BY <1>2, <2>1 DEF End, Inv, TypeOK
  <2>5. seen' \in [Calls -> Views]
    BY <2>1, NothingSeenIsView DEF End, Inv, TypeOK
  <2>6. found' \in [Calls -> Commits \cup {NoCommit}]
    BY <2>1 DEF End, Inv, TypeOK
  <2>7. LockHeld'
    BY <2>1, <2>4, GitAssumption DEF End, LockHeld
  <2> QED BY <2>2, <2>3, <2>4, <2>5, <2>6, <2>7
<1>4. CASE GoesOn(c)
  <2>1. UNCHANGED <<status, lock, found>> /\ pc' = [pc EXCEPT ![c] = @ + 1]
    BY <1>4 DEF GoesOn
  <2>2. pc' \in [Calls -> Nat]
    <3>1. pc \in [Calls -> Nat]
      BY DEF Inv, TypeOK
    <3>2. pc[c] + 1 \in Nat
      BY <3>1
    <3> QED BY <2>1, <3>1, <3>2
  <2>3. PICK view \in Views : seen' = [seen EXCEPT ![c] = view]
    BY <1>4 DEF GoesOn
  <2>4. seen' \in [Calls -> Views]
    BY <2>3 DEF Inv, TypeOK
  <2>5. ASSUME NEW d \in Calls
        PROVE  pc'[d] \in IF status'[d] = "running" THEN 1..Len(CommandsOf(d)) ELSE {0}
    <3>1. CASE d = c
      <4>1. pc[c] \in 1..Len(CommandsOf(c)) /\ pc[c] # Len(CommandsOf(c))
        BY <1>1, <1>4 DEF Inv, TypeOK, GoesOn
      <4>2. pc'[c] = pc[c] + 1 /\ status'[c] = "running"
        BY <1>1, <2>1 DEF Inv, TypeOK
      <4>3. pc'[c] \in 1..Len(CommandsOf(c))
        BY <4>1, <4>2, LengthIsNat
      <4> QED BY <3>1, <4>2, <4>3
    <3>2. CASE d # c
      <4>1. pc'[d] = pc[d] /\ status'[d] = status[d]
        BY <2>1, <3>2 DEF Inv, TypeOK
      <4> QED BY <4>1 DEF Inv, TypeOK
    <3> QED BY <3>1, <3>2
  <2>6. LockHeld'
    BY <2>1 DEF Inv, LockHeld
  <2>7. /\ lock' \in Calls \cup {NoCall} /\ found' \in [Calls -> Commits \cup {NoCommit}]
        /\ status' \in [Calls -> {"idle", "running", "done", "up to date", "refused", "failed"}]
    BY <2>1 DEF Inv, TypeOK
  <2> QED BY <2>2, <2>4, <2>5, <2>6, <2>7
<1> QED BY <1>1, <1>3, <1>4

\* A command of the running call keeps the types and the lock.
LEMMA RunInv ==
    ASSUME NEW c \in Calls, Inv, Run(c)
    PROVE  Inv'
<1>1. upstream' \in Commits /\ branch' \in Branches /\ trusted' \in BOOLEAN /\ clean' \in BOOLEAN
  BY RunRepository DEF Inv, TypeOK
<1>2. tracking' \in Commits \cup {NoCommit}
  BY RunRepository DEF Inv, TypeOK
<1>3. heads' \in [Branches -> Commits]
  <2>1. CASE UNCHANGED heads
    BY <2>1 DEF Inv, TypeOK
  <2>2. CASE heads' = [heads EXCEPT ![branch] = tracking] /\ IsBefore(heads[branch], tracking)
    <3>1. tracking \in Commits
      BY <2>2, GitAssumption DEF IsBefore
    <3> QED BY <2>2, <3>1 DEF Inv, TypeOK
  <2> QED BY <2>1, <2>2, RunRepository
<1> QED BY <1>1, <1>2, <1>3, CallsInv DEF Inv, TypeOK

\* The initial state satisfies the invariant.
LEMMA InvInit == Init => Inv
<1> SUFFICES ASSUME Init PROVE Inv
  OBVIOUS
<1>1. TypeOK
  BY GitAssumption, NothingSeenIsView DEF Init, TypeOK
<1>2. LockHeld
  BY GitAssumption DEF Init, LockHeld
<1> QED BY <1>1, <1>2 DEF Inv

\* Every step of the calls, the remote and other processes keeps it.
LEMMA InvNext == Inv /\ [Next]_vars => Inv'
<1> SUFFICES ASSUME Inv, [Next]_vars PROVE Inv'
  OBVIOUS
<1>1. ASSUME NEW c \in Calls, Enter(c) PROVE Inv'
  <2>1. /\ lock = NoCall /\ lock' = c /\ status' = [status EXCEPT ![c] = "running"]
        /\ pc' = [pc EXCEPT ![c] = 1] /\ found' = [found EXCEPT ![c] = tracking]
        /\ UNCHANGED <<repository, seen>>
    BY <1>1 DEF Enter
  <2>2. LockHeld'
    BY <2>1, GitAssumption DEF Inv, TypeOK, LockHeld
  <2>3. \A d \in Calls : pc'[d] \in IF status'[d] = "running" THEN 1..Len(CommandsOf(d)) ELSE {0}
    <3> TAKE d \in Calls
    <3>1. CASE d = c
      <4>1. pc'[d] = 1 /\ status'[d] = "running"
        BY <2>1, <3>1 DEF Inv, TypeOK
      <4>2. PICK n \in {5, 6, 13} : n = Len(CommandsOf(d))
        BY LengthIsNat
      <4>3. 1 \in 1..n
        OBVIOUS
      <4> QED BY <4>1, <4>2, <4>3
    <3>2. CASE d # c
      <4>1. pc'[d] = pc[d] /\ status'[d] = status[d]
        BY <2>1, <3>2 DEF Inv, TypeOK
      <4> QED BY <4>1 DEF Inv, TypeOK
    <3> QED BY <3>1, <3>2
  <2>4. pc' \in [Calls -> Nat] /\ found' \in [Calls -> Commits \cup {NoCommit}]
    BY <2>1 DEF Inv, TypeOK
  <2>5. status' \in [Calls -> {"idle", "running", "done", "up to date", "refused", "failed"}]
    BY <2>1 DEF Inv, TypeOK
  <2>6. lock' \in Calls \cup {NoCall} /\ seen' \in [Calls -> Views]
    BY <2>1 DEF Inv, TypeOK
  <2> QED BY <2>1, <2>2, <2>3, <2>4, <2>5, <2>6 DEF Inv, TypeOK, repository
<1>2. ASSUME NEW c \in Calls, Refuse(c) PROVE Inv'
  <2>1. /\ status[c] # "running" /\ status' = [status EXCEPT ![c] = "refused"]
        /\ UNCHANGED <<repository, lock, pc, seen, found>>
    BY <1>2 DEF Refuse
  <2>2. \A d \in Calls : status'[d] = "running" <=> status[d] = "running"
    BY <2>1 DEF Inv, TypeOK
  <2>3. status' \in [Calls -> {"idle", "running", "done", "up to date", "refused", "failed"}]
    BY <2>1 DEF Inv, TypeOK
  <2>4. LockHeld'
    BY <2>1, <2>2 DEF Inv, LockHeld
  <2>5. \A d \in Calls : pc'[d] \in IF status'[d] = "running" THEN 1..Len(CommandsOf(d)) ELSE {0}
    BY <2>1, <2>2 DEF Inv, TypeOK
  <2> QED BY <2>1, <2>3, <2>4, <2>5 DEF Inv, TypeOK, repository
<1>3. ASSUME NEW c \in Calls, Run(c) PROVE Inv'
  BY <1>3, RunInv
<1>4. CASE Push
  <2>1. upstream' \in Commits
    BY <1>4, GitAssumption DEF Push
  <2>2. UNCHANGED <<tracking, heads, branch, clean, trusted, lock, status, pc, seen, found>>
    BY <1>4 DEF Push
  <2> QED BY <2>1, <2>2 DEF Inv, TypeOK, LockHeld
<1>5. CASE Meddle
  <2>1. UNCHANGED <<upstream, lock, status, pc, seen, found>>
    BY <1>5 DEF Meddle
  <2>2. heads' \in [Branches -> Commits] /\ branch' \in Branches
    BY <1>5, GitAssumption DEF Meddle, Inv, TypeOK
  <2>3. clean' \in BOOLEAN /\ trusted' \in BOOLEAN /\ tracking' \in Commits \cup {NoCommit}
    BY <1>5 DEF Meddle, Inv, TypeOK
  <2> QED BY <2>1, <2>2, <2>3 DEF Inv, TypeOK, LockHeld
<1>6. CASE UNCHANGED vars
  BY <1>6 DEF vars, repository, Inv, TypeOK, LockHeld
<1> QED BY <1>1, <1>2, <1>3, <1>4, <1>5, <1>6 DEF Next

\* The invariant holds in every reachable state.
LEMMA InvAlways == Spec => []Inv
BY InvInit, InvNext, PTL DEF Spec

\* Every history, every set of calls and every moment at which others act leave
\* the locks and the refs what git_service.py takes them for.
THEOREM TypeCorrect == Spec => []TypeOK
<1>1. Inv => TypeOK
  BY DEF Inv
<1> QED BY <1>1, InvAlways, PTL

\* One call at a time is between the first and the last command of a project:
\* the lock of git_service.py is held by the one that runs (_lock, lines 71-72).
THEOREM OneCallRuns == Spec => []LockHeld
<1>1. Inv => LockHeld
  BY DEF Inv
<1> QED BY <1>1, InvAlways, PTL

\* Whatever others do and whenever they do it, no step of git_fetch or
\* git_sync_fast_forward moves a branch or the tracking ref other than forward
\* (an unforced refspec, merge --ff-only).
THEOREM ServiceNeverRewinds == Spec => NeverRewinds
<1> DEFINE Forward == Served =>
        /\ \A b \in Branches : IsBefore(heads[b], heads'[b])
        /\ tracking # NoCommit => IsBefore(tracking, tracking')
<1>1. Inv /\ [Next]_vars => [Forward]_vars
  <2> SUFFICES ASSUME Inv, Next, Served
               PROVE  /\ \A b \in Branches : IsBefore(heads[b], heads'[b])
                      /\ tracking # NoCommit => IsBefore(tracking, tracking')
    OBVIOUS
  <2>0. /\ \A b \in Branches : IsBefore(heads[b], heads[b])
        /\ tracking # NoCommit => IsBefore(tracking, tracking)
    BY GitAssumption DEF IsBefore, Inv, TypeOK
  <2>1. ASSUME NEW c \in Calls, Enter(c) \/ Refuse(c) PROVE UNCHANGED <<heads, tracking>>
    BY <2>1 DEF Enter, Refuse, repository
  <2>2. ASSUME NEW c \in Calls, Run(c)
        PROVE  /\ \A b \in Branches : IsBefore(heads[b], heads'[b])
               /\ tracking # NoCommit => IsBefore(tracking, tracking')
    <3>1. \A b \in Branches : IsBefore(heads[b], heads'[b])
      BY <2>0, <2>2, RunRepository DEF Inv, TypeOK
    <3>2. tracking # NoCommit => IsBefore(tracking, tracking')
      BY <2>0, <2>2, RunRepository
    <3> QED BY <3>1, <3>2
  <2>3. ~Push /\ ~Meddle
    BY DEF Served, Push, Meddle
  <2> QED BY <2>0, <2>1, <2>2, <2>3 DEF Next
<1> QED BY <1>1, InvAlways, PTL DEF Spec, NeverRewinds

-----------------------------------------------------------------------------
(* The advance of a branch.                                                *)

\* A step that goes on ends no call.
LEMMA GoesOnDoesNotEnd ==
    ASSUME NEW c \in Calls, Inv, Run(c), GoesOn(c)
    PROVE  /\ \A s : s # "running" => ~End(c, s)
           /\ ~Fail(c) /\ ~EndsCall(c)
<1>1. status[c] = "running" /\ status' = status
  BY RunShape DEF Inv, GoesOn
<1>2. ASSUME NEW s, s # "running", End(c, s) PROVE FALSE
  <2>1. status' = [status EXCEPT ![c] = s]
    BY <1>2 DEF End
  <2>2. status'[c] = s
    BY <2>1 DEF Inv, TypeOK
  <2> QED BY <1>1, <1>2, <2>2
<1> QED BY <1>2 DEF Fail, EndsCall

\* A call that goes on did not fail, so it saw what the command requires.
LEMMA CommandSucceeded ==
    ASSUME NEW c \in Calls, Inv, Run(c), GoesOn(c)
    PROVE  /\ At(c, "validate") => trusted
           /\ At(c, "require branch") => branch = Configured
           /\ At(c, "require clean") => clean
           /\ UNCHANGED clean
<1>1. ~Fail(c) /\ ~EndsCall(c)
  BY GoesOnDoesNotEnd
<1>2. /\ At(c, "validate") => trusted
      /\ At(c, "require branch") => branch = Configured
      /\ At(c, "require clean") => clean
  <2>1. CASE Validate(c) \/ Require(c)
    BY <2>1 DEF Validate, Require, At
  <2>2. CASE Read(c) \/ Compare(c) \/ Ancestor(c) \/ Verify(c)
    BY <2>2 DEF Read, Compare, Ancestor, Verify, At
  <2>3. CASE Fetch(c) \/ Merge(c) \/ MergeTorn(c)
    BY <2>3 DEF Fetch, Merge, MergeTorn, At
  <2> QED BY <1>1, <2>1, <2>2, <2>3 DEF Run
<1>3. UNCHANGED clean
  BY <1>1, RunRepository
<1> QED BY <1>2, <1>3

\* The view that Proceed hands on is what the call has seen in the next state.
LEMMA ProceedSees ==
    ASSUME NEW c \in Calls, NEW view, Inv, GoesOn(c), Proceed(c, view)
    PROVE  seen'[c] = view
<1>1. pc[c] # Len(CommandsOf(c))
  BY DEF GoesOn
<1>2. seen' = [seen EXCEPT ![c] = view]
  BY <1>1 DEF Proceed
<1> QED BY <1>2 DEF Inv, TypeOK

\* Only the command that reads the fetched ref changes what was fetched.
LEMMA FetchedSeen ==
    ASSUME NEW c \in Calls, Inv, Run(c), GoesOn(c)
    PROVE  /\ At(c, "fetched") => seen'[c].fetched = tracking
           /\ seen'[c].fetched \in {seen[c].fetched, tracking}
           /\ seen'[c].fetched # seen[c].fetched => UNCHANGED tracking
<1>0. ~End(c, "done") /\ ~End(c, "up to date") /\ ~End(c, "failed")
  BY GoesOnDoesNotEnd
<1>1. seen[c] \in Views
  BY DEF Inv, TypeOK
<1>2. CASE Proceed(c, seen[c]) /\ ~At(c, "fetched")
  BY <1>2, ProceedSees
<1>3. CASE Read(c)
  <2>1. CASE At(c, "branch") /\ Proceed(c, [seen[c] EXCEPT !.branch = branch])
    <3>1. seen'[c].fetched = seen[c].fetched
      BY <1>1, <2>1, ProceedSees DEF Views
    <3> QED BY <2>1, <3>1 DEF At
  <2>2. CASE At(c, "head") /\ Proceed(c, [seen[c] EXCEPT !.head = heads[branch]])
    <3>1. seen'[c].fetched = seen[c].fetched
      BY <1>1, <2>2, ProceedSees DEF Views
    <3> QED BY <2>2, <3>1 DEF At
  <2>3. CASE At(c, "clean") /\ Proceed(c, [seen[c] EXCEPT !.clean = clean])
    <3>1. seen'[c].fetched = seen[c].fetched
      BY <1>1, <2>3, ProceedSees DEF Views
    <3> QED BY <2>3, <3>1 DEF At
  <2>4. CASE At(c, "tracking") /\ Proceed(c, [seen[c] EXCEPT !.previous = tracking])
    <3>1. seen'[c].fetched = seen[c].fetched
      BY <1>1, <2>4, ProceedSees DEF Views
    <3> QED BY <2>4, <3>1 DEF At
  <2>5. CASE At(c, "divergence") /\ Proceed(c, seen[c])
    BY <2>5, ProceedSees DEF At
  <2>6. CASE At(c, "fetched") /\ Proceed(c, [seen[c] EXCEPT !.fetched = tracking])
    <3>1. seen'[c].fetched = tracking
      BY <1>1, <2>6, ProceedSees DEF Views
    <3> QED BY <1>3, <3>1 DEF Read, repository
  <2> QED BY <1>0, <1>3, <2>1, <2>2, <2>3, <2>4, <2>5, <2>6 DEF Read
<1>4. CASE Compare(c)
  <2>1. Proceed(c, [seen[c] EXCEPT !.head = heads[branch]])
    BY <1>0, <1>4 DEF Compare
  <2>2. seen'[c].fetched = seen[c].fetched
    BY <1>1, <2>1, ProceedSees DEF Views
  <2> QED BY <1>4, <2>2 DEF Compare, At
<1>5. CASE Validate(c) \/ Require(c) \/ Ancestor(c) \/ Verify(c)
  BY <1>2, <1>5 DEF Validate, Require, Ancestor, Verify, At
<1>6. CASE Fetch(c) \/ Merge(c)
  BY <1>0, <1>2, <1>6 DEF Fetch, Merge, At
<1>7. ~MergeTorn(c) /\ ~Fail(c)
  BY <1>0 DEF MergeTorn, Fail
<1> QED BY <1>3, <1>4, <1>5, <1>6, <1>7 DEF Run

\* A sync that goes on still has what it required before, and what the
\* command it is at requires.
LEMMA GoingOnHolds ==
    ASSUME NEW c \in Calls, Inv, Run(c), GoesOn(c), Kind[c] = "sync", SyncHolds(c)
    PROVE  SyncHolds(c)'
<1>1. status[c] = "running" /\ pc \in [Calls -> Nat] /\ pc[c] \in 1..Len(CommandsOf(c))
  BY RunShape DEF Inv, TypeOK, GoesOn, EndsCall, End
<1>2. pc'[c] = pc[c] + 1 /\ pc[c] \in Nat
  BY <1>1 DEF GoesOn
<1>3. /\ At(c, "fetch") => pc[c] = 5
      /\ pc[c] = 6 => At(c, "fetched")
      /\ pc[c] = 7 => At(c, "validate")
      /\ pc[c] = 8 => At(c, "require branch")
      /\ pc[c] = 9 => At(c, "require clean")
  BY <1>1, Places
<1>4. /\ UNCHANGED <<branch, trusted, clean>>
      /\ pc[c] # 5 => UNCHANGED tracking
  BY <1>3, RunRepository, CommandSucceeded
<1>5. pc'[c] >= 7 => seen'[c].fetched = tracking'
  <2>1. CASE pc[c] = 6
    BY <1>3, <1>4, <2>1, FetchedSeen
  <2>2. CASE pc[c] >= 7
    BY <1>4, <2>2, FetchedSeen DEF SyncHolds
  <2> QED BY <1>2, <2>1, <2>2
<1>6. pc'[c] >= 8 => trusted'
  <2>1. CASE pc[c] = 7
    BY <1>3, <1>4, <2>1, CommandSucceeded
  <2>2. CASE pc[c] >= 8
    BY <1>4, <2>2 DEF SyncHolds
  <2> QED BY <1>2, <2>1, <2>2
<1>7. pc'[c] >= 9 => branch' = Configured
  <2>1. CASE pc[c] = 8
    BY <1>3, <1>4, <2>1, CommandSucceeded
  <2>2. CASE pc[c] >= 9
    BY <1>4, <2>2 DEF SyncHolds
  <2> QED BY <1>2, <2>1, <2>2
<1>8. pc'[c] >= 10 => clean'
  <2>1. CASE pc[c] = 9
    BY <1>3, <1>4, <2>1, CommandSucceeded
  <2>2. CASE pc[c] >= 10
    BY <1>4, <2>2 DEF SyncHolds
  <2> QED BY <1>2, <2>1, <2>2
<1> QED BY <1>5, <1>6, <1>7, <1>8 DEF SyncHolds

\* No step takes from a running sync what it required after its fetch.
LEMMA RequiredStays ==
    ASSUME MeddleAt \subseteq {"fetch"}, Inv, RequiredStillHolds, [Next]_vars
    PROVE  RequiredStillHolds'
<1> SUFFICES ASSUME NEW d \in Calls, status'[d] = "running", Kind[d] = "sync"
             PROVE  SyncHolds(d)'
  BY DEF RequiredStillHolds
<1>0. status \in [Calls -> {"idle", "running", "done", "up to date", "refused", "failed"}]
      /\ pc \in [Calls -> Nat] /\ pc[d] \in Nat
  BY DEF Inv, TypeOK
<1>1. ASSUME NEW c \in Calls, Enter(c) PROVE SyncHolds(d)'
  <2>1. d = c
    BY <1>0, <1>1, GitAssumption DEF Enter, Inv, LockHeld
  <2>2. pc'[d] = 1
    BY <1>0, <1>1, <2>1 DEF Enter
  <2> QED BY <2>2 DEF SyncHolds
<1>2. ASSUME NEW c \in Calls, Refuse(c) PROVE SyncHolds(d)'
  <2>1. status[d] = "running"
    BY <1>0, <1>2 DEF Refuse
  <2>2. SyncHolds(d)
    BY <2>1 DEF RequiredStillHolds
  <2> QED BY <1>2, <2>2 DEF Refuse, SyncHolds, repository
<1>3. ASSUME NEW c \in Calls, Run(c) PROVE SyncHolds(d)'
  <2>1. status[c] = "running" /\ (EndsCall(c) \/ GoesOn(c))
    BY <1>3, RunShape DEF Inv
  <2>2. \A e \in Calls : e # c => status[e] # "running"
    BY <2>1 DEF Inv, LockHeld
  <2>3. ~EndsCall(c)
    BY <1>0, <2>2 DEF EndsCall, End
  <2>4. GoesOn(c) /\ d = c
    BY <2>1, <2>2, <2>3 DEF GoesOn
  <2>5. SyncHolds(c)
    BY <2>1, <2>4 DEF RequiredStillHolds
  <2> QED BY <1>3, <2>4, <2>5, GoingOnHolds
<1>4. CASE Push
  <2>1. SyncHolds(d)
    BY <1>4 DEF Push, RequiredStillHolds
  <2> QED BY <1>4, <2>1 DEF Push, SyncHolds
<1>5. CASE Meddle
  <2>1. status[d] = "running" /\ pc'[d] = pc[d]
    BY <1>5 DEF Meddle
  <2>2. CommandsOf(d)[pc[d]] = "fetch"
    BY <1>5, <2>1 DEF Meddle
  <2>3. pc[d] = 5
    BY <2>1, <2>2, Places DEF Inv, TypeOK
  <2> QED BY <2>1, <2>3 DEF SyncHolds
<1>6. CASE UNCHANGED vars
  <2>1. SyncHolds(d)
    BY <1>6 DEF vars, RequiredStillHolds
  <2> QED BY <1>6, <2>1 DEF vars, repository, SyncHolds
<1> QED BY <1>1, <1>2, <1>3, <1>4, <1>5, <1>6 DEF Next

\* When no other process acts on the repository but while a fetch waits for the
\* network, git_sync_fast_forward moves no branch but the configured one, in a
\* clean and validated repository, to the commit it fetched: what it requires a
\* second time (lines 179-180) is what the merge finds.
THEOREM AdvanceIsGuarded ==
    ASSUME MeddleAt \subseteq {"fetch"}
    PROVE  Spec => GuardedAdvance
<1> DEFINE Guarded == Served /\ heads' # heads =>
        /\ branch = Configured /\ clean /\ trusted
        /\ heads' = [heads EXCEPT ![Configured] = seen[lock].fetched]
<1>1. Init => RequiredStillHolds
  BY DEF Init, RequiredStillHolds
<1>2. Inv /\ RequiredStillHolds /\ [Next]_vars => RequiredStillHolds'
  BY RequiredStays
<1>3. Inv /\ RequiredStillHolds /\ [Next]_vars => [Guarded]_vars
  <2> SUFFICES ASSUME Inv, RequiredStillHolds, Next, Served, heads' # heads
               PROVE  /\ branch = Configured /\ clean /\ trusted
                      /\ heads' = [heads EXCEPT ![Configured] = seen[lock].fetched]
    OBVIOUS
  <2>1. ~Push /\ ~Meddle
    BY DEF Served, Push, Meddle
  <2>2. \A c \in Calls : ~Enter(c) /\ ~Refuse(c)
    BY DEF Enter, Refuse, repository
  <2>3. PICK c \in Calls : Run(c)
    BY <2>1, <2>2 DEF Next
  <2>4. At(c, "merge") /\ heads' = [heads EXCEPT ![branch] = tracking]
    BY <2>3, RunRepository
  <2>5. status[c] = "running" /\ lock = c
    BY <2>4 DEF At, Inv, LockHeld
  <2>6. Kind[c] = "sync" /\ pc[c] = 12
    BY <2>4, <2>5, Places DEF Inv, TypeOK
  <2>7. SyncHolds(c)
    BY <2>5, <2>6 DEF RequiredStillHolds
  <2>8. seen[c].fetched = tracking /\ trusted /\ branch = Configured /\ clean
    BY <2>6, <2>7 DEF SyncHolds
  <2> QED BY <2>4, <2>5, <2>8
<1> QED BY <1>1, <1>2, <1>3, InvAlways, PTL DEF Spec, GuardedAdvance

\* Whatever others do and whenever they do it, a sync that moves a branch moves the
\* one that is checked out, alone, by a fast-forward to where the tracking ref is: what
\* is left of GuardedAdvance when the repository changes between its commands.
AdvanceFollowsTracking ==
    [][Served /\ heads' # heads =>
          /\ Kind[lock] = "sync" /\ status[lock] = "running"
          /\ IsBefore(heads[branch], tracking)
          /\ heads' = [heads EXCEPT ![branch] = tracking]]_vars

\* merge --ff-only (git_sync_fast_forward, lines 206-215) names the tracking ref, so
\* that is where HEAD goes, and only from a commit before it.
THEOREM AdvanceIsFastForward == Spec => AdvanceFollowsTracking
<1> DEFINE Follows == Served /\ heads' # heads =>
        /\ Kind[lock] = "sync" /\ status[lock] = "running"
        /\ IsBefore(heads[branch], tracking)
        /\ heads' = [heads EXCEPT ![branch] = tracking]
<1>1. Inv /\ [Next]_vars => [Follows]_vars
  <2> SUFFICES ASSUME Inv, Next, Served, heads' # heads
               PROVE  /\ Kind[lock] = "sync" /\ status[lock] = "running"
                      /\ IsBefore(heads[branch], tracking)
                      /\ heads' = [heads EXCEPT ![branch] = tracking]
    OBVIOUS
  <2>1. ~Push /\ ~Meddle
    BY DEF Served, Push, Meddle
  <2>2. \A c \in Calls : ~Enter(c) /\ ~Refuse(c)
    BY DEF Enter, Refuse, repository
  <2>3. PICK c \in Calls : Run(c)
    BY <2>1, <2>2 DEF Next
  <2>4. /\ At(c, "merge") /\ IsBefore(heads[branch], tracking)
        /\ heads' = [heads EXCEPT ![branch] = tracking]
    BY <2>3, RunRepository
  <2>5. status[c] = "running" /\ lock = c
    BY <2>4 DEF At, Inv, LockHeld
  <2>6. Kind[c] = "sync"
    BY <2>4, <2>5, Places DEF Inv, TypeOK
  <2> QED BY <2>4, <2>5, <2>6
<1> QED BY <1>1, InvAlways, PTL DEF Spec, AdvanceFollowsTracking

-----------------------------------------------------------------------------
(* What a call reports.                                                    *)

\* What a call has read so far is still so, or was when a fetch began; what a sync
\* compared is before what it fetched.
ReadHolds(c) ==
    CASE Kind[c] = "status" ->
           /\ pc[c] >= 3 => seen[c].branch = branch
           /\ pc[c] >= 4 => seen[c].head = heads[branch]
           /\ pc[c] >= 5 => seen[c].clean = clean
           /\ seen[c].previous = IF pc[c] >= 6 THEN tracking ELSE NoCommit
      [] Kind[c] = "fetch" ->
           /\ (IF pc[c] >= 3 THEN seen[c].previous ELSE tracking) = found[c]
           /\ pc[c] >= 5 => seen[c].fetched = tracking
      [] Kind[c] = "sync" ->
           /\ SyncHolds(c)
           /\ pc[c] = 11 => seen[c].head = heads[branch]
           /\ pc[c] >= 12 => IsBefore(seen[c].head, seen[c].fetched)

ReadStillHolds == \A c \in Calls : status[c] = "running" => ReadHolds(c)

\* ReadHolds, one tool at a time.
LEMMA ReadHoldsIs ==
    ASSUME NEW c \in Calls
    PROVE  /\ Kind[c] = "status" =>
                 (ReadHolds(c) <=> /\ pc[c] >= 3 => seen[c].branch = branch
                                   /\ pc[c] >= 4 => seen[c].head = heads[branch]
                                   /\ pc[c] >= 5 => seen[c].clean = clean
                                   /\ seen[c].previous = IF pc[c] >= 6 THEN tracking ELSE NoCommit)
           /\ Kind[c] = "fetch" =>
                 (ReadHolds(c) <=> /\ (IF pc[c] >= 3 THEN seen[c].previous ELSE tracking) = found[c]
                                   /\ pc[c] >= 5 => seen[c].fetched = tracking)
           /\ Kind[c] = "sync" =>
                 (ReadHolds(c) <=> /\ SyncHolds(c)
                                   /\ pc[c] = 11 => seen[c].head = heads[branch]
                                   /\ pc[c] >= 12 => IsBefore(seen[c].head, seen[c].fetched))
<1>1. CASE Kind[c] = "status"
  BY <1>1 DEF ReadHolds
<1>2. CASE Kind[c] = "fetch"
  BY <1>2 DEF ReadHolds
<1>3. CASE Kind[c] = "sync"
  BY <1>3 DEF ReadHolds
<1>4. CASE Kind[c] \notin Kinds
  BY <1>4, GitAssumption
<1> QED BY <1>1, <1>2, <1>3, <1>4 DEF Kinds

\* Where a call is by the command it is at.
LEMMA ReadingPlaces ==
    ASSUME NEW c \in Calls, status[c] = "running", pc[c] \in 1..Len(CommandsOf(c))
    PROVE  /\ Kind[c] = "status" =>
                 /\ pc[c] \in 1..6
                 /\ At(c, "branch") <=> pc[c] = 2
                 /\ At(c, "head") <=> pc[c] = 3
                 /\ At(c, "clean") <=> pc[c] = 4
                 /\ At(c, "tracking") <=> pc[c] = 5
                 /\ At(c, "divergence") <=> pc[c] = 6
                 /\ ~At(c, "fetch") /\ ~At(c, "merge") /\ ~At(c, "compare") /\ ~At(c, "fetched")
           /\ Kind[c] = "fetch" =>
                 /\ pc[c] \in 1..5
                 /\ At(c, "tracking") <=> pc[c] = 2
                 /\ At(c, "fetch") <=> pc[c] = 3
                 /\ At(c, "fetched") <=> pc[c] = 4
                 /\ pc[c] = 5 => At(c, "validate")
           /\ Kind[c] = "sync" =>
                 /\ pc[c] \in 1..13
                 /\ At(c, "compare") <=> pc[c] = 10
                 /\ pc[c] = 11 => At(c, "ancestor")
                 /\ pc[c] = 13 => At(c, "verify")
                 /\ At(c, "fetched") <=> pc[c] = 6
                 /\ ~At(c, "head")
                 /\ At(c, "tracking") <=> pc[c] = 4
<1>1. CASE Kind[c] = "status"
  <2>1. pc[c] \in 1..6
    BY <1>1, Lengths
  <2> QED BY <1>1, <2>1 DEF At, CommandsOf, Script, Kinds
<1>2. CASE Kind[c] = "fetch"
  <2>1. pc[c] \in 1..5
    BY <1>2, Lengths
  <2> QED BY <1>2, <2>1 DEF At, CommandsOf, Script, Kinds
<1>3. CASE Kind[c] = "sync"
  <2> DEFINE s == CommandsOf(c)
  <2>1. pc[c] \in 1..13
    BY <1>3, Lengths
  <2>2. /\ s[1] = "validate" /\ s[2] = "require branch" /\ s[3] = "require clean"
        /\ s[4] = "tracking" /\ s[5] = "fetch" /\ s[6] = "fetched"
    BY <1>3 DEF CommandsOf, Script, Kinds
  <2>3. /\ s[7] = "validate" /\ s[8] = "require branch" /\ s[9] = "require clean"
        /\ s[10] = "compare" /\ s[11] = "ancestor" /\ s[12] = "merge" /\ s[13] = "verify"
    BY <1>3 DEF CommandsOf, Script, Kinds
  <2>4. \A command : At(c, command) <=> s[pc[c]] = command
    BY DEF At
  <2> HIDE DEF s
  <2>5. PICK k : k = pc[c]
    OBVIOUS
  <2>6. \/ k = 1 \/ k = 2 \/ k = 3 \/ k = 4 \/ k = 5 \/ k = 6 \/ k = 7
        \/ k = 8 \/ k = 9 \/ k = 10 \/ k = 11 \/ k = 12 \/ k = 13
    BY <2>1, <2>5
  <2>7. PICK m : m = s[k]
    OBVIOUS
  <2>8. /\ m = "compare" <=> k = 10
        /\ m = "fetched" <=> k = 6
        /\ m = "tracking" <=> k = 4
        /\ m # "head"
        /\ k = 11 => m = "ancestor"
        /\ k = 13 => m = "verify"
    BY <2>2, <2>3, <2>6, <2>7
  <2> QED BY <1>3, <2>1, <2>4, <2>5, <2>7, <2>8
<1> QED BY <1>1, <1>2, <1>3, GitAssumption DEF Kinds

\* What a command that succeeds adds to what its call has seen.
LEMMA SeenMoves ==
    ASSUME NEW c \in Calls, Inv, Run(c), GoesOn(c)
    PROVE  /\ seen'[c].branch = IF At(c, "branch") THEN branch ELSE seen[c].branch
           /\ seen'[c].head = IF At(c, "head") \/ At(c, "compare") THEN heads[branch] ELSE seen[c].head
           /\ seen'[c].clean = IF At(c, "clean") THEN clean ELSE seen[c].clean
           /\ seen'[c].previous = IF At(c, "tracking") THEN tracking ELSE seen[c].previous
           /\ seen'[c].fetched = IF At(c, "fetched") THEN tracking ELSE seen[c].fetched
           /\ At(c, "ancestor") => IsBefore(heads[branch], tracking)
<1>0. /\ ~End(c, "done") /\ ~End(c, "up to date") /\ ~End(c, "failed")
      /\ ~MergeTorn(c) /\ ~Fail(c)
  BY GoesOnDoesNotEnd DEF MergeTorn, Fail
<1>1. seen[c] \in Views
  BY DEF Inv, TypeOK
<1>2. PICK m : \A command : At(c, command) <=> (status[c] = "running" /\ m = command)
  BY DEF At
<1>3. CASE Proceed(c, seen[c]) /\ m \in {"validate", "require branch", "require clean", "divergence",
                                         "fetch", "merge", "verify"}
  <2>1. seen'[c] = seen[c]
    BY <1>3, ProceedSees
  <2>2. m \notin {"branch", "head", "compare", "clean", "tracking", "fetched", "ancestor"}
    BY <1>3
  <2>3. /\ ~At(c, "branch") /\ ~At(c, "head") /\ ~At(c, "compare") /\ ~At(c, "clean")
        /\ ~At(c, "tracking") /\ ~At(c, "fetched") /\ ~At(c, "ancestor")
    BY <1>2, <2>2, Zenon
  <2> QED BY <2>1, <2>3
<1>4. CASE Read(c)
  <2>1. CASE At(c, "branch") /\ Proceed(c, [seen[c] EXCEPT !.branch = branch])
    BY <1>1, <1>2, <2>1, ProceedSees DEF Views
  <2>2. CASE At(c, "head") /\ Proceed(c, [seen[c] EXCEPT !.head = heads[branch]])
    BY <1>1, <1>2, <2>2, ProceedSees DEF Views
  <2>3. CASE At(c, "clean") /\ Proceed(c, [seen[c] EXCEPT !.clean = clean])
    BY <1>1, <1>2, <2>3, ProceedSees DEF Views
  <2>4. CASE At(c, "tracking") /\ Proceed(c, [seen[c] EXCEPT !.previous = tracking])
    BY <1>1, <1>2, <2>4, ProceedSees DEF Views
  <2>5. CASE At(c, "divergence") /\ Proceed(c, seen[c])
    BY <1>2, <1>3, <2>5
  <2>6. CASE At(c, "fetched") /\ Proceed(c, [seen[c] EXCEPT !.fetched = tracking])
    BY <1>1, <1>2, <2>6, ProceedSees DEF Views
  <2> QED BY <1>0, <1>4, <2>1, <2>2, <2>3, <2>4, <2>5, <2>6 DEF Read
<1>5. CASE Compare(c)
  <2>1. At(c, "compare") /\ Proceed(c, [seen[c] EXCEPT !.head = heads[branch]])
    BY <1>0, <1>5 DEF Compare
  <2> QED BY <1>1, <1>2, <2>1, ProceedSees DEF Views
<1>6. CASE Ancestor(c)
  <2>1. At(c, "ancestor") /\ IsBefore(heads[branch], tracking) /\ Proceed(c, seen[c])
    BY <1>6 DEF Ancestor
  <2> QED BY <1>2, <2>1, ProceedSees
<1>7. CASE Validate(c) \/ Require(c) \/ Verify(c)
  BY <1>2, <1>3, <1>7 DEF Validate, Require, Verify
<1>8. CASE Fetch(c) \/ Merge(c)
  BY <1>0, <1>2, <1>3, <1>8 DEF Fetch, Merge
<1> QED BY <1>0, <1>4, <1>5, <1>6, <1>7, <1>8 DEF Run

\* A call that does not run has seen nothing.
NothingKept == \A c \in Calls : status[c] # "running" => seen[c] = NothingSeen

\* What a command changes of what its call reads, and of when it began.
LEMMA GoingOnLeaves ==
    ASSUME NEW c \in Calls, Inv, Run(c), GoesOn(c)
    PROVE  /\ pc[c] \in 1..Len(CommandsOf(c)) /\ pc[c] \in Nat /\ status[c] = "running"
           /\ pc'[c] = pc[c] + 1 /\ pc'[c] <= Len(CommandsOf(c))
           /\ UNCHANGED <<branch, trusted, clean, found>>
           /\ ~At(c, "fetch") => UNCHANGED tracking
           /\ ~At(c, "merge") => UNCHANGED heads
<1>1. status[c] = "running"
  BY RunShape DEF Inv
<1>2. pc[c] \in 1..Len(CommandsOf(c)) /\ pc \in [Calls -> Nat] /\ pc[c] \in Nat
  BY <1>1 DEF Inv, TypeOK
<1>3. pc'[c] = pc[c] + 1 /\ pc[c] # Len(CommandsOf(c)) /\ UNCHANGED found
  BY <1>2 DEF GoesOn
<1>4. pc'[c] <= Len(CommandsOf(c))
  BY <1>2, <1>3, LengthIsNat
<1> QED BY <1>1, <1>2, <1>3, <1>4, RunRepository, CommandSucceeded

\* A call that goes on adds what is so to what it has read, and what it had read
\* stays so.
LEMMA ReadGoesOn ==
    ASSUME NEW c \in Calls, Inv, Run(c), GoesOn(c), ReadHolds(c)
    PROVE  ReadHolds(c)'
<1>0. /\ pc[c] \in 1..Len(CommandsOf(c)) /\ pc[c] \in Nat /\ status[c] = "running"
      /\ pc'[c] = pc[c] + 1
      /\ UNCHANGED <<branch, clean, found>>
      /\ ~At(c, "fetch") => UNCHANGED tracking
      /\ ~At(c, "merge") => UNCHANGED heads
  BY GoingOnLeaves
<1>1. CASE Kind[c] = "status"
  <2>1. /\ At(c, "branch") <=> pc[c] = 2
        /\ At(c, "head") <=> pc[c] = 3
        /\ At(c, "clean") <=> pc[c] = 4
        /\ At(c, "tracking") <=> pc[c] = 5
        /\ ~At(c, "fetch") /\ ~At(c, "merge") /\ ~At(c, "compare")
    BY <1>0, <1>1, ReadingPlaces
  <2>2. UNCHANGED <<branch, clean, tracking, heads>>
    BY <1>0, <2>1
  <2>3. /\ pc[c] >= 3 => seen[c].branch = branch
        /\ pc[c] >= 4 => seen[c].head = heads[branch]
        /\ pc[c] >= 5 => seen[c].clean = clean
        /\ seen[c].previous = IF pc[c] >= 6 THEN tracking ELSE NoCommit
    BY <1>1, ReadHoldsIs
  <2>4. pc'[c] >= 3 => seen'[c].branch = branch'
    BY <1>0, <2>1, <2>2, <2>3, SeenMoves
  <2>5. pc'[c] >= 4 => seen'[c].head = heads'[branch']
    BY <1>0, <2>1, <2>2, <2>3, SeenMoves
  <2>6. pc'[c] >= 5 => seen'[c].clean = clean'
    BY <1>0, <2>1, <2>2, <2>3, SeenMoves
  <2>7. seen'[c].previous = IF pc'[c] >= 6 THEN tracking' ELSE NoCommit
    <3>1. CASE pc[c] = 5
      BY <1>0, <2>1, <2>2, <3>1, SeenMoves
    <3>2. CASE pc[c] # 5
      <4>1. seen'[c].previous = seen[c].previous
        BY <2>1, <3>2, SeenMoves
      <4>2. pc'[c] >= 6 <=> pc[c] >= 6
        BY <1>0, <3>2
      <4> QED BY <2>2, <2>3, <4>1, <4>2
    <3> QED BY <3>1, <3>2
  <2> QED BY <1>1, <2>4, <2>5, <2>6, <2>7 DEF ReadHolds
<1>2. CASE Kind[c] = "fetch"
  <2>1. /\ At(c, "tracking") <=> pc[c] = 2
        /\ At(c, "fetch") <=> pc[c] = 3
        /\ At(c, "fetched") <=> pc[c] = 4
    BY <1>0, <1>2, ReadingPlaces
  <2>2. /\ (IF pc[c] >= 3 THEN seen[c].previous ELSE tracking) = found[c]
        /\ pc[c] >= 5 => seen[c].fetched = tracking
    BY <1>2, ReadHoldsIs
  <2>3. /\ seen'[c].previous = IF At(c, "tracking") THEN tracking ELSE seen[c].previous
        /\ seen'[c].fetched = IF At(c, "fetched") THEN tracking ELSE seen[c].fetched
    BY SeenMoves
  <2>4. pc[c] # 3 => tracking' = tracking
    BY <1>0, <2>1
  <2>5. (IF pc'[c] >= 3 THEN seen'[c].previous ELSE tracking') = found'[c]
    <3>1. CASE pc[c] = 2
      BY <1>0, <2>1, <2>2, <2>3, <3>1
    <3>2. CASE pc[c] >= 3
      BY <1>0, <2>1, <2>2, <2>3, <3>2
    <3>3. CASE pc[c] < 2
      <4>1. tracking = found[c] /\ ~(pc'[c] >= 3) /\ tracking' = tracking /\ found' = found
        BY <1>0, <2>2, <2>4, <3>3
      <4> QED BY <4>1
    <3> QED BY <1>0, <3>1, <3>2, <3>3
  <2>6. pc'[c] >= 5 => seen'[c].fetched = tracking'
    <3>1. CASE pc[c] = 4
      BY <2>1, <2>3, <2>4, <3>1
    <3>2. CASE pc[c] >= 5
      <4>1. tracking' = tracking /\ ~At(c, "fetched")
        BY <2>1, <2>4, <3>2
      <4> QED BY <2>2, <2>3, <3>2, <4>1
    <3> QED BY <1>0, <3>1, <3>2
  <2> QED BY <1>2, <2>5, <2>6 DEF ReadHolds
<1>3. CASE Kind[c] = "sync"
  <2>1. /\ At(c, "compare") <=> pc[c] = 10
        /\ pc[c] = 11 => At(c, "ancestor")
        /\ At(c, "fetched") <=> pc[c] = 6
        /\ ~At(c, "head")
    BY <1>0, <1>3, ReadingPlaces
  <2>2. At(c, "merge") => pc[c] = 12
    BY <1>0, Places
  <2>3. /\ SyncHolds(c)
        /\ pc[c] = 11 => seen[c].head = heads[branch]
        /\ pc[c] >= 12 => IsBefore(seen[c].head, seen[c].fetched)
    BY <1>3, ReadHoldsIs
  <2>4. SyncHolds(c)'
    BY <1>3, <2>3, GoingOnHolds
  <2>5. /\ seen'[c].head = IF At(c, "head") \/ At(c, "compare") THEN heads[branch] ELSE seen[c].head
        /\ seen'[c].fetched = IF At(c, "fetched") THEN tracking ELSE seen[c].fetched
        /\ At(c, "ancestor") => IsBefore(heads[branch], tracking)
    BY SeenMoves
  <2>6. pc'[c] = 11 => seen'[c].head = heads'[branch']
    <3> SUFFICES ASSUME pc'[c] = 11 PROVE seen'[c].head = heads'[branch']
      OBVIOUS
    <3>1. pc[c] = 10
      BY <1>0
    <3> QED BY <1>0, <2>1, <2>2, <2>5, <3>1
  <2>7. pc'[c] >= 12 => IsBefore(seen'[c].head, seen'[c].fetched)
    <3> SUFFICES ASSUME pc'[c] >= 12 PROVE IsBefore(seen'[c].head, seen'[c].fetched)
      OBVIOUS
    <3>1. pc[c] = 11 \/ pc[c] >= 12
      BY <1>0
    <3>2. pc[c] # 10 /\ pc[c] # 6 /\ pc[c] >= 7
      BY <1>0, <3>1
    <3>3. seen'[c].head = seen[c].head /\ seen'[c].fetched = seen[c].fetched
      BY <2>1, <2>5, <3>2
    <3>4. CASE pc[c] = 11
      <4>1. seen[c].head = heads[branch] /\ IsBefore(heads[branch], tracking)
        BY <2>1, <2>3, <2>5, <3>4
      <4>2. seen[c].fetched = tracking
        BY <2>3, <3>2 DEF SyncHolds
      <4> QED BY <3>3, <4>1, <4>2
    <3>5. CASE pc[c] >= 12
      BY <2>3, <3>3, <3>5
    <3> QED BY <3>1, <3>4, <3>5
  <2> QED BY <1>3, <2>4, <2>6, <2>7 DEF ReadHolds, IsBefore
<1> QED BY <1>1, <1>2, <1>3, GitAssumption DEF Kinds

\* Outside a fetch and a sync's fetch, nobody else changes what a call has read.
LEMMA MeddlingSpares ==
    ASSUME MeddleAt \subseteq {"fetch"}, NEW c \in Calls, Inv, Meddle, status[c] = "running",
           ReadHolds(c)
    PROVE  ReadHolds(c)'
<1>1. pc' = pc /\ seen' = seen /\ found' = found /\ CommandsOf(c)[pc[c]] = "fetch"
  BY DEF Meddle
<1>2. pc[c] \in 1..Len(CommandsOf(c)) /\ pc[c] \in Nat /\ At(c, "fetch")
  BY <1>1 DEF Inv, TypeOK, At
<1>3. Kind[c] # "status"
  BY <1>2, ReadingPlaces
<1>4. CASE Kind[c] = "fetch"
  <2>1. pc[c] = 3
    BY <1>2, <1>4, ReadingPlaces
  <2>2. seen[c].previous = found[c]
    BY <1>4, <2>1, ReadHoldsIs
  <2> QED BY <1>1, <1>4, <2>1, <2>2 DEF ReadHolds
<1>5. CASE Kind[c] = "sync"
  <2>1. pc[c] = 5
    BY <1>2, <1>5, Places
  <2> QED BY <1>1, <1>5, <2>1 DEF ReadHolds, SyncHolds
<1> QED BY <1>3, <1>4, <1>5, GitAssumption DEF Kinds

\* What ReadHolds speaks of.
LEMMA ReadHoldsKept ==
    ASSUME NEW c \in Calls, ReadHolds(c), pc'[c] = pc[c], seen'[c] = seen[c], found'[c] = found[c],
           UNCHANGED <<tracking, heads, branch, clean, trusted>>
    PROVE  ReadHolds(c)'
BY DEF ReadHolds, SyncHolds, IsBefore

\* No step makes what a running call has read untrue.
LEMMA ReadStays ==
    ASSUME MeddleAt \subseteq {"fetch"}, Inv, NothingKept, ReadStillHolds, [Next]_vars
    PROVE  NothingKept' /\ ReadStillHolds'
<1>0. /\ status \in [Calls -> {"idle", "running", "done", "up to date", "refused", "failed"}]
      /\ pc \in [Calls -> Nat] /\ seen \in [Calls -> Views]
      /\ found \in [Calls -> Commits \cup {NoCommit}]
  BY DEF Inv, TypeOK
<1>1. ASSUME NEW c \in Calls, Enter(c) PROVE NothingKept' /\ ReadStillHolds'
  <2>1. /\ status[c] # "running" /\ lock = NoCall
        /\ status' = [status EXCEPT ![c] = "running"] /\ pc' = [pc EXCEPT ![c] = 1]
        /\ found' = [found EXCEPT ![c] = tracking] /\ UNCHANGED <<repository, seen>>
    BY <1>1 DEF Enter
  <2>2. \A d \in Calls : status[d] # "running"
    BY <2>1, GitAssumption DEF Inv, LockHeld
  <2>3. pc'[c] = 1 /\ found'[c] = tracking /\ \A d \in Calls : status'[d] = "running" => d = c
    BY <1>0, <2>1, <2>2
  <2>4. seen'[c] = NothingSeen /\ tracking' = tracking
    BY <2>1 DEF NothingKept, repository
  <2>5. NothingSeen.previous = NoCommit
    BY DEF NothingSeen
  <2>6. ReadHolds(c)'
    <3>1. CASE Kind[c] = "status"
      BY <2>3, <2>4, <2>5, <3>1 DEF ReadHolds
    <3>2. CASE Kind[c] = "fetch"
      BY <2>3, <2>4, <3>2 DEF ReadHolds
    <3>3. CASE Kind[c] = "sync"
      BY <2>3, <3>3 DEF ReadHolds, SyncHolds
    <3> QED BY <3>1, <3>2, <3>3, GitAssumption DEF Kinds
  <2>7. NothingKept'
    BY <2>1, <2>2 DEF NothingKept
  <2> QED BY <2>3, <2>6, <2>7 DEF ReadStillHolds
<1>2. ASSUME NEW c \in Calls, Refuse(c) PROVE NothingKept' /\ ReadStillHolds'
  <2>1. /\ status[c] # "running" /\ status' = [status EXCEPT ![c] = "refused"]
        /\ UNCHANGED <<upstream, tracking, heads, branch, clean, trusted, lock, pc, seen, found>>
    BY <1>2 DEF Refuse, repository
  <2>2. \A d \in Calls : status'[d] = "running" <=> status[d] = "running"
    BY <1>0, <2>1
  <2>3. NothingKept'
    BY <2>1, <2>2 DEF NothingKept
  <2>4. ASSUME NEW d \in Calls, status'[d] = "running" PROVE ReadHolds(d)'
    BY <2>1, <2>2, <2>4, ReadHoldsKept DEF ReadStillHolds
  <2> QED BY <2>3, <2>4 DEF ReadStillHolds
<1>3. ASSUME NEW c \in Calls, Run(c) PROVE NothingKept' /\ ReadStillHolds'
  <2>1. status[c] = "running" /\ (EndsCall(c) \/ GoesOn(c))
    BY <1>3, RunShape DEF Inv
  <2>2. \A d \in Calls : d # c => status[d] # "running"
    BY <2>1 DEF Inv, LockHeld
  <2>3. CASE EndsCall(c)
    <3>1. PICK s \in {"done", "up to date", "failed"} : End(c, s)
      BY <2>3 DEF EndsCall
    <3>2. status' = [status EXCEPT ![c] = s] /\ seen' = [seen EXCEPT ![c] = NothingSeen]
          /\ s # "running"
      BY <3>1 DEF End
    <3>3. \A d \in Calls : status'[d] # "running"
      BY <1>0, <2>2, <3>2
    <3>4. \A d \in Calls : seen'[d] = NothingSeen
      BY <1>0, <2>2, <3>2 DEF NothingKept
    <3> QED BY <3>3, <3>4 DEF NothingKept, ReadStillHolds
  <2>4. CASE GoesOn(c)
    <3>1. status' = status /\ \A d \in Calls : d # c => seen'[d] = seen[d]
      BY <1>0, <2>4 DEF GoesOn
    <3>2. NothingKept'
      BY <2>1, <3>1 DEF NothingKept
    <3>3. ReadHolds(c)'
      BY <1>3, <2>1, <2>4, ReadGoesOn DEF ReadStillHolds
    <3> QED BY <2>2, <3>1, <3>2, <3>3 DEF ReadStillHolds
  <2> QED BY <2>1, <2>3, <2>4
<1>4. CASE Push
  <2>1. UNCHANGED <<tracking, heads, branch, clean, trusted, lock, status, pc, seen, found>>
    BY <1>4 DEF Push
  <2>2. ASSUME NEW d \in Calls, status'[d] = "running" PROVE ReadHolds(d)'
    BY <2>1, <2>2, ReadHoldsKept DEF ReadStillHolds
  <2> QED BY <2>1, <2>2 DEF NothingKept, ReadStillHolds
<1>5. CASE Meddle
  <2>1. status' = status /\ seen' = seen
    BY <1>5 DEF Meddle
  <2>2. ASSUME NEW d \in Calls, status'[d] = "running" PROVE ReadHolds(d)'
    BY <1>5, <2>1, <2>2, MeddlingSpares DEF ReadStillHolds
  <2> QED BY <2>1, <2>2 DEF NothingKept, ReadStillHolds
<1>6. CASE UNCHANGED vars
  <2>1. UNCHANGED <<tracking, heads, branch, clean, trusted, lock, status, pc, seen, found>>
    BY <1>6 DEF vars, repository
  <2>2. ASSUME NEW d \in Calls, status'[d] = "running" PROVE ReadHolds(d)'
    BY <2>1, <2>2, ReadHoldsKept DEF ReadStillHolds
  <2> QED BY <2>1, <2>2 DEF NothingKept, ReadStillHolds
<1> QED BY <1>1, <1>2, <1>3, <1>4, <1>5, <1>6 DEF Next

\* A command ends its call as done only when it is the last one, or when a status
\* finds no tracking ref; the last one saw what it requires.
LEMMA DoneIsLast ==
    ASSUME NEW c \in Calls, Inv, Run(c), End(c, "done")
    PROVE  /\ \/ pc[c] = Len(CommandsOf(c))
              \/ At(c, "tracking") /\ Kind[c] = "status" /\ tracking = NoCommit
           /\ At(c, "verify") => heads[branch] = seen[c].fetched
<1>1. status[c] = "running" /\ status'[c] = "done"
  BY RunShape DEF Inv, TypeOK, End
<1>2. ~End(c, "failed") /\ ~End(c, "up to date")
  BY <1>1 DEF Inv, TypeOK, End
<1>3. \A view : Proceed(c, view) => pc[c] = Len(CommandsOf(c))
  BY <1>1 DEF Proceed
<1>4. CASE Validate(c) \/ Require(c) \/ Ancestor(c)
  BY <1>3, <1>4 DEF Validate, Require, Ancestor, At
<1>5. CASE Verify(c)
  BY <1>3, <1>5 DEF Verify
<1>6. CASE Read(c)
  <2>1. ~At(c, "verify")
    BY <1>6 DEF Read, At
  <2> QED BY <1>3, <1>6, <2>1 DEF Read
<1>7. CASE Fetch(c) \/ Merge(c)
  BY <1>2, <1>3, <1>7 DEF Fetch, Merge, At
<1>8. CASE Compare(c)
  BY <1>2, <1>3, <1>8 DEF Compare, At
<1> QED BY <1>2, <1>4, <1>5, <1>6, <1>7, <1>8 DEF Run, MergeTorn, Fail

\* When no other process acts on the repository but while a fetch waits for the
\* network, what git_status, git_fetch and git_sync_fast_forward answer is what
\* the repository was at one moment (lines 84-204): the lock covers every read.
THEOREM ReportsAreTrue ==
    ASSUME MeddleAt \subseteq {"fetch"}
    PROVE  Spec => ReportsHold
<1> DEFINE Report(c) ==
        CASE Kind[c] = "status" ->
               /\ seen[c].branch = branch /\ seen[c].head = heads[branch]
               /\ seen[c].clean = clean /\ seen[c].previous = tracking
          [] Kind[c] = "fetch" -> seen[c].previous = found[c] /\ seen[c].fetched = tracking
          [] Kind[c] = "sync" ->
               /\ branch = Configured /\ heads[Configured] = seen[c].fetched
               /\ IsBefore(seen[c].head, seen[c].fetched)
<1> DEFINE Reported == \A c \in Calls : status[c] = "running" /\ status'[c] = "done" => Report(c)
<1>1. Init => NothingKept /\ ReadStillHolds
  BY DEF Init, NothingKept, ReadStillHolds
<1>2. Inv /\ NothingKept /\ ReadStillHolds /\ [Next]_vars => NothingKept' /\ ReadStillHolds'
  BY ReadStays
<1>3. Inv /\ ReadStillHolds /\ [Next]_vars => [Reported]_vars
  <2> SUFFICES ASSUME Inv, ReadStillHolds, Next,
                      NEW c \in Calls, status[c] = "running", status'[c] = "done"
               PROVE  Report(c)
    OBVIOUS
  <2>1. ~Push /\ ~Meddle
    BY DEF Push, Meddle
  <2>2. ASSUME NEW d \in Calls PROVE ~Enter(d) /\ ~Refuse(d)
    BY GitAssumption DEF Enter, Refuse, Inv, TypeOK, LockHeld
  <2>3. PICK d \in Calls : Run(d)
    BY <2>1, <2>2 DEF Next
  <2>4. status[d] = "running" /\ (EndsCall(d) \/ GoesOn(d)) /\ d = c
    BY <2>3, RunShape DEF Inv, LockHeld
  <2>5. End(c, "done")
    <3>1. EndsCall(c)
      BY <2>4 DEF GoesOn
    <3>2. PICK s \in {"done", "up to date", "failed"} : End(c, s)
      BY <3>1 DEF EndsCall
    <3>3. status'[c] = s
      BY <3>2 DEF End, Inv, TypeOK
    <3> QED BY <3>2, <3>3
  <2>6. /\ \/ pc[c] = Len(CommandsOf(c))
           \/ At(c, "tracking") /\ Kind[c] = "status" /\ tracking = NoCommit
        /\ At(c, "verify") => heads[branch] = seen[c].fetched
    BY <2>3, <2>4, <2>5, DoneIsLast
  <2>7. ReadHolds(c) /\ pc[c] \in 1..Len(CommandsOf(c)) /\ pc[c] \in Nat
    BY DEF ReadStillHolds, Inv, TypeOK
  <2>8. CASE Kind[c] = "status"
    <3>1. pc[c] = 6 \/ (pc[c] = 5 /\ tracking = NoCommit)
      BY <2>6, <2>7, <2>8, Lengths, ReadingPlaces
    <3>2. /\ pc[c] >= 3 => seen[c].branch = branch
          /\ pc[c] >= 4 => seen[c].head = heads[branch]
          /\ pc[c] >= 5 => seen[c].clean = clean
          /\ seen[c].previous = IF pc[c] >= 6 THEN tracking ELSE NoCommit
      BY <2>7, <2>8, ReadHoldsIs
    <3>3. /\ seen[c].branch = branch /\ seen[c].head = heads[branch]
          /\ seen[c].clean = clean /\ seen[c].previous = tracking
      BY <3>1, <3>2
    <3> QED BY <2>8, <3>3
  <2>9. CASE Kind[c] = "fetch"
    <3>1. pc[c] = 5
      BY <2>6, <2>9, Lengths
    <3>2. seen[c].previous = found[c] /\ seen[c].fetched = tracking
      BY <2>7, <2>9, <3>1, ReadHoldsIs
    <3> QED BY <2>9, <3>2
  <2>10. CASE Kind[c] = "sync"
    <3>1. pc[c] = 13
      BY <2>6, <2>10, Lengths
    <3>2. SyncHolds(c) /\ IsBefore(seen[c].head, seen[c].fetched)
      BY <2>7, <2>10, <3>1, ReadHoldsIs
    <3>3. branch = Configured
      BY <3>1, <3>2 DEF SyncHolds
    <3>4. heads[branch] = seen[c].fetched
      BY <2>6, <2>7, <2>10, <3>1, ReadingPlaces
    <3> QED BY <2>10, <3>2, <3>3, <3>4
  <2> QED BY <2>8, <2>9, <2>10, GitAssumption DEF Kinds
<1> QED BY <1>1, <1>2, <1>3, InvAlways, PTL DEF Spec, ReportsHold

=============================================================================
