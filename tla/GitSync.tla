------------------------------- MODULE GitSync --------------------------------
(***************************************************************************)
(* GitService (tools/git_service.py): git_status, git_fetch and            *)
(* git_sync_fast_forward on one project.  Each call is a script of Git     *)
(* commands, every one of which is a child process that the service        *)
(* awaits; the per-project lock is held from the first to the last.        *)
(*                                                                         *)
(* The repository is not the bridge's alone.  The remote branch moves at   *)
(* any time, and another local process (the operator's own Git, an editor, *)
(* a job the bridge runs) commits, switches, edits and reconfigures        *)
(* between calls, and while the lock holder is at a command of MeddleAt.   *)
(* What Git itself does is modelled from the arguments the service gives   *)
(* it: a command takes effect at one moment, and may fail, time out or be  *)
(* killed before or after that.  A detached HEAD is a branch other than    *)
(* the configured one.                                                     *)
(***************************************************************************)
EXTENDS Naturals, Sequences

CONSTANTS
    Commits,     \* commit objects
    NoCommit,    \* an absent ref
    Before,      \* the pairs <<a, b>> where a is b or an ancestor of b
    Root,        \* the commit everything starts from
    Published,   \* the commits the remote branch may point to
    Local,       \* the commits another process may put a branch on
    Branches, Configured,  \* local branches, and settings.branch
    Calls, NoCall,         \* the requests that are served
    Kind,        \* which tool each of them calls
    MeddleAt     \* the commands during which another process may act

Kinds == {"status", "fetch", "sync"}

Commands == {"validate", "require branch", "require clean", "branch", "head", "clean",
             "tracking", "divergence", "fetch", "fetched", "compare", "ancestor", "merge",
             "verify"}

ASSUME GitAssumption ==
    /\ Before \subseteq Commits \X Commits
    /\ \A a \in Commits : <<a, a>> \in Before
    /\ \A a, b, c \in Commits : <<a, b>> \in Before /\ <<b, c>> \in Before => <<a, c>> \in Before
    /\ NoCommit \notin Commits /\ NoCall \notin Calls
    /\ Root \in Commits /\ Published \subseteq Commits /\ Local \subseteq Commits
    /\ Configured \in Branches
    /\ Kind \in [Calls -> Kinds]
    /\ MeddleAt \subseteq Commands

VARIABLES
    upstream,  \* the branch at remote_url
    tracking,  \* refs/remotes/<remote>/<branch>
    heads,     \* the local branches
    branch,    \* the branch that is checked out
    clean,     \* nothing staged, changed or untracked
    trusted,   \* repository layout, root, config and remote URL are as the policy says
    lock,      \* the call that holds the project's lock
    status,    \* of each call
    pc,        \* the command each call is at, 0 when it is not running
    seen,      \* what each running call has read
    found      \* history: the tracking ref when the call began

repository == <<upstream, tracking, heads, branch, clean, trusted>>
vars == <<repository, lock, status, pc, seen, found>>

NothingSeen == [branch |-> "none", head |-> NoCommit, clean |-> FALSE,
                previous |-> NoCommit, fetched |-> NoCommit]

IsBefore(a, b) == <<a, b>> \in Before

-----------------------------------------------------------------------------
\* Fault: what was required before the fetch is not required again after it.
ScriptCheckingOnce ==
    [k \in Kinds |->
        CASE k = "status" -> <<"validate", "branch", "head", "clean", "tracking", "divergence">>
          [] k = "fetch"  -> <<"validate", "tracking", "fetch", "fetched", "validate">>
          [] k = "sync"   -> <<"validate", "require branch", "require clean",
                               "tracking", "fetch", "fetched", "validate",
                               "compare", "ancestor", "merge", "verify">>]

\* The commands of each tool, in order.
Script ==
    [k \in Kinds |->
        CASE k = "status" -> <<"validate", "branch", "head", "clean", "tracking", "divergence">>
          [] k = "fetch"  -> <<"validate", "tracking", "fetch", "fetched", "validate">>
          [] k = "sync"   -> <<"validate", "require branch", "require clean",
                               "tracking", "fetch", "fetched",
                               "validate", "require branch", "require clean",
                               "compare", "ancestor", "merge", "verify">>]

CommandsOf(c) == Script[Kind[c]]

At(c, command) == status[c] = "running" /\ CommandsOf(c)[pc[c]] = command

Init ==
    /\ upstream = Root /\ tracking = NoCommit
    /\ heads = [b \in Branches |-> Root] /\ branch = Configured
    /\ clean = TRUE /\ trusted = TRUE
    /\ lock = NoCall
    /\ status = [c \in Calls |-> "idle"]
    /\ pc = [c \in Calls |-> 0]
    /\ seen = [c \in Calls |-> NothingSeen]
    /\ found = [c \in Calls |-> NoCommit]

\* Fault: the lock is not looked at.
EnterUnlocked(c) ==
    /\ status[c] # "running"
    /\ lock' = c
    /\ status' = [status EXCEPT ![c] = "running"]
    /\ pc' = [pc EXCEPT ![c] = 1]
    /\ found' = [found EXCEPT ![c] = tracking]
    /\ UNCHANGED <<repository, seen>>

\* The lock is free: it is taken in the same step of the event loop that looked.
Enter(c) ==
    /\ status[c] # "running"
    /\ lock = NoCall
    /\ lock' = c
    /\ status' = [status EXCEPT ![c] = "running"]
    /\ pc' = [pc EXCEPT ![c] = 1]
    /\ found' = [found EXCEPT ![c] = tracking]
    /\ UNCHANGED <<repository, seen>>

\* "A Git operation is already active for this project."
Refuse(c) ==
    /\ status[c] # "running"
    /\ lock # NoCall
    /\ status' = [status EXCEPT ![c] = "refused"]
    /\ UNCHANGED <<repository, lock, pc, seen, found>>

\* The call ends and leaves the lock's block.
End(c, s) ==
    /\ status' = [status EXCEPT ![c] = s]
    /\ lock' = NoCall
    /\ pc' = [pc EXCEPT ![c] = 0]
    /\ seen' = [seen EXCEPT ![c] = NothingSeen]
    /\ found' = [found EXCEPT ![c] = NoCommit]

\* Fault: the next command is looked for behind the last.
ProceedPast(c, view) ==
    IF pc[c] > Len(CommandsOf(c)) THEN End(c, "done")
    ELSE /\ pc' = [pc EXCEPT ![c] = @ + 1]
         /\ seen' = [seen EXCEPT ![c] = view]
         /\ UNCHANGED <<status, lock, found>>

\* The command succeeded: the next one, or the end.
Proceed(c, view) ==
    IF pc[c] = Len(CommandsOf(c)) THEN End(c, "done")
    ELSE /\ pc' = [pc EXCEPT ![c] = @ + 1]
         /\ seen' = [seen EXCEPT ![c] = view]
         /\ UNCHANGED <<status, lock, found>>

\* Fault: an error leaves the lock held.
FailHolding(c) ==
    /\ status[c] = "running"
    /\ status' = [status EXCEPT ![c] = "failed"]
    /\ pc' = [pc EXCEPT ![c] = 0]
    /\ seen' = [seen EXCEPT ![c] = NothingSeen]
    /\ found' = [found EXCEPT ![c] = NoCommit]
    /\ UNCHANGED <<repository, lock>>

\* A command cannot be started, exits with an error, times out, is cancelled,
\* writes too much, or shows what the call must not accept.
Fail(c) ==
    /\ status[c] = "running"
    /\ End(c, "failed")
    /\ UNCHANGED repository

-----------------------------------------------------------------------------
(* The commands.                                                           *)

\* GitRepository.validate: the checks of .git, rev-parse --show-toplevel and the two
\* config commands look at one property of the repository between them and are one
\* step.  Who relies on trusted keeps others out of that step (MeddleAt).
Validate(c) ==
    /\ At(c, "validate") /\ trusted
    /\ Proceed(c, seen[c])
    /\ UNCHANGED repository

\* _require_sync_preconditions, in its two commands.
Require(c) ==
    /\ \/ At(c, "require branch") /\ branch = Configured
       \/ At(c, "require clean") /\ clean
    /\ Proceed(c, seen[c])
    /\ UNCHANGED repository

\* What git_status reads, and the refs that a fetch reads before and after.
Read(c) ==
    /\ \/ At(c, "branch") /\ Proceed(c, [seen[c] EXCEPT !.branch = branch])
       \/ At(c, "head") /\ Proceed(c, [seen[c] EXCEPT !.head = heads[branch]])
       \/ At(c, "clean") /\ Proceed(c, [seen[c] EXCEPT !.clean = clean])
       \/ /\ At(c, "tracking")
          /\ IF tracking = NoCommit /\ Kind[c] = "status" THEN End(c, "done")
             ELSE Proceed(c, [seen[c] EXCEPT !.previous = tracking])
       \/ At(c, "divergence") /\ Proceed(c, seen[c])
       \/ /\ At(c, "fetched") /\ tracking # NoCommit
          /\ Proceed(c, [seen[c] EXCEPT !.fetched = tracking])
    /\ UNCHANGED repository

\* Fault: the refspec begins with "+".
FetchForced(c) ==
    /\ At(c, "fetch")
    /\ tracking' = upstream
    /\ Proceed(c, seen[c]) \/ End(c, "failed")
    /\ UNCHANGED <<upstream, heads, branch, clean, trusted>>

\* fetch with a refspec that is not forced: only a descendant is accepted.
Fetch(c) ==
    /\ At(c, "fetch")
    /\ tracking = NoCommit \/ IsBefore(tracking, upstream)
    /\ tracking' = upstream
    /\ Proceed(c, seen[c]) \/ End(c, "failed")
    /\ UNCHANGED <<upstream, heads, branch, clean, trusted>>

\* HEAD is read, and compared with what was fetched.
Compare(c) ==
    /\ At(c, "compare")
    /\ IF heads[branch] = seen[c].fetched THEN End(c, "up to date")
       ELSE Proceed(c, [seen[c] EXCEPT !.head = heads[branch]])
    /\ UNCHANGED repository

\* merge-base --is-ancestor HEAD <tracking ref>.
Ancestor(c) ==
    /\ At(c, "ancestor")
    /\ IsBefore(heads[branch], tracking)
    /\ Proceed(c, seen[c])
    /\ UNCHANGED repository

\* merge --ff-only <tracking ref>: HEAD moves there, or contains it already.  Local
\* changes that the merge would overwrite make it fail; others do not.
Merge(c) ==
    /\ At(c, "merge")
    /\ \/ IsBefore(heads[branch], tracking) /\ heads' = [heads EXCEPT ![branch] = tracking]
       \/ IsBefore(tracking, heads[branch]) /\ UNCHANGED heads
    /\ Proceed(c, seen[c]) \/ End(c, "failed")
    /\ UNCHANGED <<upstream, tracking, branch, clean, trusted>>

\* The merge is killed after it began to update the working tree.
MergeTorn(c) ==
    /\ At(c, "merge")
    /\ IsBefore(heads[branch], tracking)
    /\ clean' = FALSE
    /\ End(c, "failed")
    /\ UNCHANGED <<upstream, tracking, heads, branch, trusted>>

Verify(c) ==
    /\ At(c, "verify")
    /\ heads[branch] = seen[c].fetched
    /\ Proceed(c, seen[c])
    /\ UNCHANGED repository

Run(c) ==
    \/ Validate(c) \/ Require(c) \/ Read(c) \/ Fetch(c) \/ Compare(c)
    \/ Ancestor(c) \/ Merge(c) \/ MergeTorn(c) \/ Verify(c) \/ Fail(c)

-----------------------------------------------------------------------------
(* The others.                                                             *)

\* Somebody pushes to the remote, possibly by force.
Push ==
    /\ upstream' \in Published
    /\ UNCHANGED <<tracking, heads, branch, clean, trusted, lock, status, pc, seen, found>>

\* Another local process.
Meddle ==
    /\ \A c \in Calls : status[c] = "running" => CommandsOf(c)[pc[c]] \in MeddleAt
    /\ \/ /\ \E k \in Local : heads' = [heads EXCEPT ![branch] = k]
          /\ UNCHANGED <<tracking, branch, clean, trusted>>
       \/ branch' \in Branches /\ UNCHANGED <<tracking, heads, clean, trusted>>
       \/ clean' = ~clean /\ UNCHANGED <<tracking, heads, branch, trusted>>
       \/ trusted' = ~trusted /\ UNCHANGED <<tracking, heads, branch, clean>>
       \/ tracking' = upstream /\ UNCHANGED <<heads, branch, clean, trusted>>
    /\ UNCHANGED <<upstream, lock, status, pc, seen, found>>

Next ==
    \/ \E c \in Calls : Enter(c) \/ Refuse(c) \/ Run(c)
    \/ Push
    \/ Meddle

Spec == Init /\ [][Next]_vars

\* Every command has a timeout after which it is killed.
LiveSpec == Spec /\ \A c \in Calls : WF_vars(Run(c))

-----------------------------------------------------------------------------
(* Properties *)

Views == [branch : Branches \cup {"none"}, head : Commits \cup {NoCommit}, clean : BOOLEAN,
          previous : Commits \cup {NoCommit}, fetched : Commits \cup {NoCommit}]

TypeOK ==
    /\ upstream \in Commits /\ tracking \in Commits \cup {NoCommit}
    /\ heads \in [Branches -> Commits] /\ branch \in Branches
    /\ clean \in BOOLEAN /\ trusted \in BOOLEAN
    /\ lock \in Calls \cup {NoCall}
    /\ status \in [Calls -> {"idle", "running", "done", "up to date", "refused", "failed"}]
    /\ pc \in [Calls -> Nat]
    /\ \A c \in Calls : pc[c] \in IF status[c] = "running" THEN 1..Len(CommandsOf(c)) ELSE {0}
    /\ seen \in [Calls -> Views]
    /\ found \in [Calls -> Commits \cup {NoCommit}]

\* A step of the service, not of Git elsewhere.
Served == <<status, pc>>' # <<status, pc>>

\* Whatever else happens to the repository, the service neither rewinds nor
\* rewrites a branch or the tracking ref.
NeverRewinds ==
    [][Served =>
          /\ \A b \in Branches : IsBefore(heads[b], heads'[b])
          /\ tracking # NoCommit => IsBefore(tracking, tracking')]_vars

\* A branch moves only when it is the configured one, checked out in a clean and
\* validated repository, and only to the commit its own call fetched, although
\* others may have changed all of that while the fetch waited for the network.
GuardedAdvance ==
    [][Served /\ heads' # heads =>
          /\ branch = Configured /\ clean /\ trusted
          /\ heads' = [heads EXCEPT ![Configured] = seen[lock].fetched]]_vars

\* One fetched commit is the target of a sync: HEAD moves there or nowhere.
TargetIsFetched ==
    [][Served /\ heads' # heads => heads'[branch] = seen[lock].fetched]_vars

\* What a call reports is what the repository was at one moment: a status was
\* read in one state, a fetch tells what it changed, a sync tells of a
\* fast-forward that took place.
ReportsHold ==
    [][\A c \in Calls : status[c] = "running" /\ status'[c] = "done" =>
          CASE Kind[c] = "status" ->
                 /\ seen[c].branch = branch /\ seen[c].head = heads[branch]
                 /\ seen[c].clean = clean /\ seen[c].previous = tracking
            [] Kind[c] = "fetch" -> seen[c].previous = found[c] /\ seen[c].fetched = tracking
            [] Kind[c] = "sync" ->
                 /\ branch = Configured /\ heads[Configured] = seen[c].fetched
                 /\ IsBefore(seen[c].head, seen[c].fetched)]_vars

\* The lock is never lost: whatever fails, the project can be served again.
LockIsReleased == []<>(lock = NoCall)

=============================================================================
