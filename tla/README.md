# Local-MCP-Bridge in TLA+

Specifications of the stateful parts of Local-MCP-Bridge, TLC configurations
that check them on small instances, and TLAPS proofs of the properties that
matter most for every size. `PROJECT.json` lists the components, the runs with
what each shows, the fault each property was shown to detect, the source lines
behind every definition, the disagreements found, and the hazards of the code.

    tlc -config jobs_cancel.cfg JobManager      # one run
    tlapm Execution_proofs.tla                  # one proof module (all: about 10 minutes)

Paths below are relative to `src/src/local_mcp_bridge/`.

## The system

The bridge is one Python process. An MCP server exposes about a dozen tools on
projects that the operator has authorized; one asyncio event loop serves them
all, synchronous tools in worker threads.

| component | state | operations | what is hard |
|---|---|---|---|
| job manager, `jobs.py` | `_jobs`, each record's status, task and `persistent` flag; one JSON file per job | `start_job`, `_run_job`, `cancel_job`, `get_job`/`list_jobs`, `_persist`, prune, load | writes in worker threads end in any order; cancellation lands in any await; restart |
| execution, `tools/execution.py` | a semaphore per project; per call the child, two readers, a shared budget, the `limit_reached` event | `run_process` | exit, limit, timeout and (repeated) cancellation in any order; descendants on the pipes |
| audit log, `audit.py` | active file and archives, sequence, health | `record` with rotation | a failure or the end of the process between any two file operations |
| tool gate, `server.py` | none of its own | attempt, effect, completion of every tool | effects must be on record before they happen; what happens when they end badly |
| composition, `runtime_composition.py` | the services of one process | audited bootstrap | ends and starts again |
| OAuth, `oauth.py` | pending requests, codes, tokens, links | authorize, approve, deny, exchange, refresh, revoke, prune | retries, replays, two kinds of expiry |
| consent, `oauth_consent.py` | decisions of the last minute | page and form | the form repeated, reloaded, late, contradicted |
| Git, `tools/git_service.py`, `git_repository.py`, `git_runner.py` | a lock per project; the repository itself | status, fetch, fast-forward | every command is an await; the repository has other users |
| path confinement, `security/paths.py` | none (the file system) | lexical checks, walk, open, identity checks | the file system changes between check and use |
| file tools, `tools/filesystem.py` | none | list, read, search | bounded traversal of a changing tree |
| registry and configuration, `registry.py`, `config.py`, `git_config.py` | two files of the operator; the registry a process made of them | load, overlay, `require` | the files are read one after the other while the operator edits; state of earlier policies survives |
| remote transport, `remote_config.py`, `remote_transport.py`, `remote_runtime.py` | the mode, its credential, the gate of the listener | start, bearer gate, header scrubbing | several secrets, several headers |
| onboarding check, `onboarding.py` | none | a one-shot command on the same two files | its answer is about files that a bridge reads later |
| validation probe, `claude_probe.py` | none | a one-shot command | nothing |

They interact by calls: the server calls the job manager, the execution
service, the Git service and the file tools; the job manager calls the
execution service; all record through the one audit logger. Shared state is the
execution semaphore (jobs and direct calls), the audit files, the job state
directory across restarts, the policy files, which the operator edits while bridges
and checks read them, and the repository, which is also everybody else's.

What makes each part correct:

* **jobs**: bounded active jobs and history; no process without a tracked active
  record; an accepted cancellation stops the process and settles the job; what a
  client is told is final, durable and true, in memory and on disk;
* **execution**: slots balanced on every way out; a child never left running
  unsignalled; budget shared exactly; the reason tells the truth about the output;
* **audit**: no effect without a readable attempt, no outcome ahead of its attempt;
  retained files are a window of one append-only, gapless log;
* **OAuth**: one holder per grant, links sound, denial final, revocation whole,
  pending requests bounded;
* **Git**: refs never rewound; HEAD moved only when the branch is configured,
  clean and validated, to what was fetched; reports consistent; lock never lost;
* **file tools**: an answer that does not say truncated is complete as far as nobody
  changed the tree; the traversal ends within its limits;
* **policy and transport**: what is served is coherent; what the check called ready is
  served as read and search only; only authorized jobs are recovered; a remote
  listener is on loopback behind the gate of its mode.

## Modules

* `JobManager` is the persistent job manager. Code between two awaits is one
  action. `await self._persist(record)` is three steps: the call that captures the
  payload, the end of the worker thread (which replaces the file, or fails), and
  the resumption of the coroutine. `task[j]` says where `_run_job` is suspended,
  `canceller[c]` where a `cancel_job` is, `write[j][w]` which write of `j` is in
  flight for whom. `Restart` is the end of the process with `_load_state`.
  Recovery loads any part of the newest files (`readable`): a damaged or no longer
  authorized one is skipped and stays in the directory. A client of `start_job` or
  `cancel_job` may give up its request (`StartAbandoned`, `CancelAbandoned`), if it
  is in `Abandonable`. `told`, `vouched` and `accepted` are histories of what
  clients were told.
* `JobLifecycle` is what that amounts to for a client: a job is admitted once, ends
  once, leaves the history only when it has ended, and a restart takes back only
  outcomes that nobody vouched for or that a cancellation disturbed.
  `JobManager!ImplementsLifecycle` is the refinement; the mapping (`View`) shows of a
  record whether it is active and how it ended, and nothing of tasks, threads, files.
* `Execution` is `run_process` for one project: `pc` is the await it is suspended
  in, `proc`, `descendant` and `written` belong to the operating system, the rest
  to the capture. `Step` holds the loop's actions, `Environment` the others'.
* `ManagedRuns` composes the two: `_run_job` awaits `run_process` directly, so its start
  and its end are steps of both (`RunStarts`, `RunStep` with `RunReported`), and
  `task.cancel()` becomes a pending CancelledError (`struck`) that the next resumption
  of the run meets. Direct calls of the `run_process` tool take slots too. Each module
  alone leaves the other's half open: in `JobManager` `run_process` may end at any point,
  `Execution` takes any call and any cancellation.
* `AuditLog` is `AuditLogger`: `stage` is the file operation the lock holder does
  next, any of which may fail (`Fail`) or be the last of the process
  (`NewSession`). Files are sequences of units, so that a write may be partial.
  `AuditedServer` EXTENDS it with the tools: `pc[c]` is where a call is between
  attempt, effect and completion; `Boot` and `Crash` are the process's life.
* `RetainedLog` is the abstract promise of the log: it grows at its end and is
  forgotten from its beginning. `AuditLog!RetainsInOrder` is the refinement.
* `OAuthProvider` is both provider classes. No method awaits, so each is one
  action; a dictionary of expiring entries maps a key to its last valid tick.
* `GitSync` is `GitService`: `Script` gives the commands of each tool in order,
  `pc` the command a call is at; one action per command, except that `validate`, three
  commands and the inspection of `.git`, is one. Two of its commands could see different
  repositories only if others acted meanwhile, which `MeddleAt` excludes in the runs and
  theorems that rely on `trusted`; `ServiceNeverRewinds` and `AdvanceIsFastForward`, which
  let others act at any command, do not. `Push` and `Meddle` are
  the remote and other local processes; `MeddleAt` says during which commands the
  latter act. What `fetch` without `+` and `merge --ff-only` do is Git's and is
  modelled from the arguments given; a command may also fail after its effect, and
  a killed merge leaves the working tree dirty.
* `FileTools` is `FilesystemService` over `PathGuard`: one call of a tool, whose guard
  resolves, opens or enumerates, and verifies in separate steps (`pc`), with `Change`
  between them. `node` is the tree; a redirecting or special file is
  "restricted", a hard-linked one is "linked": every tool refuses it, but a search accepts
  it as its start and passes over it (`Regular`, `StartSearch`). Paths are numbered in the order of their names, so that the queues
  of a search are in the order of the code. A walk over the components of a path is
  one step.
* `LocalPolicy` holds the rules of the loaders and of the registry as operators on
  documents (the file as parsed); a load that raises is an empty set. `BridgeRuntime`
  is one bridge after another, and the onboarding check beside it: each reads
  `config.yaml` (`LoadBase`) and later `git.local.yaml` (`Effective`), the operator
  saves a file in between (`Edit`, a replacement at once), records of jobs survive a
  bridge (`records`, `Recoverable`), and the start chooses mode, credential and gate
  (`Credentials`, `Gate`). `Bearer`, `Scrubbed` and `Receive` are the bearer middleware, which
  reads HTTP requests and passes other scopes on as they are; the requests
  of the OAuth mode are those of `OAuthProvider`.
* `MCBridgeRuntime`, `MCFileTools`, `MCGitSync`, `MCOAuthProvider` instantiate for TLC. `*_proofs` hold theorems.

Operators introduced by "Fault:" are variants of a definition with a plausible
bug. No behaviour uses them; each was put in the place of the definition to see a
property fail.

## Runs

| run | instance | shows |
|---|---|---|
| `jobs_cancel` | 2 jobs, 1 active, 1 in history, 1 file recovered, 1 canceller (repeated), any request may be abandoned, 1 restart | admission and supervision under cancellation and restart; what is vouched for is durable; `JobLifecycle` is implemented |
| `jobs_durable` | 1 job, 1 canceller, 1 restart | counterexample, below |
| `jobs_cancel_stuck` | 1 job, 1 canceller | counterexample, below |
| `exec_capture` | 2 calls on 1 slot, budget 2; one child writes up to 3 bytes per stream and has a descendant that may never end | budget and reason up to, at and beyond the limit; calls return |
| `managed_runs` | 1 job and a direct call on 1 slot, every request may be abandoned; runs end by exit, timeout, cancellation or a failing start | slots and signals on every way out; a reported ending means that the run is over; a job's supervisor always comes to its next step; jobs settle, cancellations are answered |
| `audit` | 3 mutating calls (one refused by the schema, one cancellable), a read whose completion is refused, 3 files of one event and a fragment, torn writes, 1 restart | no effect without a stored attempt, no outcome ahead of its own; files bounded, gapless, refine `RetainedLog` |
| `audit_torn` | 1 mutating call, 1 read, torn writes | counterexample |
| `oauth` | 3 requests, 3 pairs, 2 pending, lifetimes ordered as in the code | all provider properties |
| `file_tools` | 6 paths, one call, a directory and a file changed by others at any moment, every limit within reach | complete answers, failures with a cause, the call ends |
| `git_sync` | one call of each tool, repeated; others act between calls and during the fetch | guarded advance, consistent reports, nothing rewound, the lock always free again |
| `startup` | 2 projects, 16 contents of `config.yaml`, 6 of the overlay, 3 remote policies, 2 edits, any number of starts and checks | policy coherent, ready means read-only, recovered jobs authorized, listener gated |
| `git_moved_ref` | sync; another fetch just before the ancestry check | counterexample |

Why the bounds suffice. The interesting cases are pairs of concurrent things: a
writer and a late writer, a job and its successor that prunes it, a holder and a
waiter of a slot, a rotation and its repetition, a token and its replacement, a
decision and its contradiction. Every instance has such a pair. The
limits are at their smallest value, so that they are reached in a few steps; the
theorems below lift every safety property to every value. `MaxFile` is
one event and a fragment in `audit`, so every further
event rotates. OAuth lifetimes keep the order of the code
(retry < pending = code < access < refresh), and the clock outlives all of them.
The history of `git_*` has a fork and a rewind. The contents in `MCBridgeRuntime` are one
for each rule of the loaders; two edits put one between the reads of the check and
one before or between those of the bridge. The limits on output are reached in
`exec_capture`, so the children of `managed_runs` write nothing. A canceller that gives up makes no
other request in its session (`"gone"`). Larger instances gave the same answers:
`jobs_cancel` without that bound (safety and refinement, 1.5 million states),
`managed_runs` with two cancellers (safety, 1.2 million).

`CHECK_DEADLOCK FALSE` stands where a behaviour may stop: all jobs or calls of
the instance are over and the bound on restarts is used up.

Fairness. The event loop runs every ready callback; worker threads that write a
file end; the timers of `run_process` expire. That `run_process` returns is not assumed
but shown: `Execution!CallsReturn` of a call by itself, `ManagedRuns!SupervisionIsFair`
of the task that supervises a job, and `ManagedRuns!JobsSettle` follows the job to its
published ending; a Git command is
killed at its timeout. Nothing is assumed of children, descendants, clients, the
disk's success or other users of the repository, and nothing of cancellation.

## What the counterexamples say

Each is a behaviour of the code that a test or a document excludes (quoted in
`PROJECT.json`).

* `jobs_durable`: a cancellation that lands in the persist of a result ends the
  task while the worker thread still writes: the job is published as succeeded and
  persistent, and its state file says cancelling, which a restart turns into
  interrupted. `UndisturbedIsDurable` is what holds: the promise is kept to every job
  nobody tried to cancel.
* `jobs_cancel_stuck`: `_run_job` persists "running" before its `try`; a
  cancellation delivered there leaves the record active for ever, although the
  reply said accepted.
* `audit_torn`: a failing partial write leaves a fragment on which the next,
  acknowledged event is appended; its line cannot be read. `EffectsKept` is what holds,
  torn writes or not: the attempt of every effect is stored whole, or was until its
  file was the oldest.
* `git_moved_ref`: the ancestry check and the merge name the tracking ref and not
  the fetched object.

Two more differences are seen when a run is changed:

* `AuditedServer!NextAttemptFailsClosed` as a property of `audit.cfg` fails. A completion
  event that cannot be written marks the logger unhealthy "so the next strict attempt
  fails closed" (`server.py:90-91`; `threat-model.md:161` says the same). But `record`
  never reads the mark (`audit.py:294`), only `health_check` does: the next attempt is
  written if the disk lets it, its effect begins and the logger is healthy again, which is
  what `phase-8-audit-runtime-hardening.md:119-120` says ("unless audit persistence has
  recovered"). `EffectsKept` holds either way.
* `Execution!GroupTerminated` as an invariant of `exec_capture.cfg` fails when `Posix` is
  TRUE there, since once the child is reaped a timeout signals nobody, and a descendant
  that holds the pipes survives.

Other observations
are visible in the actions and contradicted by nothing in the repository:

* a client that gives up `start_job` during its persist leaves a record that says
  starting, has no task, cannot be cancelled (line 564) and counts against the active
  jobs until a restart (`StartAbandoned`; the exception in `JobsSettle`); one that gives
  up `cancel_job` during its persist leaves a job that says cancelling and goes on
  (`CancelAbandoned`);
* `cancel_job` replies with the raw status, not the visible one (`CancelRefused`), which
  a restart may take back (`JobLifecycle!Recovered` says when);
* a cancelled tool call records no outcome (`WorkCancelled`; `except Exception` does not
  see a cancellation), and a completion that the schema refuses is dropped while the
  logger stays healthy (`CompleteRejected`);
* the check and the bridge each read two files at two moments, so what is served may be
  a combination of files that were never there together; it is still sound
  (`PolicySound`), but "ready" says something about a bridge only while nobody edits.

## Proofs

Every safety invariant, every action property and both refinements that a passing run
checks are also theorems, for every value of the constants; a run shows them on one
instance, and was used to find each inductive invariant before it was proved. Each
proof module states an inductive invariant as named conjuncts, proves that `Init`
establishes it and every action keeps it, and draws the theorems from it. Assumed are
only the named ASSUMEs of the constants (TLC evaluates them in the runs) and what a
theorem states itself. What they ask is what the code gives: positive limits, finite
sets of calls, a file that holds at least one event (`SizesAssumption`: the bridge
keeps the default of 4 MiB and refuses events beyond 4096 bytes; the constructor alone
would take 1024, and then a long event makes a file larger than that), jobs that are
among the calls and end as `run_process` ends (`ManagedAssumption`), no
request named like the bootstrap event (`CallsAssumption`), directories that are
sequences of names (`DirectoriesAssumption`), a tree whose paths are numbered downwards.

* `JobManager_proofs`. `IndInv` gives `TypeCorrect`, `BoundedInventory` and
  `ProcessesTracked`. The bound on the inventory needs to know what pruning keeps:
  `NewestOfBound` shows that the newest `n` of a finite set with distinct keys are at
  most `n`, `RanksDistinct` that modification times stay distinct. An admission
  prunes before it adds, so `HistoryLimit` terminal records and `MaxActive` others
  is the most there is, and completions do not add records.

  `OutcomeInv` gives `DiskOutcomeTrue`, `UndisturbedDurable` and `DiskOutcomeFinal`.
  That a file says the truth is not inductive: one must also know that every write in
  flight with an outcome carries the outcome of the record (`OutcomeSound`), whoever
  started it and in whatever order writes end; that a job nobody tried to cancel has
  one write in flight at a time, and none of an active status behind its outcome
  (`Undisturbed`); and that nothing at all is in flight for a job once its outcome was
  vouched for (`VouchedSound`). The same invariant carries `Implements`, the refinement
  of `JobLifecycle`: one lemma per action says which step of the life cycle it is, or
  that no client can see it.
* `Execution_proofs`. `IndInv` gives `TypeCorrect`, `SlotsAlwaysBalanced`,
  `ReturnedChildIsSignalled`, `RunningChildrenBounded`, `BudgetAlwaysShared`. Its part
  `Orderly` says that a child is undisturbed only while its call collects; the bound on
  children follows because such calls hold a slot. `CaptureInv` adds, for
  `ExitedResultIsComplete` and `LimitMeansTruncation`, that as long as the limit was not
  reached everything read was kept, that a reader which ended without the limit saw its
  stream closed for good, and that `limit_reached`, an exhausted budget and a lost byte
  come together.
* `ManagedRuns_proofs`. `RunsAsExecution` and `RunsAsJobs` show that the composition
  takes only steps of its two components, so that what is proved of either holds in it
  (`SharedSlotsBalanced` and `ManagedChildIsSignalled` are drawn that way). `LinkInv`
  ties the task of a job to its run (the run is in progress exactly while the task is
  in `run_process`) and gives `OutcomeStopsRun`, which neither component has alone.
* `AuditedServer_proofs`. `LogInv` says what the holder of the lock has done so far:
  what is left of the event fits, what is written of it is the end of the active file,
  the archive that is moved next was made room for. It gives `FilesBounded` and the
  refinement `RotationKeepsOrder` of `RetainedLog`. `NumberInv` (the last number on file
  is the last acknowledged or the next, and a part of an event carries the next) gives
  `NumbersWithoutGap`. `GateInv` gives `NoEffectWithoutAttempt` and
  `OutcomesFollowAttempts`: the event being recorded belongs to a call that waits for it
  (`OwnerWaits`), and every stored unit of an outcome has the whole attempt before it,
  in its own file or an older one, unless rotation forgot that first
  (`OutcomesOrdered`). The retained lines are a flattened sequence of files; the first
  section of the module proves what flattening does.
* `FileTools_proofs`: `TypeCorrect` (with all limits of a search) and
  `AnswersAreComplete`, for every tree and every way others change it. A search loses
  nothing because each path it owes an answer for is reported or still to come: queued,
  below a queued directory, or in work (`NothingLost`). That survives the steps of the
  guard because it works on the object it resolved (`ExpectsWhatIs`) and a snapshot that
  was not cut short misses no untouched entry (`SnapshotSound`); `LimitsLeft` is why an
  answer that stopped at a limit says that it is truncated.
* `OAuthProvider_proofs`: `TypeCorrect`, `LinksAreSound`, `GrantHasOneHolder`,
  `DenialStaysFinal`, `PendingStaysBounded`, `RevocationStaysWhole`. The strengthening
  says that a link joins a pair as minted (`SelfLinked`), that no two live pairs
  have one origin (`OneHolder`), that a live token was minted and its origin's code is spent
  (`Minted`, `Grants`), and that pending, code and cached decision of a request agree with what the
  browser was told (`Consistent`). Lemmas reduce every revocation and both expiries
  to removing whole pairs from a sound store (`RevokeAccessIs`, `RevokeRefreshIs`,
  `ExpireRefreshIs`), with lone expired access tokens as the only exception.
  `RevocationStaysWhole` takes its two directions from there: the pair removed as a whole,
  and `SelfLinked`, by which no access token is without its refresh token.
* `GitSync_proofs`: `TypeCorrect`, `OneCallRuns`, `ServiceNeverRewinds` and
  `AdvanceIsFastForward` (only the checked-out branch moves, to the tracking ref) for every
  history and with others acting at any command; `AdvanceIsGuarded` and `ReportsAreTrue`
  under the assumption `MeddleAt \subseteq {"fetch"}` (the one of the run `git_sync`;
  without it `git_moved_ref` refutes `TargetIsFetched`). `RequiredStillHolds` says what
  a sync has established by the command it is at: past the second validation, branch
  check and cleanliness check each still holds, and the tracking ref is what was
  fetched. `ReadStillHolds` says the same of everything a call has read: a status is
  true as far as it got, a fetch remembers where the tracking ref was when it began, a
  sync's old HEAD is before its target once ancestry was checked. `Places` and
  `ReadingPlaces` tie the position in a script to the command, `CommandSucceeded` and
  `SeenMoves` the command to its condition and to what it adds.
* `BridgeRuntime_proofs`: `ReadyIsReadOnly`, `ListedJobsAuthorized`, `RemoteIsGated`,
  `ServedIsSound`, for every content of the files. The first needs to know that a
  reader which began after the last edit holds what the files now amount to, as far
  as it has read them (`Current`), and that the loaders are functions (`OneRegistry`,
  `OneOverlaid`), so that check and bridge arrived at the same registry. The last
  follows the policy through the two reads (`ServedInv`): the base is sound when it was
  loaded, and an overlay of another moment adds only rules that keep it so, because
  directories with a common file overlap.

Recursive definitions. The prover has no rule of induction over data, but three recursive
functions could be reasoned about with the least element of a set of naturals (lemma
`Least`, from the library's theorem that `<` is well-founded): the flattening of
`Retention` (`FlatExists` and its successors), the ancestors of a path in `FileTools`
(`Above`, through `Reach`) and the enumeration of a directory by name (`ByName`).
`ByName` is written as a choice among the enumerations and not with the library's
sort, which the prover cannot expand.

Only model-checked are the liveness properties, which rest on fairness: `CallsReturn`,
`SupervisionIsFair`, `JobsSettle`, `LockIsReleased` and `CallsAnswered`; and what the
counterexamples show.

## Not modelled

* Argument, path and URL syntax, YAML and the types and ranges of values: pure functions
  evaluated before any state changes; a refused request changes nothing. The documents
  of `LocalPolicy` have one flag for each group of them. The case folding of aliases on
  Windows, and a file that is caught half-written: an editor is taken to replace it.
* The in-memory configuration of the job manager, a strict subset of the persistent
  one; output paging; the fields of a recovered record other than its status, project
  and executable.
* Capture inside `GitCommandRunner`: the algorithm of `Execution` with one result fewer.
  A leftover `index.lock` of a killed Git command, which makes later merges fail:
  failing commands are modelled whatever the reason.
* The MCP SDK (sessions, client authentication, PKCE): external.
* The lexical rules for paths, the names that count as sensitive, the line slice of
  `read_file` and the search within a line: pure functions.
* Host validation, the HTTP server and the constant-time comparison of the transport:
  external. `claude_probe.py` and the entry points keep no state.

## Plan

1. (done) `JobManager`, `Execution`, `AuditLog`/`AuditedServer`/`RetainedLog`,
   `OAuthProvider`, `GitSync`, `FileTools`, with their runs.
2. (done) `JobLifecycle` and the refinement; `ManagedRuns`; `LocalPolicy` and
   `BridgeRuntime`.
3. (done) Proofs of every safety property and of both refinements that the runs check.
4. The rest of the state predicates worth a theorem: that the refinements and the
   properties of the state files hold inside `ManagedRuns`; the measures behind
   `CallsReturn` and `CallsAnswered`, as steps that only ever decrease them.
5. `FileTools`: the walk of a path component by component; paging of files and of
   job output against a reference definition.
