------------------------------ MODULE FileTools ------------------------------
(***************************************************************************)
(* read_file, list_directory and search_text of tools/filesystem.py over   *)
(* the guarded reads and snapshots of security/paths.py, on a tree that    *)
(* other processes change between any two of their file operations.  One   *)
(* call is modelled: the service keeps no state between calls.             *)
(*                                                                         *)
(* A walk over the components of a path is one step.  A file is known by   *)
(* what the tools tell apart, an object by its identity at its path.       *)
(***************************************************************************)
EXTENDS Naturals, FiniteSets, SequencesExt

CONSTANTS
    Paths,       \* numbered in the order of their casefolded names; 0 is the root
    Parent,      \* of each path but the root
    May,         \* the kinds each path can have
    Changing,    \* the paths that other processes change
    Sensitive,   \* paths named like a secret
    MaxListed,   \* max_directory_entries
    MaxEntries,  \* max_search_entries
    MaxFiles,    \* max_search_files
    MaxTotal,    \* max_search_total_bytes
    MaxResults   \* max_results

\* "text" has a match and "dull" has none; "unreadable" is binary, not UTF-8 or
\* above the size limit; "linked" is a hard-linked regular file, "restricted" a link
\* or a special file.
Files == {"text", "dull", "unreadable"}
Kinds == Files \cup {"none", "dir", "linked", "restricted"}

ASSUME TreeAssumption ==
    /\ 0 \in Paths /\ Paths \subseteq Nat
    /\ Parent \in [Paths \ {0} -> Paths]
    /\ \A p \in Paths \ {0} : Parent[p] < p
    /\ May \in [Paths -> SUBSET Kinds]
    /\ Changing \subseteq Paths /\ Sensitive \subseteq Paths \ {0}

ASSUME LimitsAssumption ==
    {MaxListed, MaxEntries, MaxFiles, MaxTotal, MaxResults} \subseteq Nat \ {0}

Size(k) == IF k = "dull" THEN 2 ELSE 1
Hits(k) == IF k = "text" THEN 1 ELSE 0

Identities == {1, 2}

VARIABLES
    node,       \* the kind and the identity of what is at each path
    op,         \* the tool called: "read", "list", "search"
    target,     \* its path
    pc,         \* the file operation it does next
    at,         \* the path the guard is working on
    expected,   \* the identity the guard expects there
    captured,   \* snapshot_directory: the entries seen so far
    cut,        \* snapshot_directory: truncated
    dirs, files,            \* pending_directories, pending_files
    entries, scanned,       \* entries_seen, files_scanned
    bytes, matches,         \* bytes_scanned, len(matches)
    reported,   \* the paths in the answer
    truncated,  \* of the answer
    failed,     \* the tool raised an error
    touched,    \* history: the paths changed since the call began
    moved       \* history: those changed since the enumeration began

guardVars == <<at, expected, captured, cut, moved>>
searchVars == <<dirs, files, entries, scanned, bytes, matches>>
answerVars == <<reported, truncated, failed>>
vars == <<node, op, target, pc, guardVars, searchVars, answerVars, touched>>

PcStates == {"idle", "choosing", "resolve_file", "open", "verify_file",
             "resolve_directory", "listing", "verify_directory", "done"}

\* Every counter of a search stays within its limit.
TypeOK ==
    /\ node \in [Paths -> [kind: Kinds, id: Identities]]
    /\ op \in {"none", "read", "list", "search"} /\ target \in Paths
    /\ pc \in PcStates /\ at \in Paths
    /\ expected \in {"none", "file", "dir"} \X (Identities \cup {0})
    /\ DOMAIN captured \subseteq Paths
    /\ \A p \in DOMAIN captured : captured[p] \in {"file", "dir", "restricted"}
    /\ dirs \in Seq(Paths) /\ files \in Seq(Paths)
    /\ entries \in 0..MaxEntries /\ scanned \in 0..MaxFiles
    /\ bytes \in 0..MaxTotal /\ matches \in 0..MaxResults
    /\ reported \subseteq Paths /\ touched \subseteq Paths /\ moved \subseteq Paths
    /\ {truncated, failed, cut} \subseteq BOOLEAN

Init ==
    /\ node \in {n \in [Paths -> [kind: Kinds, id: Identities]] :
                    \A p \in Paths : n[p].kind \in May[p] /\ n[p].id = 1}
    /\ op = "none" /\ target = 0 /\ pc = "idle"
    /\ at = 0 /\ expected = <<"none", 0>> /\ captured = <<>> /\ cut = FALSE /\ moved = {}
    /\ dirs = <<>> /\ files = <<>>
    /\ entries = 0 /\ scanned = 0 /\ bytes = 0 /\ matches = 0
    /\ reported = {} /\ truncated = FALSE /\ failed = FALSE
    /\ touched = {}

-----------------------------------------------------------------------------
(* The tree.                                                               *)

\* The directories a path leads through.
Above[p \in Paths] == IF p = 0 THEN {} ELSE {Parent[p]} \cup Above[Parent[p]]

Children(p) == {q \in Paths \ {0} : Parent[q] = p}

SensitivePath(p) == (Above[p] \cup {p}) \cap Sensitive # {}

Class(k) == IF k \in Files THEN "file" ELSE IF k = "dir" THEN k ELSE "restricted"

Identity(p) == <<Class(node[p].kind), node[p].id>>

\* resolve_existing: every component is a directory and none redirects.
Resolves(p, class) ==
    /\ \A q \in Above[p] : node[q].kind = "dir"
    /\ Class(node[p].kind) = class

\* Another process creates, replaces, rewrites in place or removes what is at p.
Change(p) ==
    /\ pc \notin {"idle", "done"}
    /\ \E k \in May[p], i \in Identities :
          /\ node' = [node EXCEPT ![p] = [kind |-> k, id |-> i]]
          /\ node' # node
    /\ touched' = touched \cup {p}
    /\ moved' = IF pc = "listing" THEN moved \cup {p} ELSE moved
    /\ UNCHANGED <<op, target, pc, at, expected, captured, cut, searchVars, answerVars>>

-----------------------------------------------------------------------------
(* A call and its end.                                                     *)

Finish(reports, partial) ==
    /\ pc' = "done"
    /\ reported' = reports
    /\ truncated' = partial
    /\ UNCHANGED failed

Fail ==
    /\ pc' = "done"
    /\ failed' = TRUE
    /\ UNCHANGED <<reported, truncated>>

GoOn == pc' = "choosing" /\ UNCHANGED answerVars

\* read_file and list_directory go straight to the guard.
Start(o, p) ==
    /\ pc = "idle" /\ ~SensitivePath(p)
    /\ op' = o /\ target' = p /\ at' = p
    /\ pc' = IF o = "read" THEN "resolve_file" ELSE "resolve_directory"
    /\ UNCHANGED <<node, expected, captured, cut, moved, searchVars, answerVars, touched>>

\* A regular file to resolve_existing with "either", which does not count its links.
Regular(p) == Resolves(p, "file") \/ (Resolves(p, "restricted") /\ node[p].kind = "linked")

\* search_text asks the guard for the kind of its start; a hard-linked file is
\* queued, and passed over when it is read.
StartSearch(p) ==
    /\ pc = "idle" /\ ~SensitivePath(p)
    /\ op' = "search" /\ target' = p
    /\ IF Regular(p) \/ Resolves(p, "dir") THEN GoOn ELSE Fail
    /\ files' = IF Regular(p) THEN <<p>> ELSE <<>>
    /\ dirs' = IF Resolves(p, "dir") THEN <<p>> ELSE <<>>
    /\ UNCHANGED <<node, guardVars, entries, scanned, bytes, matches, touched>>

\* Fault: a search comes back later to a directory it could not list.
RefuseRetrying ==
    /\ IF op = "search" THEN GoOn ELSE Fail
    /\ dirs' = IF pc \in {"listing", "verify_directory"} THEN Append(dirs, at) ELSE dirs
    /\ UNCHANGED <<files, entries, scanned, bytes, matches>>

\* The guard raises PathConfinementError: the tool fails, a search passes over it.
Refuse == (IF op = "search" THEN GoOn ELSE Fail) /\ UNCHANGED searchVars

-----------------------------------------------------------------------------
(* search_text: what to do next.                                           *)

Choosing == pc = "choosing" /\ UNCHANGED <<node, op, target, touched>>

SearchEnds ==
    /\ Choosing /\ files = <<>> /\ dirs = <<>>
    /\ Finish(reported, FALSE)
    /\ UNCHANGED <<guardVars, searchVars>>

FilesExhausted ==
    /\ Choosing /\ (files # <<>> \/ dirs # <<>>) /\ scanned >= MaxFiles
    /\ Finish(reported, TRUE)
    /\ UNCHANGED <<guardVars, searchVars>>

NextFile ==
    /\ Choosing /\ scanned < MaxFiles /\ files # <<>>
    /\ at' = Head(files) /\ files' = Tail(files)
    /\ pc' = "resolve_file"
    /\ UNCHANGED <<expected, captured, cut, moved, dirs, entries, scanned, bytes, matches, answerVars>>

\* Once entries_seen is at its limit no further directory is listed.
NextDirectory ==
    /\ Choosing /\ scanned < MaxFiles /\ files = <<>> /\ dirs # <<>>
    /\ at' = Head(dirs) /\ dirs' = Tail(dirs)
    /\ IF entries >= MaxEntries THEN Finish(reported, TRUE)
       ELSE pc' = "resolve_directory" /\ UNCHANGED answerVars
    /\ UNCHANGED <<expected, captured, cut, moved, files, entries, scanned, bytes, matches>>

-----------------------------------------------------------------------------
(* read_bounded.                                                           *)

ResolveFile ==
    /\ pc = "resolve_file"
    /\ IF Resolves(at, "file")
       THEN expected' = Identity(at) /\ pc' = "open" /\ UNCHANGED <<searchVars, answerVars>>
       ELSE Refuse /\ UNCHANGED expected
    /\ UNCHANGED <<node, op, target, at, captured, cut, moved, touched>>

\* os.open and the checks of fstat: what is opened through a path that leads
\* elsewhere by now is another object.
Open ==
    /\ pc = "open"
    /\ IF Resolves(at, "file") /\ Identity(at) = expected
       THEN pc' = "verify_file" /\ UNCHANGED <<searchVars, answerVars>>
       ELSE Refuse
    /\ UNCHANGED <<node, op, target, guardVars, touched>>

\* Fault: the bytes of the file at hand are left out.
WithinTotalBefore(k) == bytes <= MaxTotal

WithinTotal(k) == bytes + Size(k) <= MaxTotal

\* search_text counts and scans what was read.
Scan(k) ==
    /\ UNCHANGED <<dirs, files, entries>>
    /\ \/ k = "unreadable" /\ GoOn /\ UNCHANGED <<scanned, bytes, matches>>
       \/ /\ k # "unreadable" /\ ~WithinTotal(k)
          /\ Finish(reported, TRUE)
          /\ UNCHANGED <<scanned, bytes, matches>>
       \/ /\ k # "unreadable" /\ WithinTotal(k)
          /\ scanned' = scanned + 1
          /\ bytes' = bytes + Size(k)
          /\ matches' = matches + Hits(k)
          /\ reported' = IF Hits(k) > 0 THEN reported \cup {at} ELSE reported
          /\ truncated' = (Hits(k) > 0 /\ matches' >= MaxResults)
          /\ pc' = IF truncated' THEN "done" ELSE "choosing"
          /\ UNCHANGED failed

\* The path is resolved again; then the open file is read.
VerifyFile ==
    /\ pc = "verify_file"
    /\ LET k == node[at].kind
       IN  IF ~(Resolves(at, "file") /\ Identity(at) = expected) THEN Refuse
           ELSE IF op = "search" THEN Scan(k)
           ELSE /\ IF k = "unreadable" THEN Fail ELSE Finish({at}, FALSE)
                /\ UNCHANGED searchVars
    /\ UNCHANGED <<node, op, target, guardVars, touched>>

-----------------------------------------------------------------------------
(* snapshot_directory.                                                     *)

Limit == IF op = "search" THEN MaxEntries - entries ELSE MaxListed

ResolveDirectory ==
    /\ pc = "resolve_directory"
    /\ captured' = <<>> /\ cut' = FALSE /\ moved' = {}
    /\ IF Resolves(at, "dir")
       THEN expected' = Identity(at) /\ pc' = "listing" /\ UNCHANGED <<searchVars, answerVars>>
       ELSE Refuse /\ UNCHANGED expected
    /\ UNCHANGED <<node, op, target, at, touched>>

\* What os.scandir may yield next, and what it must have yielded to end: entries
\* that come or go meanwhile may be seen or missed.
Yields == {q \in Children(at) \ DOMAIN captured : node[q].kind # "none" \/ q \in moved}
Missing == {q \in Children(at) \ DOMAIN captured : node[q].kind # "none"} \ moved

Listing == pc = "listing" /\ UNCHANGED <<node, op, target, at, expected, searchVars, answerVars, touched>>

ListEntry ==
    /\ Listing /\ Cardinality(DOMAIN captured) < Limit
    /\ \E q \in Yields :
          captured' = [x \in DOMAIN captured \cup {q} |->
                          IF x = q THEN Class(node[q].kind) ELSE captured[x]]
    /\ UNCHANGED <<pc, cut, moved>>

ListFull ==
    /\ Listing /\ Cardinality(DOMAIN captured) >= Limit /\ Yields # {}
    /\ pc' = "verify_directory" /\ cut' = TRUE /\ moved' = {}
    /\ UNCHANGED captured

ListEnd ==
    /\ Listing /\ Missing = {}
    /\ pc' = "verify_directory" /\ moved' = {}
    /\ UNCHANGED <<captured, cut>>

\* os.scandir does not find the directory any more.
ListRefused ==
    /\ pc = "listing" /\ ~Resolves(at, "dir")
    /\ Refuse
    /\ captured' = <<>> /\ moved' = {}
    /\ UNCHANGED <<node, op, target, at, expected, cut, touched>>

\* Fault: a search goes on after a listing that was cut short.
CutIgnored == op = "list" /\ cut

\* Whether the listing ends the answer as truncated.
CutShort == cut

\* Entries of one class that are neither restricted nor sensitive.
Eligible(class) == {q \in DOMAIN captured : captured[q] = class /\ ~SensitivePath(q)}

\* The paths of a set in the order of their names.
ByName(S) ==
    CHOOSE s \in SetToSeqs(S) : \A i, j \in DOMAIN s : i < j => s[i] < s[j]

\* search_text queues the entries in the order of their names.
Enqueue ==
    /\ entries' = entries + Cardinality(DOMAIN captured)
    /\ files' = files \o ByName(Eligible("file"))
    /\ dirs' = dirs \o ByName(Eligible("dir"))
    /\ UNCHANGED <<scanned, bytes, matches>>

VerifyDirectory ==
    /\ pc = "verify_directory"
    /\ IF ~(Resolves(at, "dir") /\ Identity(at) = expected) THEN Refuse
       ELSE IF op = "search"
       THEN Enqueue /\ (IF CutShort THEN Finish(reported, TRUE) ELSE GoOn)
       ELSE Finish(Eligible("file") \cup Eligible("dir"), CutShort) /\ UNCHANGED searchVars
    /\ captured' = <<>> /\ cut' = FALSE
    /\ UNCHANGED <<node, op, target, at, expected, moved, touched>>

-----------------------------------------------------------------------------
Step ==
    \/ SearchEnds \/ FilesExhausted \/ NextFile \/ NextDirectory
    \/ ResolveFile \/ Open \/ VerifyFile
    \/ ResolveDirectory \/ ListEntry \/ ListFull \/ ListEnd \/ ListRefused \/ VerifyDirectory

Next ==
    \/ \E p \in Paths : \/ \E o \in {"read", "list"} : Start(o, p)
                        \/ StartSearch(p)
    \/ Step
    \/ \E p \in Changing : Change(p)

Spec == Init /\ [][Next]_vars

\* The tool runs on in its thread; nothing is assumed of other processes.
FairSpec == Spec /\ WF_vars(Step)

-----------------------------------------------------------------------------
(* Properties *)

Stable(p) == (Above[p] \cup {p}) \cap touched = {}

Asked ==
    CASE op = "read" -> Resolves(target, "file") /\ node[target].kind # "unreadable"
      [] op = "list" -> Resolves(target, "dir")
      [] op = "search" -> Resolves(target, "file") \/ Resolves(target, "dir")

\* What a full answer contains, as far as nobody touched it during the call.
Owed ==
    {p \in Paths :
        /\ Stable(p) /\ ~SensitivePath(p)
        /\ \/ op = "read" /\ p = target
           \/ op = "list" /\ p \in Children(target)
              /\ (Resolves(p, "file") \/ Resolves(p, "dir"))
           \/ op = "search" /\ target \in Above[p] \cup {p}
              /\ Resolves(p, "file") /\ node[p].kind = "text"}

\* An answer that does not say truncated is complete, whatever other processes do to
\* the rest of the tree and however the limits fall; and a tool fails only if its
\* target is not what it asks for or was changed during the call.
AnswerIsComplete ==
    pc = "done" =>
        IF failed THEN ~(Stable(target) /\ Asked)
        ELSE truncated \/ Owed \subseteq reported

\* Every call is answered, however much the tree changes meanwhile.
CallsAnswered == (pc # "idle") ~> (pc = "done")

=============================================================================
