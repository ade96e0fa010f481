----------------------------- MODULE LocalPolicy -----------------------------
(***************************************************************************)
(* The local policy of the bridge: what config.py and git_config.py make   *)
(* of the two files of the operator, the rules a ProjectRegistry enforces, *)
(* and the remote policy of remote_config.py.  A load that raises returns  *)
(* the empty set of registries.                                            *)
(*                                                                         *)
(* A file is present or not, and required when an environment variable     *)
(* selects it; formed stands for the checks that look at one file as a     *)
(* whole: its size, YAML without duplicate keys, known keys and types and, *)
(* in config.yaml, the fixed security section.  A path is a sequence of    *)
(* names.                                                                  *)
(***************************************************************************)
EXTENDS SequencesExt

CONSTANT Directories  \* the directories of the host

ASSUME DirectoriesAssumption == \A d \in Directories : d \in Seq(STRING)

\* The names of the generic Git executable.
GitNames == {"git", "git.exe"}

\* The registry without projects.
Empty == <<>>

-----------------------------------------------------------------------------
(* config.yaml: each project has a root, a set of permissions, the rules of *)
(* its executables and limits.  A rule maps an alias to a target, of which  *)
(* only the last name matters; sound: a simple name, or the path of an      *)
(* executable regular file.                                                 *)

Aliased(e) == {e.rules[i].alias : i \in DOMAIN e.rules}

UniqueAliases(e) == Cardinality(Aliased(e)) = Len(e.rules)

\* What is checked of one project of config.yaml.
EntryAccepted(e) ==
    /\ e.root \in Directories
    /\ "search" \in e.permissions => "read" \in e.permissions
    /\ \A i \in DOMAIN e.rules : e.rules[i].sound
    /\ UniqueAliases(e)
    /\ e.bounded
    /\ "execute" \in e.permissions => e.rules # <<>>

\* One root contains the other.
RootsOverlap(a, b) == IsPrefix(a, b) \/ IsPrefix(b, a)

\* The constructor of ProjectRegistry.
RegistryAccepts(r) ==
    /\ \A p, q \in DOMAIN r : p # q => ~RootsOverlap(r[p].root, r[q].root)
    /\ \A p \in DOMAIN r : UniqueAliases(r[p])
    /\ \A p \in DOMAIN r : "git" \in r[p].permissions => r[p].git

\* The records made of the projects of config.yaml: none has a Git policy yet.
Registered(doc) ==
    [p \in DOMAIN doc.projects |->
        [root |-> doc.projects[p].root, permissions |-> doc.projects[p].permissions,
         rules |-> doc.projects[p].rules, git |-> FALSE]]

\* load_runtime_registry: a missing default file means no projects.
LoadRegistry(doc) ==
    IF doc.present
    THEN {r \in {Registered(doc)} :
             /\ doc.formed
             /\ \A p \in DOMAIN doc.projects : EntryAccepted(doc.projects[p])
             /\ RegistryAccepts(r)}
    ELSE {r \in {Empty} : ~doc.required}

-----------------------------------------------------------------------------
(* git.local.yaml: for each project, whether its policy is sound.          *)

\* Fault: aliases are compared, and targets are not.
ExposesGitByAlias(r) ==
    \E p \in DOMAIN r : "execute" \in r[p].permissions /\ Aliased(r[p]) \cap GitNames # {}

\* A project can run Git as an ordinary process.
ExposesGit(r) ==
    \E p \in DOMAIN r :
        /\ "execute" \in r[p].permissions
        /\ \E i \in DOMAIN r[p].rules :
              {r[p].rules[i].alias, r[p].rules[i].target} \cap GitNames # {}

\* The projects the overlay lists get a policy and the permission to use it.
WithPolicies(r, doc) ==
    [p \in DOMAIN r |->
        IF p \in DOMAIN doc.projects
        THEN [r[p] EXCEPT !.permissions = @ \cup {"git"}, !.git = TRUE]
        ELSE r[p]]

\* load_runtime_git_registry: an absent default overlay leaves Git disabled.
ApplyOverlay(r, doc) ==
    {s \in {WithPolicies(r, doc)} :
        /\ ~ExposesGit(r)
        /\ IF doc.present
           THEN /\ doc.formed
                /\ DOMAIN doc.projects \subseteq DOMAIN r
                /\ \A p \in DOMAIN doc.projects : doc.projects[p]
                /\ RegistryAccepts(s)
           ELSE ~doc.required}

-----------------------------------------------------------------------------
\* remote.local.yaml.
Loopback == {"127.0.0.1", "::1"}

\* load_remote_settings: there is no default for a missing file.  public: the URL,
\* of the environment or else of the file, is HTTPS, of a DNS name, with path /mcp
\* and nothing else; bounded: the port and the limits are in their ranges.
RemoteAccepts(doc) ==
    /\ doc.present /\ doc.formed
    /\ doc.enabled
    /\ doc.host \in Loopback
    /\ doc.public
    /\ doc.bounded

-----------------------------------------------------------------------------
\* evaluate_onboarding of one project.
ReadSearchOnly(r, p) == p \in DOMAIN r /\ r[p].permissions = {"read", "search"}

\* The project may run the executable: require, the permission and
\* require_executable.
MayRun(r, p, alias) ==
    p \in DOMAIN r /\ "execute" \in r[p].permissions /\ alias \in Aliased(r[p])

=============================================================================
