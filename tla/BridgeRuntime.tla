---------------------------- MODULE BridgeRuntime ----------------------------
(***************************************************************************)
(* One bridge process from its start to its end (runtime_composition.py,   *)
(* remote_runtime.py, remote_transport.py), and the onboarding check       *)
(* (onboarding.py), a process of its own, while the operator edits the     *)
(* files both of them read.                                                *)
(*                                                                         *)
(* Each of them reads config.yaml first and git.local.yaml later, so that  *)
(* an edit can fall between the two; an editor replaces a file at once.    *)
(* What a serving bridge knows of the policy it read at its start; what    *)
(* its job manager finds was written under the policies of earlier ones.   *)
(* The requests are those of the pre-shared bearer gate: OAuthProvider has *)
(* the others.                                                             *)
(***************************************************************************)
EXTENDS LocalPolicy

CONSTANTS
    Projects,   \* the project ids the operator uses
    Aliases,    \* the executable aliases clients ask for
    Configs,    \* the contents config.yaml may have
    Overlays,   \* the contents git.local.yaml may have
    Remotes,    \* the contents remote.local.yaml may have
    MaxEdits    \* bound on the edits in a behaviour

ASSUME MaxEditsAssumption == MaxEdits \in Nat

\* The two programs that read the policy.
Readers == {"check", "runtime"}

VARIABLES
    config, overlay,  \* the files
    edits,            \* edits so far
    phase,            \* of each reader: "idle", "based", "composing", "serving"
    policy,           \* the registry each reader holds
    stale,            \* the readers that began before the last edit
    ready,            \* projects a check that is not stale reported as ready
    records,          \* the jobs in the state directory: project and alias
    inventory,        \* the jobs the runtime lists
    auth,             \* what main passes on: mode, host, token, provider
    gate,             \* what guards the listener
    delivered         \* the request that reached the MCP application last

vars == <<config, overlay, edits, phase, policy, stale, ready, records,
          inventory, auth, gate, delivered>>

fileVars == <<config, overlay, edits>>
sessionVars == <<inventory, auth, gate, delivered>>

NoAuth == [mode |-> "stdio", host |-> "none", token |-> FALSE, provider |-> FALSE]

Init ==
    /\ config \in Configs
    /\ overlay \in Overlays
    /\ edits = 0
    /\ phase = [r \in Readers |-> "idle"]
    /\ policy = [r \in Readers |-> Empty]
    /\ stale = {}
    /\ ready = {}
    /\ records = {}
    /\ inventory = {}
    /\ auth = NoAuth
    /\ gate = "closed"
    /\ delivered = {}

-----------------------------------------------------------------------------
\* The operator saves one of the files.
Edit ==
    /\ edits < MaxEdits
    /\ edits' = edits + 1
    /\ \/ config' \in Configs \ {config} /\ UNCHANGED overlay
       \/ overlay' \in Overlays \ {overlay} /\ UNCHANGED config
    /\ stale' = Readers
    /\ ready' = {}
    /\ UNCHANGED <<phase, policy, records, sessionVars>>

\* A reader ends, or gives up because a load or a check raises.
Leave(r) ==
    /\ phase' = [phase EXCEPT ![r] = "idle"]
    /\ policy' = [policy EXCEPT ![r] = Empty]

\* r loads config.yaml.
LoadBase(r) ==
    \E reg \in LoadRegistry(config) :
        /\ phase' = [phase EXCEPT ![r] = "based"]
        /\ policy' = [policy EXCEPT ![r] = reg]

CheckBegins ==
    /\ phase["check"] = "idle"
    /\ LoadBase("check")
    /\ stale' = stale \ {"check"}
    /\ UNCHANGED <<fileVars, ready, records, sessionVars>>

\* The policy r makes of the overlay.
Effective(r) == ApplyOverlay(policy[r], overlay)

\* Fault: the check evaluates the policy before the overlay.
ReportsBase(p) == ReadSearchOnly(policy["check"], p)

Reports(p) == \E reg \in Effective("check") : ReadSearchOnly(reg, p)

\* The check of project p ends: "ready", not ready, or an invalid configuration.
CheckEnds(p) ==
    /\ phase["check"] = "based"
    /\ Leave("check")
    /\ ready' = IF Reports(p) /\ "check" \notin stale THEN ready \cup {p} ELSE ready \ {p}
    /\ UNCHANGED <<fileVars, stale, records, sessionVars>>

-----------------------------------------------------------------------------
(* The start of a bridge.                                                  *)

\* main of remote_runtime: the remote policy, the mode, then its credentials, before
\* anything else.  Both secrets may be set; each mode takes its own.
Credentials(doc, mode, token, client) ==
    {a \in {[mode |-> mode, host |-> doc.host,
             token |-> mode = "bearer", provider |-> mode = "oauth"]} :
        /\ RemoteAccepts(doc)
        /\ IF mode = "oauth" THEN client ELSE token}

\* The process starts, for stdio or for the remote transport, and loads its policy.
Start ==
    /\ phase["runtime"] = "idle"
    /\ \/ auth' = NoAuth
       \/ \E doc \in Remotes, mode \in {"bearer", "oauth"}, token, client \in BOOLEAN :
             auth' \in Credentials(doc, mode, token, client)
    /\ LoadBase("runtime")
    /\ stale' = stale \ {"runtime"}
    /\ UNCHANGED <<fileVars, ready, records, inventory, gate, delivered>>

\* The overlay is applied, and the audit log opened.
Overlay ==
    /\ phase["runtime"] = "based"
    /\ \E reg \in Effective("runtime") :
          /\ phase' = [phase EXCEPT !["runtime"] = "composing"]
          /\ policy' = [policy EXCEPT !["runtime"] = reg]
    /\ UNCHANGED <<fileVars, stale, ready, records, sessionVars>>

\* Fault: recovery checks the project of a record, and not its executable.
RecoverableByProject(k) ==
    \E alias \in Aliases : MayRun(policy["runtime"], k.project, alias)

\* The current policy authorizes the record of a job of an earlier bridge.
Recoverable(k) == MayRun(policy["runtime"], k.project, k.alias)

\* serve_remote: on loopback only, the application itself with the OAuth mode, whose
\* gate is the provider of its server, and a bearer gate around it without; a token
\* with the OAuth mode, or none without it, is refused.
Gate(a) ==
    CASE a.mode = "stdio" -> {"pipe"}
      [] a.mode = "oauth" ->
            {g \in {IF a.provider THEN "oauth" ELSE "open"} : ~a.token /\ a.host \in Loopback}
      [] a.mode = "bearer" -> {g \in {"bearer"} : a.token /\ a.host \in Loopback}

\* The jobs are recovered (as far as the limits go), the server is composed with
\* the provider there is, and it is served.
Serve ==
    /\ phase["runtime"] = "composing"
    /\ \E kept \in SUBSET {k \in records : Recoverable(k)} : inventory' = kept
    /\ gate' \in Gate(auth)
    /\ phase' = [phase EXCEPT !["runtime"] = "serving"]
    /\ UNCHANGED <<fileVars, policy, stale, ready, records, auth, delivered>>

\* A start fails, or the process ends.
Stop ==
    /\ phase["runtime"] # "idle"
    /\ Leave("runtime")
    /\ inventory' = {}
    /\ auth' = NoAuth
    /\ gate' = "closed"
    /\ delivered' = {}
    /\ UNCHANGED <<fileVars, stale, ready, records>>

-----------------------------------------------------------------------------
(* A serving bridge.                                                       *)

\* start_job of an authorized executable.
StartJob(p, alias) ==
    /\ phase["runtime"] = "serving"
    /\ MayRun(policy["runtime"], p, alias)
    /\ records' = records \cup {[project |-> p, alias |-> alias]}
    /\ inventory' = inventory \cup {[project |-> p, alias |-> alias]}
    /\ UNCHANGED <<fileVars, phase, policy, stale, ready, auth, gate, delivered>>

(* BearerAuthMiddleware.  Headers are told apart by the names and values it *)
(* looks for; scopes other than HTTP requests it passes on unread.         *)
Headers == [name: {"authorization"}, value: {"token", "wrong"}]
           \cup [name: {"proxy-authorization", "accept"}, value: {"any"}]

SecretHeaders == {"authorization", "proxy-authorization"}

Requests == [scope: {"http"}, headers: BoundedSeq(Headers, 2)]
            \cup [scope: {"other"}, headers: {<<>>}]

\* Where the Authorization headers of a request are.
Authorizations(headers) == {i \in DOMAIN headers : headers[i].name = "authorization"}

\* Fault: the last of several Authorization headers counts.
BearerLast(headers) ==
    {headers[i].value : i \in {k \in Authorizations(headers) :
                                  \A j \in Authorizations(headers) : j <= k}}

\* _extract_bearer: the credential of the only Authorization header.
Bearer(headers) ==
    {headers[i].value : i \in {k \in Authorizations(headers) : Authorizations(headers) = {k}}}

\* The headers that the application is given; their order does not matter.
Scrubbed(headers) ==
    {headers[i] : i \in {k \in DOMAIN headers : headers[k].name \notin SecretHeaders}}

\* A request is passed on to the application; an HTTP one only with the right
\* credential (401 otherwise), and without the headers that may hold one.
Receive(request) ==
    /\ phase["runtime"] = "serving"
    /\ gate = "bearer"
    /\ \/ /\ request.scope # "http"
          /\ delivered' = {[request |-> request, left |-> Range(request.headers)]}
       \/ /\ request.scope = "http"
          /\ "token" \in Bearer(request.headers)
          /\ delivered' = {[request |-> request, left |-> Scrubbed(request.headers)]}
    /\ UNCHANGED <<fileVars, phase, policy, stale, ready, records, inventory, auth, gate>>

Next ==
    \/ Edit
    \/ CheckBegins \/ \E p \in Projects : CheckEnds(p)
    \/ Start \/ Overlay \/ Serve \/ Stop
    \/ \E p \in Projects, alias \in Aliases : StartJob(p, alias)
    \/ \E request \in Requests : Receive(request)

Spec == Init /\ [][Next]_vars

-----------------------------------------------------------------------------
(* Properties *)

\* config.py, lines 3-5: what is served is coherent, although its two files may
\* be of two different moments: search comes with read, a project that executes
\* has executables and Git is none of them, Git comes with a policy, and no file
\* belongs to two projects.
PolicySound ==
    phase["runtime"] \in {"composing", "serving"} =>
        LET reg == policy["runtime"]
        IN  \A p \in DOMAIN reg :
               /\ "search" \in reg[p].permissions => "read" \in reg[p].permissions
               /\ "execute" \in reg[p].permissions =>
                     /\ reg[p].rules # <<>>
                     /\ \A i \in DOMAIN reg[p].rules :
                           {reg[p].rules[i].alias, reg[p].rules[i].target} \cap GitNames = {}
               /\ "git" \in reg[p].permissions <=> reg[p].git
               /\ \A q \in DOMAIN reg \ {p} :
                     ~\E d \in Directories : IsPrefix(reg[p].root, d) /\ IsPrefix(reg[q].root, d)

\* phase-11-1-controlled-onboarding.md: when the check has said "ready" and the
\* files were not edited since it began, a bridge started on those files lets
\* nobody do more, or less, with the project than read and search.
ReadyMeansReadOnly ==
    phase["runtime"] = "serving" /\ "runtime" \notin stale =>
        \A p \in ready : ReadSearchOnly(policy["runtime"], p)

\* security-model.md, line 57: whatever bridges with other policies left in the
\* state directory, a job is listed only when the policy of this one authorizes
\* its project and its executable.
JobsAuthorized ==
    \A k \in inventory : MayRun(policy["runtime"], k.project, k.alias)

\* A remote listener is on loopback and behind the gate of its mode, whichever
\* secrets are set; and an HTTP request that passes the bearer gate presented exactly
\* one Authorization header, the right one, and carries no credential on to the
\* application.
ListenerIsGated ==
    /\ gate # "open"
    /\ phase["runtime"] = "serving" /\ auth.mode # "stdio" =>
          gate = auth.mode /\ auth.host \in Loopback
    /\ \A d \in delivered : d.request.scope = "http" =>
          /\ \E i \in DOMAIN d.request.headers :
                /\ Authorizations(d.request.headers) = {i}
                /\ d.request.headers[i].value = "token"
          /\ \A h \in d.left : h.name \notin SecretHeaders

=============================================================================
