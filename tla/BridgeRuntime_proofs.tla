------------------------ MODULE BridgeRuntime_proofs -------------------------
(***************************************************************************)
(* Proofs about BridgeRuntime for every content of the files, every number *)
(* of edits and every set of projects: a project the check reports as      *)
(* ready is served as reported, what is served is coherent, recovered jobs *)
(* are authorized, and a remote listener is gated.                         *)
(***************************************************************************)
EXTENDS BridgeRuntime, SequenceTheorems, TLAPS

\* r holds what the files as they are now amount to: at the end of its start, or
\* as far as it has read them.
Current(r) ==
    /\ phase[r] = "based" => policy[r] \in LoadRegistry(config)
    /\ phase[r] \in {"composing", "serving"} =>
          \E base \in LoadRegistry(config) : policy[r] \in ApplyOverlay(base, overlay)

Shape ==
    /\ phase \in [Readers -> {"idle", "based", "composing", "serving"}]
    /\ DOMAIN policy = Readers

\* A reader that began after the last edit holds the current policy, and the
\* reports that still count are about that policy.
PolicyInv ==
    /\ Shape
    /\ \A r \in Readers \ stale : Current(r)
    /\ \A p \in ready :
          \E base \in LoadRegistry(config) :
             \E reg \in ApplyOverlay(base, overlay) : ReadSearchOnly(reg, p)

\* Only a serving bridge lists jobs.
JobsInv ==
    /\ Shape
    /\ phase["runtime"] # "serving" => inventory = {}
    /\ JobsAuthorized

\* What was delivered had the one right credential, and has none left.
OneCredential(d) ==
    /\ \E i \in DOMAIN d.request.headers :
          /\ Authorizations(d.request.headers) = {i}
          /\ d.request.headers[i].value = "token"
    /\ \A h \in d.left : h.name \notin SecretHeaders

\* The provider comes with its mode, and the gate is open only while serving.
GateInv ==
    /\ Shape
    /\ auth.mode \in {"stdio", "bearer", "oauth"}
    /\ auth.mode = "oauth" => auth.provider
    /\ phase["runtime"] # "serving" => gate = "closed"
    /\ phase["runtime"] = "serving" => gate \in Gate(auth)
    /\ \A d \in delivered : d.request.scope = "http" => OneCredential(d)

-----------------------------------------------------------------------------
(* The loaders are functions: there is one registry, or none.              *)

LEMMA OneRegistry ==
    ASSUME NEW doc, NEW a \in LoadRegistry(doc), NEW b \in LoadRegistry(doc)
    PROVE  a = b
  <1>1. CASE doc.present
    BY <1>1, Zenon DEF LoadRegistry
  <1>2. CASE ~doc.present
    BY <1>2, Zenon DEF LoadRegistry
  <1> QED
    BY <1>1, <1>2

LEMMA OneOverlaid ==
    ASSUME NEW base, NEW doc, NEW a \in ApplyOverlay(base, doc), NEW b \in ApplyOverlay(base, doc)
    PROVE  a = b
  BY Zenon DEF ApplyOverlay

-----------------------------------------------------------------------------
LEMMA ShapeInit == Init => Shape
  BY DEF Init, Shape, Readers

LEMMA ShapeStep == Shape /\ [Next]_vars => Shape'
  <1> SUFFICES ASSUME Shape, [Next]_vars PROVE Shape'
    OBVIOUS
  <1> USE DEF Shape, Readers
  <1>1. CASE Edit
    BY <1>1 DEF Edit
  <1>2. CASE CheckBegins
    BY <1>2 DEF CheckBegins, LoadBase
  <1>3. ASSUME NEW p \in Projects, CheckEnds(p) PROVE Shape'
    BY <1>3 DEF CheckEnds, Leave
  <1>4. CASE Start
    BY <1>4 DEF Start, LoadBase
  <1>5. CASE Overlay
    BY <1>5 DEF Overlay
  <1>6. CASE Serve
    BY <1>6 DEF Serve
  <1>7. CASE Stop
    BY <1>7 DEF Stop, Leave
  <1>8. ASSUME NEW p \in Projects, NEW alias \in Aliases, StartJob(p, alias) PROVE Shape'
    BY <1>8 DEF StartJob
  <1>9. ASSUME NEW request, Receive(request) PROVE Shape'
    BY <1>9 DEF Receive
  <1>10. CASE UNCHANGED vars
    BY <1>10 DEF vars
  <1> QED
    BY <1>1, <1>2, <1>3, <1>4, <1>5, <1>6, <1>7, <1>8, <1>9, <1>10 DEF Next

-----------------------------------------------------------------------------
(* What is reported is what is served.                                     *)

LEMMA PolicyInit == Init => PolicyInv
  BY ShapeInit DEF Init, PolicyInv, Current, Readers

\* A step that leaves the files, the reports and the policies alone.
LEMMA PolicyKept ==
    ASSUME PolicyInv, Shape',
           UNCHANGED <<config, overlay, policy, stale, ready>>,
           \A r \in Readers : \/ phase'[r] = phase[r]
                              \/ phase[r] = "composing" /\ phase'[r] = "serving"
    PROVE  PolicyInv'
  BY Zenon DEF PolicyInv, Current

LEMMA PolicyStep == PolicyInv /\ [Next]_vars => PolicyInv'
  <1> SUFFICES ASSUME PolicyInv, [Next]_vars PROVE PolicyInv'
    OBVIOUS
  <1>s. Shape /\ Shape'
    BY ShapeStep DEF PolicyInv
  <1>1. CASE Edit
    BY <1>1, <1>s DEF Edit, PolicyInv
  <1>2. CASE CheckBegins
    <2>1. \A r \in Readers \ stale' : Current(r)'
      BY <1>2, <1>s DEF CheckBegins, LoadBase, PolicyInv, Current, Shape, Readers, fileVars
    <2> QED
      BY <1>2, <1>s, <2>1 DEF CheckBegins, PolicyInv, fileVars
  <1>3. ASSUME NEW p \in Projects, CheckEnds(p) PROVE PolicyInv'
    <2>1. \A r \in Readers \ stale' : Current(r)'
      BY <1>3, <1>s DEF CheckEnds, Leave, PolicyInv, Current, Shape, Readers, fileVars
    <2>2. ASSUME NEW q \in ready'
          PROVE  \E base \in LoadRegistry(config) :
                    \E reg \in ApplyOverlay(base, overlay) : ReadSearchOnly(reg, q)
      <3>1. CASE q \in ready
        BY <3>1 DEF PolicyInv
      <3>2. CASE q \notin ready
        <4>1. q = p /\ Reports(p) /\ "check" \notin stale
          BY <1>3, <2>2, <3>2 DEF CheckEnds
        <4>2. policy["check"] \in LoadRegistry(config)
          BY <1>3, <4>1 DEF CheckEnds, PolicyInv, Current, Readers
        <4> QED
          BY <4>1, <4>2 DEF Reports, Effective
      <3> QED
        BY <3>1, <3>2
    <2> QED
      BY <1>3, <1>s, <2>1, <2>2 DEF CheckEnds, PolicyInv, fileVars
  <1>4. CASE Start
    <2>1. \A r \in Readers \ stale' : Current(r)'
      BY <1>4, <1>s DEF Start, LoadBase, PolicyInv, Current, Shape, Readers, fileVars
    <2> QED
      BY <1>4, <1>s, <2>1 DEF Start, PolicyInv, fileVars
  <1>5. CASE Overlay
    <2>1. \A r \in Readers \ stale' : Current(r)'
      BY <1>5, <1>s DEF Overlay, Effective, PolicyInv, Current, Shape, Readers, fileVars
    <2> QED
      BY <1>5, <1>s, <2>1 DEF Overlay, PolicyInv, fileVars
  <1>6. CASE Serve
    BY <1>6, <1>s, PolicyKept DEF Serve, fileVars, Shape, Readers
  <1>7. CASE Stop
    <2>1. \A r \in Readers \ stale' : Current(r)'
      BY <1>7, <1>s DEF Stop, Leave, PolicyInv, Current, Shape, Readers, fileVars
    <2> QED
      BY <1>7, <1>s, <2>1 DEF Stop, PolicyInv, fileVars
  <1>8. ASSUME NEW p \in Projects, NEW alias \in Aliases, StartJob(p, alias) PROVE PolicyInv'
    BY <1>8, <1>s, PolicyKept DEF StartJob, fileVars
  <1>9. ASSUME NEW request, Receive(request) PROVE PolicyInv'
    BY <1>9, <1>s, PolicyKept DEF Receive, fileVars
  <1>10. CASE UNCHANGED vars
    BY <1>10, <1>s, PolicyKept DEF vars
  <1> QED
    BY <1>1, <1>2, <1>3, <1>4, <1>5, <1>6, <1>7, <1>8, <1>9, <1>10 DEF Next

LEMMA PolicyImplies == PolicyInv => ReadyMeansReadOnly
  <1> SUFFICES ASSUME PolicyInv, phase["runtime"] = "serving", "runtime" \notin stale,
                      NEW p \in ready
               PROVE  ReadSearchOnly(policy["runtime"], p)
    BY DEF ReadyMeansReadOnly
  <1>1. PICK base \in LoadRegistry(config) : policy["runtime"] \in ApplyOverlay(base, overlay)
    BY DEF PolicyInv, Current, Readers
  <1>2. PICK other \in LoadRegistry(config) :
           \E reg \in ApplyOverlay(other, overlay) : ReadSearchOnly(reg, p)
    BY DEF PolicyInv
  <1>3. PICK reg \in ApplyOverlay(other, overlay) : ReadSearchOnly(reg, p)
    BY <1>2
  <1> QED
    BY <1>1, <1>3, OneRegistry, OneOverlaid

\* A project the onboarding check reported as ready is served with exactly read
\* and search by every bridge started on the files the check has seen.
THEOREM ReadyIsReadOnly == Spec => []ReadyMeansReadOnly
  BY PolicyInit, PolicyStep, PolicyImplies, PTL DEF Spec

-----------------------------------------------------------------------------
(* Jobs of earlier bridges.                                                *)

LEMMA JobsStep == JobsInv /\ [Next]_vars => JobsInv'
  <1> SUFFICES ASSUME JobsInv, [Next]_vars PROVE JobsInv'
    OBVIOUS
  <1>s. Shape /\ Shape'
    BY ShapeStep DEF JobsInv
  <1> USE DEF JobsInv, JobsAuthorized
  <1>1. CASE Edit
    BY <1>1, <1>s DEF Edit, sessionVars
  <1>2. CASE CheckBegins
    BY <1>2, <1>s DEF CheckBegins, LoadBase, Shape, Readers, sessionVars
  <1>3. ASSUME NEW p \in Projects, CheckEnds(p) PROVE JobsInv'
    BY <1>3, <1>s DEF CheckEnds, Leave, Shape, Readers, sessionVars
  <1>4. CASE Start
    BY <1>4, <1>s DEF Start, LoadBase, Shape, Readers
  <1>5. CASE Overlay
    BY <1>5, <1>s DEF Overlay, Shape, Readers, sessionVars
  <1>6. CASE Serve
    BY <1>6, <1>s DEF Serve, Recoverable, Shape, Readers
  <1>7. CASE Stop
    BY <1>7, <1>s DEF Stop
  <1>8. ASSUME NEW p \in Projects, NEW alias \in Aliases, StartJob(p, alias) PROVE JobsInv'
    BY <1>8, <1>s DEF StartJob
  <1>9. ASSUME NEW request, Receive(request) PROVE JobsInv'
    BY <1>9, <1>s DEF Receive
  <1>10. CASE UNCHANGED vars
    BY <1>10, <1>s DEF vars
  <1> QED
    BY <1>1, <1>2, <1>3, <1>4, <1>5, <1>6, <1>7, <1>8, <1>9, <1>10 DEF Next

\* Every job a bridge lists, recovered ones included, is authorized by the policy
\* this bridge serves.
THEOREM ListedJobsAuthorized == Spec => []JobsAuthorized
  <1>1. Init => JobsInv
    BY ShapeInit DEF Init, JobsInv, JobsAuthorized, Readers
  <1>2. JobsInv => JobsAuthorized
    BY DEF JobsInv
  <1> QED
    BY <1>1, <1>2, JobsStep, PTL DEF Spec

-----------------------------------------------------------------------------
(* The remote listener.                                                    *)

\* One Authorization header passes the gate, and it is the right one.
LEMMA BearerIsOne ==
    ASSUME NEW headers, "token" \in Bearer(headers)
    PROVE  \E i \in DOMAIN headers :
              Authorizations(headers) = {i} /\ headers[i].value = "token"
  <1>1. PICK i \in Authorizations(headers) :
              Authorizations(headers) = {i} /\ headers[i].value = "token"
    BY DEF Bearer
  <1> QED
    BY <1>1 DEF Authorizations

LEMMA ScrubbedIsClean ==
    ASSUME NEW headers, NEW h \in Scrubbed(headers)
    PROVE  h.name \notin SecretHeaders
  BY DEF Scrubbed

LEMMA GateStep == GateInv /\ [Next]_vars => GateInv'
  <1> SUFFICES ASSUME GateInv, [Next]_vars PROVE GateInv'
    OBVIOUS
  <1>s. Shape /\ Shape'
    BY ShapeStep DEF GateInv
  <1> USE DEF GateInv
  <1>1. CASE Edit
    BY <1>1, <1>s DEF Edit, sessionVars
  <1>2. CASE CheckBegins
    BY <1>2, <1>s DEF CheckBegins, LoadBase, Shape, Readers, sessionVars
  <1>3. ASSUME NEW p \in Projects, CheckEnds(p) PROVE GateInv'
    BY <1>3, <1>s DEF CheckEnds, Leave, Shape, Readers, sessionVars
  <1>4. CASE Start
    BY <1>4, <1>s DEF Start, LoadBase, Credentials, NoAuth, Shape, Readers
  <1>5. CASE Overlay
    BY <1>5, <1>s DEF Overlay, Shape, Readers, sessionVars
  <1>6. CASE Serve
    BY <1>6, <1>s DEF Serve, Shape, Readers
  <1>7. CASE Stop
    BY <1>7, <1>s DEF Stop, Leave, NoAuth, Shape, Readers
  <1>8. ASSUME NEW p \in Projects, NEW alias \in Aliases, StartJob(p, alias) PROVE GateInv'
    BY <1>8, <1>s DEF StartJob
  <1>9. ASSUME NEW request, Receive(request) PROVE GateInv'
    <2>1. ASSUME NEW d \in delivered', d.request.scope = "http" PROVE OneCredential(d)
      <3>1. /\ d = [request |-> request, left |-> Scrubbed(request.headers)]
            /\ "token" \in Bearer(request.headers)
        BY <1>9, <2>1 DEF Receive
      <3>2. d.request = request /\ d.left = Scrubbed(request.headers)
        BY <3>1
      <3> QED
        BY <3>1, <3>2, BearerIsOne, ScrubbedIsClean DEF OneCredential
    <2> QED
      BY <1>9, <1>s, <2>1 DEF Receive
  <1>10. CASE UNCHANGED vars
    BY <1>10, <1>s DEF vars
  <1> QED
    BY <1>1, <1>2, <1>3, <1>4, <1>5, <1>6, <1>7, <1>8, <1>9, <1>10 DEF Next

\* A serving remote bridge is behind the gate of its mode, and the HTTP requests that
\* the application sees presented the one right credential and carry none.
THEOREM RemoteIsGated == Spec => []ListenerIsGated
  <1>1. Init => GateInv
    BY ShapeInit DEF Init, GateInv, NoAuth, Readers
  <1>2. GateInv => ListenerIsGated
    BY DEF GateInv, ListenerIsGated, Gate, OneCredential
  <1> QED
    BY <1>1, <1>2, GateStep, PTL DEF Spec

-----------------------------------------------------------------------------
(* The policy that is served.                                              *)

\* Two paths that lead to the same file are a directory and one inside it.
LEMMA CommonFileMeansOverlap ==
    ASSUME NEW a \in Seq(STRING), NEW b \in Seq(STRING), NEW d \in Seq(STRING),
           IsPrefix(a, d), IsPrefix(b, d)
    PROVE  RootsOverlap(a, b)
<1>1. ASSUME NEW s \in Seq(STRING), NEW t \in Seq(STRING), Len(s) <= Len(t),
             IsPrefix(s, d), IsPrefix(t, d)
      PROVE  IsPrefix(s, t)
  <2>1. /\ Len(s) \in Nat /\ Len(t) \in Nat /\ Len(d) \in Nat
        /\ Len(s) <= Len(d) /\ Len(t) <= Len(d)
        /\ SubSeq(s, 1, Len(s)) = SubSeq(d, 1, Len(s))
        /\ SubSeq(t, 1, Len(t)) = SubSeq(d, 1, Len(t))
    BY <1>1 DEF IsPrefix
  <2>2. ASSUME NEW u \in Seq(STRING), NEW n \in Nat, n <= Len(u)
        PROVE  /\ SubSeq(u, 1, n) \in Seq(STRING)
               /\ Len(SubSeq(u, 1, n)) = n
               /\ \A i \in 1..n : SubSeq(u, 1, n)[i] = u[i]
    <3>1. 1 \in 1..(Len(u) + 1) /\ n \in (1 - 1)..Len(u)
      BY <2>2
    <3>2. n - 1 + 1 = n /\ \A i \in 1..n : 1 + i - 1 = i
      BY <2>2
    <3> QED BY <3>1, <3>2, SubSeqProperties
  <2>3. \A i \in 1..Len(t) : t[i] = d[i]
    BY <2>1, <2>2
  <2>4. \A i \in 1..Len(s) : i \in 1..Len(t)
    BY <1>1, <2>1
  <2>5. \A i \in 1..Len(s) : SubSeq(t, 1, Len(s))[i] = SubSeq(d, 1, Len(s))[i]
    BY <1>1, <2>1, <2>2, <2>3, <2>4
  <2>6. SubSeq(t, 1, Len(s)) = SubSeq(d, 1, Len(s))
    <3>1. /\ SubSeq(t, 1, Len(s)) \in Seq(STRING) /\ SubSeq(d, 1, Len(s)) \in Seq(STRING)
          /\ Len(SubSeq(t, 1, Len(s))) = Len(s) /\ Len(SubSeq(d, 1, Len(s))) = Len(s)
      BY <1>1, <2>1, <2>2
    <3> QED BY <2>5, <3>1, SeqEqual
  <2> QED BY <1>1, <2>1, <2>6 DEF IsPrefix
<1>2. Len(a) <= Len(b) \/ Len(b) <= Len(a)
  OBVIOUS
<1> QED BY <1>1, <1>2 DEF RootsOverlap

\* What load_runtime_registry returns: no project has a Git policy yet.
BaseSound(r) ==
    \A p \in DOMAIN r :
        /\ r[p] = [root |-> r[p].root, permissions |-> r[p].permissions,
                   rules |-> r[p].rules, git |-> FALSE]
        /\ r[p].root \in Directories
        /\ "search" \in r[p].permissions => "read" \in r[p].permissions
        /\ "execute" \in r[p].permissions => r[p].rules # <<>>
        /\ "git" \notin r[p].permissions
        /\ \A q \in DOMAIN r \ {p} : ~RootsOverlap(r[p].root, r[q].root)

\* A policy that may be served.
Coherent(r) ==
    \A p \in DOMAIN r :
        /\ "search" \in r[p].permissions => "read" \in r[p].permissions
        /\ "execute" \in r[p].permissions =>
              /\ r[p].rules # <<>>
              /\ \A i \in DOMAIN r[p].rules :
                    {r[p].rules[i].alias, r[p].rules[i].target} \cap GitNames = {}
        /\ "git" \in r[p].permissions <=> r[p].git
        /\ \A q \in DOMAIN r \ {p} :
              ~\E d \in Directories : IsPrefix(r[p].root, d) /\ IsPrefix(r[q].root, d)

\* Whatever the file holds, it is loaded as a sound base or not at all.
LEMMA LoadedIsSound ==
    ASSUME NEW doc, NEW r \in LoadRegistry(doc)
    PROVE  BaseSound(r)
<1>1. CASE ~doc.present
  BY <1>1 DEF LoadRegistry, Empty, BaseSound
<1>2. CASE doc.present
  <2>1. /\ r = Registered(doc) /\ RegistryAccepts(r)
        /\ \A p \in DOMAIN doc.projects : EntryAccepted(doc.projects[p])
    BY <1>2 DEF LoadRegistry
  <2>2. DOMAIN r = DOMAIN doc.projects
    BY <2>1 DEF Registered
  <2>3. ASSUME NEW p \in DOMAIN r
        PROVE  /\ r[p] = [root |-> doc.projects[p].root,
                          permissions |-> doc.projects[p].permissions,
                          rules |-> doc.projects[p].rules, git |-> FALSE]
               /\ EntryAccepted(doc.projects[p])
               /\ "git" \notin r[p].permissions
    <3>1. r[p] = [root |-> doc.projects[p].root,
                  permissions |-> doc.projects[p].permissions,
                  rules |-> doc.projects[p].rules, git |-> FALSE]
      BY <2>1, <2>2 DEF Registered
    <3>2. "git" \in r[p].permissions => r[p].git
      BY <2>1 DEF RegistryAccepts
    <3> QED BY <2>1, <2>2, <3>1, <3>2
  <2>4. \A p, q \in DOMAIN r : p # q => ~RootsOverlap(r[p].root, r[q].root)
    BY <2>1 DEF RegistryAccepts
  <2> QED BY <2>3, <2>4 DEF BaseSound, EntryAccepted
<1> QED BY <1>1, <1>2

\* Whatever the overlay holds, it makes a coherent policy of a sound base, or none.
LEMMA OverlaidIsCoherent ==
    ASSUME NEW r, BaseSound(r), NEW doc, NEW s \in ApplyOverlay(r, doc)
    PROVE  Coherent(s)
<1>1. s = WithPolicies(r, doc) /\ ~ExposesGit(r)
  BY DEF ApplyOverlay
<1>2. DOMAIN s = DOMAIN r
  BY <1>1 DEF WithPolicies
<1>3. ASSUME NEW p \in DOMAIN s
      PROVE  /\ s[p].root = r[p].root /\ s[p].rules = r[p].rules
             /\ \A x : x # "git" => (x \in s[p].permissions <=> x \in r[p].permissions)
             /\ "git" \in s[p].permissions <=> s[p].git
  <2>1. s[p] = IF p \in DOMAIN doc.projects
               THEN [r[p] EXCEPT !.permissions = @ \cup {"git"}, !.git = TRUE]
               ELSE r[p]
    BY <1>1, <1>2 DEF WithPolicies
  <2>2. PICK root, permissions, rules :
           r[p] = [root |-> root, permissions |-> permissions, rules |-> rules, git |-> FALSE]
    BY <1>2 DEF BaseSound
  <2>3. CASE p \in DOMAIN doc.projects
    <3>1. s[p] = [root |-> root, permissions |-> permissions \cup {"git"}, rules |-> rules,
                  git |-> TRUE]
      <4> DEFINE old == [root |-> root, permissions |-> permissions, rules |-> rules,
                         git |-> FALSE]
      <4>1. s[p] = [old EXCEPT !.permissions = @ \cup {"git"}, !.git = TRUE]
        BY <2>1, <2>2, <2>3
      <4> QED BY <4>1
    <3> QED BY <2>2, <3>1
  <2>4. CASE p \notin DOMAIN doc.projects
    BY <1>2, <2>1, <2>2, <2>4 DEF BaseSound
  <2> QED BY <2>3, <2>4
<1>4. ASSUME NEW p \in DOMAIN s, NEW q \in DOMAIN s \ {p}, NEW d \in Directories,
             IsPrefix(s[p].root, d), IsPrefix(s[q].root, d)
      PROVE  FALSE
  <2>1. /\ r[p].root \in Directories /\ r[q].root \in Directories
        /\ ~RootsOverlap(r[p].root, r[q].root)
    BY <1>2 DEF BaseSound
  <2> QED BY <1>3, <1>4, <2>1, DirectoriesAssumption, CommonFileMeansOverlap
<1>5. \A p \in DOMAIN r : "execute" \in r[p].permissions =>
         \A i \in DOMAIN r[p].rules :
            {r[p].rules[i].alias, r[p].rules[i].target} \cap GitNames = {}
  BY <1>1, Zenon DEF ExposesGit
<1>6. \A p \in DOMAIN s : "execute" \in s[p].permissions =>
         \A i \in DOMAIN s[p].rules :
            {s[p].rules[i].alias, s[p].rules[i].target} \cap GitNames = {}
  BY <1>2, <1>3, <1>5
<1> QED BY <1>2, <1>3, <1>4, <1>6 DEF Coherent, BaseSound

\* The runtime holds a sound base, then a coherent policy.
ServedInv ==
    /\ Shape
    /\ phase["runtime"] = "based" => BaseSound(policy["runtime"])
    /\ phase["runtime"] \in {"composing", "serving"} => Coherent(policy["runtime"])

LEMMA ServedStep == ServedInv /\ [Next]_vars => ServedInv'
<1> SUFFICES ASSUME ServedInv, [Next]_vars PROVE ServedInv'
  OBVIOUS
<1>s. Shape /\ Shape'
  BY ShapeStep DEF ServedInv
<1>1. CASE Start
  <2>1. phase'["runtime"] = "based" /\ policy'["runtime"] \in LoadRegistry(config)
    BY <1>1, <1>s DEF Start, LoadBase, Shape, Readers
  <2> QED BY <1>s, <2>1, LoadedIsSound DEF ServedInv
<1>2. CASE Overlay
  <2>1. /\ phase["runtime"] = "based" /\ phase'["runtime"] = "composing"
        /\ policy'["runtime"] \in ApplyOverlay(policy["runtime"], overlay)
    BY <1>2, <1>s DEF Overlay, Effective, Shape, Readers
  <2> QED BY <1>s, <2>1, OverlaidIsCoherent DEF ServedInv
<1>3. CASE Stop
  <2>1. phase'["runtime"] = "idle"
    BY <1>3, <1>s DEF Stop, Leave, Shape, Readers
  <2> QED BY <1>s, <2>1 DEF ServedInv
<1>4. ASSUME UNCHANGED policy["runtime"],
             \/ UNCHANGED phase["runtime"]
             \/ phase["runtime"] = "composing" /\ phase'["runtime"] = "serving"
      PROVE  ServedInv'
  BY <1>4, <1>s DEF ServedInv
<1>5. CASE CheckBegins \/ \E p \in Projects : CheckEnds(p)
  <2>1. UNCHANGED policy["runtime"] /\ UNCHANGED phase["runtime"]
    BY <1>5, <1>s DEF CheckBegins, CheckEnds, LoadBase, Leave, Shape, Readers
  <2> QED BY <1>4, <2>1
<1>6. CASE Serve
  <2>1. /\ UNCHANGED policy
        /\ phase["runtime"] = "composing" /\ phase'["runtime"] = "serving"
    BY <1>6, <1>s DEF Serve, Shape, Readers
  <2> QED BY <1>4, <2>1
<1>7. CASE \/ Edit
           \/ \E p \in Projects, alias \in Aliases : StartJob(p, alias)
           \/ \E request \in Requests : Receive(request)
           \/ UNCHANGED vars
  BY <1>4, <1>7 DEF Edit, StartJob, Receive, vars
<1> QED BY <1>1, <1>2, <1>3, <1>5, <1>6, <1>7 DEF Next

\* Whatever the operator writes into the two files, and whenever, the policy a
\* bridge composes and serves is coherent.
THEOREM ServedIsSound == Spec => []PolicySound
<1>1. Init => ServedInv
  BY ShapeInit DEF Init, ServedInv, Readers
<1>2. ServedInv => PolicySound
  BY DEF ServedInv, Coherent, PolicySound
<1> QED BY <1>1, <1>2, ServedStep, PTL DEF Spec

=============================================================================
