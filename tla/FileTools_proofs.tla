--------------------------- MODULE FileTools_proofs ---------------------------
(***************************************************************************)
(* Proofs about the file tools: the counters of a search stay within their *)
(* limits, and an answer that is not truncated is complete, for every tree *)
(* and all limits, however other processes change the tree meanwhile.      *)
(*                                                                         *)
(* Above is a recursive function and ByName a choice: the first sections   *)
(* prove that both exist and what they are, by least elements.             *)
(***************************************************************************)
EXTENDS FileTools, FiniteSetTheorems, WellFoundedInduction, TLAPS

-----------------------------------------------------------------------------
(* Least elements.                                                         *)

\* A set of naturals that is not empty has a least element: the form of induction
\* used below.
LEMMA Least ==
  ASSUME NEW T, T \subseteq Nat, T # {}
  PROVE  \E x \in T : \A y \in T : x <= y
<1> DEFINE R == {ss \in Nat \X Nat : ss[1] < ss[2]}
<1>1. \A x, y \in Nat : x < y => <<x, y>> \in R
  OBVIOUS
<1>2. IsWellFoundedOn(R, Nat)
  BY NatLessThanWellFounded DEF OpToRel
<1> HIDE DEF R
<1>3. PICK x \in T : \A y \in T : ~(<<y, x>> \in R)
  BY <1>2, WFMin
<1>4. ASSUME NEW y \in T PROVE x <= y
  <2>1. x \in Nat /\ y \in Nat /\ ~(y < x)
    BY <1>1, <1>3
  <2> QED BY <2>1
<1> QED BY <1>4

\* What holds of the root, and of a path if it holds of its parent, holds of every path.
LEMMA DownTheTree ==
  ASSUME NEW S, \A p \in Paths : p = 0 \/ Parent[p] \in S => p \in S
  PROVE  Paths \subseteq S
<1> DEFINE Bad == Paths \ S
<1>1. ASSUME Bad # {} PROVE FALSE
  <2>1. Bad \subseteq Nat
    BY TreeAssumption
  <2>2. PICK p \in Bad : \A q \in Bad : p <= q
    <3> HIDE DEF Bad
    <3> QED BY <1>1, <2>1, Least
  <2>3. p \in Paths \ {0} /\ Parent[p] \notin S
    BY <2>2
  <2>4. Parent[p] \in Bad /\ Parent[p] < p
    BY <2>3, TreeAssumption
  <2>5. p \in Nat /\ Parent[p] \in Nat
    BY <2>1, <2>2, <2>4
  <2> QED BY <2>2, <2>4, <2>5
<1> QED BY <1>1

-----------------------------------------------------------------------------
(* The tree.                                                               *)

\* What is reached from a path by going up.
Closed(C) == \A r \in C \ {0} : Parent[r] \in C
Reach(u) == {q \in Paths : \A C \in SUBSET Paths : u \in C /\ Closed(C) => q \in C}

\* A path is reached from itself, and so is what is reached from its parent.
LEMMA ReachIs ==
  ASSUME NEW u \in Paths
  PROVE  Reach(u) = {u} \cup (IF u = 0 THEN {} ELSE Reach(Parent[u]))
<1>1. u # 0 => Parent[u] \in Paths
  BY TreeAssumption
<1> DEFINE B == {u} \cup (IF u = 0 THEN {} ELSE Reach(Parent[u]))
<1>2. u \in B /\ B \in SUBSET Paths
  BY DEF Reach
<1>3. Closed(B)
  <2> SUFFICES ASSUME NEW r \in B \ {0} PROVE Parent[r] \in B
    BY DEF Closed
  <2>1. CASE r = u
    <3>1. u # 0
      BY <2>1
    <3>2. Parent[u] \in Reach(Parent[u])
      BY <3>1, <1>1 DEF Reach
    <3> QED BY <2>1, <3>1, <3>2
  <2>2. CASE r # u
    <3>1. u # 0 /\ r \in Reach(Parent[u])
      BY <2>2
    <3>2. r \in Paths \ {0} /\ Parent[r] \in Paths
      BY <3>1, TreeAssumption DEF Reach
    <3>3. ASSUME NEW C \in SUBSET Paths, Parent[u] \in C, Closed(C) PROVE Parent[r] \in C
      <4>1. r \in C
        BY <3>1, <3>3 DEF Reach
      <4> QED BY <4>1, <3>2, <3>3 DEF Closed
    <3>4. Parent[r] \in Reach(Parent[u])
      BY <3>2, <3>3 DEF Reach
    <3> QED BY <3>1, <3>4
  <2> QED BY <2>1, <2>2
<1>4. Reach(u) \subseteq B
  BY <1>2, <1>3 DEF Reach
<1>5. u \in Reach(u)
  BY DEF Reach
<1>6. ASSUME u # 0, NEW q \in Reach(Parent[u]) PROVE q \in Reach(u)
  <2>1. q \in Paths
    BY DEF Reach
  <2>2. ASSUME NEW C \in SUBSET Paths, u \in C, Closed(C) PROVE q \in C
    <3>1. Parent[u] \in C
      BY <1>6, <2>2 DEF Closed
    <3> QED BY <2>2, <3>1 DEF Reach
  <2> QED BY <2>1, <2>2 DEF Reach
<1> QED BY <1>4, <1>5, <1>6

\* Above satisfies its recursive definition: a function that does is the one that
\* reaches up from each parent.
LEMMA AboveIs ==
  \A p \in Paths : Above[p] = IF p = 0 THEN {} ELSE {Parent[p]} \cup Above[Parent[p]]
<1> DEFINE f == [p \in Paths |-> IF p = 0 THEN {} ELSE Reach(Parent[p])]
           e == [p \in Paths |-> IF p = 0 THEN {} ELSE {Parent[p]} \cup f[Parent[p]]]
<1>1. ASSUME NEW p \in Paths PROVE f[p] = e[p]
  <2>1. CASE p = 0
    BY <2>1
  <2>2. CASE p # 0
    <3>1. Parent[p] \in Paths
      BY <2>2, TreeAssumption
    <3>2. Reach(Parent[p]) = {Parent[p]} \cup f[Parent[p]]
      BY <3>1, ReachIs
    <3>3. f[p] = Reach(Parent[p])
      BY <2>2
    <3>4. e[p] = {Parent[p]} \cup f[Parent[p]]
      BY <2>2
    <3> QED BY <3>2, <3>3, <3>4
  <2> QED BY <2>1, <2>2
<1>2. f = e
  <2> HIDE DEF f
  <2>1. f = [p \in Paths |-> f[p]]
    BY DEF f
  <2>2. e = [p \in Paths |-> f[p]]
    BY <1>1
  <2> QED BY <2>1, <2>2
<1>3. \E g : g = [p \in Paths |-> IF p = 0 THEN {} ELSE {Parent[p]} \cup g[Parent[p]]]
  BY <1>2
<1> DEFINE a == CHOOSE g : g = [p \in Paths |-> IF p = 0 THEN {} ELSE {Parent[p]} \cup g[Parent[p]]]
<1>4. a = [p \in Paths |-> IF p = 0 THEN {} ELSE {Parent[p]} \cup a[Parent[p]]]
  BY <1>3
<1>5. Above = a
  BY DEF Above
<1> HIDE DEF a
<1>6. \A p \in Paths : a[p] = IF p = 0 THEN {} ELSE {Parent[p]} \cup a[Parent[p]]
  BY <1>4
<1> QED BY <1>5, <1>6

\* What a path leads through are paths, and what those lead through.
LEMMA AboveOrder ==
  ASSUME NEW p \in Paths
  PROVE  /\ Above[p] \subseteq Paths
         /\ \A q \in Above[p] : Above[q] \subseteq Above[p]
         /\ \A q \in Above[p] : \E c \in Children(q) : c = p \/ c \in Above[p]
<1> DEFINE S == {x \in Paths : /\ Above[x] \subseteq Paths
                               /\ \A q \in Above[x] : Above[q] \subseteq Above[x]
                               /\ \A q \in Above[x] : \E c \in Children(q) : c = x \/ c \in Above[x]}
<1>1. ASSUME NEW x \in Paths, x = 0 \/ Parent[x] \in S PROVE x \in S
  <2>1. CASE x = 0
    <3>1. Above[x] = {}
      BY <2>1, AboveIs
    <3> QED BY <3>1
  <2>2. CASE x # 0
    <3> DEFINE u == Parent[x]
    <3>1. u \in S /\ u \in Paths /\ x \in Children(u)
      BY <1>1, <2>2, TreeAssumption DEF Children
    <3>2. Above[x] = {u} \cup Above[u]
      BY <2>2, AboveIs
    <3> HIDE DEF u
    <3>3. /\ Above[u] \subseteq Paths
          /\ \A q \in Above[u] : Above[q] \subseteq Above[u]
          /\ \A q \in Above[u] : \E c \in Children(q) : c = u \/ c \in Above[u]
      BY <3>1
    <3> QED BY <3>1, <3>2, <3>3
  <2> QED BY <2>1, <2>2
<1> HIDE DEF S
<1>2. p \in S
  BY <1>1, DownTheTree
<1> QED BY <1>2 DEF S

-----------------------------------------------------------------------------
(* The order of names.                                                     *)

\* A finite set of paths has an enumeration in ascending order.
LEMMA AscendingExists ==
  ASSUME NEW S \in SUBSET Nat, IsFiniteSet(S)
  PROVE  \E s \in [1..Cardinality(S) -> S] :
            \A i, j \in 1..Cardinality(S) : i < j => s[i] < s[j]
<1> DEFINE Enumerated(T, n) == \E s \in [1..n -> T] : \A i, j \in 1..n : i < j => s[i] < s[j]
           Bad == {n \in Nat : \E T \in SUBSET Nat : IsFiniteSet(T) /\ Cardinality(T) = n
                                                     /\ ~Enumerated(T, n)}
<1>1. ASSUME Bad # {} PROVE FALSE
  <2>1. PICK n \in Bad : \A m \in Bad : n <= m
    <3>1. Bad \subseteq Nat
      OBVIOUS
    <3> HIDE DEF Bad
    <3> QED BY <1>1, <3>1, Least
  <2>2. PICK T \in SUBSET Nat : IsFiniteSet(T) /\ Cardinality(T) = n /\ ~Enumerated(T, n)
    BY <2>1
  <2>3. n \in Nat
    BY <2>1
  <2>4. n # 0
    <3>1. ASSUME n = 0 PROVE FALSE
      <4> DEFINE s == [i \in 1..0 |-> 0]
      <4>1. 1..0 = {}
        OBVIOUS
      <4>2. s \in [1..0 -> T] /\ \A i, j \in 1..0 : i < j => s[i] < s[j]
        BY <4>1
      <4>3. Enumerated(T, 0)
        BY <4>2
      <4> QED BY <2>2, <3>1, <4>3
    <3> QED BY <3>1
  <2>5. T # {}
    BY <2>2, <2>4, FS_EmptySet
  <2>6. PICK m \in T : \A y \in T : m <= y
    BY <2>5, Least
  <2> DEFINE V == T \ {m}
  <2>7. IsFiniteSet(V) /\ Cardinality(V) = n - 1 /\ V \in SUBSET Nat
    BY <2>2, <2>6, FS_RemoveElement
  <2>8. Enumerated(V, n - 1)
    <3>1. n - 1 \in Nat /\ ~(n <= n - 1)
      BY <2>3, <2>4
    <3>2. n - 1 \notin Bad
      <4> HIDE DEF Bad
      <4> QED BY <2>1, <3>1
    <3> HIDE DEF V, Enumerated
    <3> QED BY <2>7, <3>1, <3>2
  <2>9. PICK s \in [1..n-1 -> V] : \A i, j \in 1..n-1 : i < j => s[i] < s[j]
    BY <2>8
  <2> DEFINE t == [i \in 1..n |-> IF i = 1 THEN m ELSE s[i - 1]]
  <2>10. ASSUME NEW i \in 1..n, i # 1
         PROVE  i - 1 \in 1..n-1 /\ s[i - 1] \in V /\ t[i] = s[i - 1]
    <3>1. i - 1 \in 1..n-1
      BY <2>3, <2>10
    <3> QED BY <2>9, <2>10, <3>1
  <2>11. t[1] = m
    BY <2>3, <2>4
  <2>12. t \in [1..n -> T]
    <3> SUFFICES ASSUME NEW i \in 1..n PROVE (IF i = 1 THEN m ELSE s[i - 1]) \in T
      OBVIOUS
    <3>1. i # 1 => s[i - 1] \in T
      BY <2>10
    <3> QED BY <2>6, <3>1
  <2> HIDE DEF t
  <2>13. ASSUME NEW i \in 1..n, NEW j \in 1..n, i < j PROVE t[i] < t[j]
    <3>1. j # 1 /\ j - 1 \in 1..n-1 /\ t[j] = s[j - 1] /\ s[j - 1] \in V
      BY <2>3, <2>10, <2>13
    <3>2. CASE i = 1
      <4>1. m \in Nat /\ t[j] \in Nat /\ m <= t[j] /\ m # t[j]
        BY <2>2, <2>6, <3>1
      <4> QED BY <2>11, <3>2, <4>1
    <3>3. CASE i # 1
      <4>1. i - 1 \in 1..n-1 /\ t[i] = s[i - 1] /\ i - 1 < j - 1
        BY <2>3, <2>10, <2>13, <3>3
      <4> QED BY <2>9, <3>1, <4>1
    <3> QED BY <3>2, <3>3
  <2>14. Enumerated(T, n)
    BY <2>12, <2>13
  <2> QED BY <2>2, <2>14
<1>2. Cardinality(S) \in Nat
  BY FS_CardinalityType
<1>3. Cardinality(S) \notin Bad
  <2> HIDE DEF Bad
  <2> QED BY <1>1
<1>4. Enumerated(S, Cardinality(S))
  <2> HIDE DEF Enumerated
  <2> QED BY <1>2, <1>3
<1> QED BY <1>4

\* ByName is a sequence of the elements of its set, and of all of them.
LEMMA ByNameIs ==
  ASSUME NEW S \in SUBSET Nat, IsFiniteSet(S)
  PROVE  /\ ByName(S) \in Seq(S)
         /\ \A q \in S : \E i \in DOMAIN ByName(S) : ByName(S)[i] = q
<1> DEFINE n == Cardinality(S)
<1>1. n \in Nat
  BY FS_CardinalityType
<1>2. PICK e \in [1..n -> S] : \A i, j \in 1..n : i < j => e[i] < e[j]
  BY AscendingExists
<1>3. ASSUME NEW i \in 1..n, NEW j \in 1..n, i # j PROVE e[i] # e[j]
  <2>1. i < j \/ j < i
    BY <1>1, <1>3
  <2>2. e[i] \in Nat /\ e[j] \in Nat /\ (e[i] < e[j] \/ e[j] < e[i])
    BY <1>2, <2>1
  <2> QED BY <2>2
<1>4. e \in SetToSeqs(S) /\ DOMAIN e = 1..n
  BY <1>3 DEF SetToSeqs
<1>5. \E s \in SetToSeqs(S) : \A i, j \in DOMAIN s : i < j => s[i] < s[j]
  BY <1>2, <1>4
<1>6. ByName(S) \in SetToSeqs(S)
  BY <1>5 DEF ByName
<1>7. PICK b : b = ByName(S)
  OBVIOUS
<1>8. b \in [1..n -> S] /\ \A i, j \in 1..n : i # j => b[i] # b[j]
  BY <1>6, <1>7 DEF SetToSeqs
<1>9. b \in Injection(1..n, S)
  BY <1>8 DEF Injection, IsInjective
<1>10. IsFiniteSet(1..n) /\ Cardinality(1..n) = n
  BY <1>1, FS_Interval
<1>11. b \in Surjection(1..n, S)
  BY <1>9, <1>10, FS_Injection
<1>12. \A q \in S : \E i \in 1..n : b[i] = q
  BY <1>11 DEF Surjection
<1>13. b \in Seq(S) /\ DOMAIN b = 1..n
  BY <1>1, <1>8
<1> QED BY <1>7, <1>12, <1>13

-----------------------------------------------------------------------------
(* The inductive invariant.                                                *)

FileSteps == {"resolve_file", "open", "verify_file"}
ListSteps == {"listing", "verify_directory"}
DirectorySteps == ListSteps \cup {"resolve_directory"}

\* Where each tool can be; read_file and list_directory stay at their target.
CallSound ==
    /\ op = "none" <=> pc = "idle"
    /\ op = "read" => at = target /\ pc \in FileSteps \cup {"done"}
    /\ op = "list" => at = target /\ pc \in DirectorySteps \cup {"done"}

\* A failure ends the call.
FailureEnds == failed => pc = "done"

\* What is left of each limit when it is about to be drawn on.
LimitsLeft ==
    /\ pc # "done" => matches < MaxResults
    /\ pc \in FileSteps /\ op = "search" => scanned < MaxFiles
    /\ pc \in DirectorySteps /\ op = "search" => entries < MaxEntries
    /\ IsFiniteSet(DOMAIN captured)
    /\ pc \in ListSteps => Cardinality(DOMAIN captured) <= Limit

\* The guard knows the object it works on, if nobody touched it.
ExpectsWhatIs ==
    pc \in {"open", "verify_file"} \cup ListSteps /\ Stable(at) => expected = Identity(at)

\* The entries captured so far are true of what nobody touched, and a snapshot that
\* was not cut short misses nothing of it.
SnapshotSound ==
    /\ moved \subseteq touched
    /\ pc \in ListSteps =>
          \A p \in DOMAIN captured :
              p \in Children(at) /\ (p \notin touched => captured[p] = Class(node[p].kind))
    /\ pc = "verify_directory" /\ ~cut =>
          \A p \in Children(at) \ touched :
              node[p].kind # "none" => p \in DOMAIN captured

\* What a search will still come to.
Pending(p) ==
    \/ \E i \in DOMAIN files : files[i] = p
    \/ \E i \in DOMAIN dirs : dirs[i] \in Above[p]
    \/ pc \in FileSteps /\ at = p
    \/ pc \in DirectorySteps /\ at \in Above[p]

NothingLost ==
    op = "search" /\ pc # "done" => \A p \in Owed : p \in reported \/ Pending(p)

-----------------------------------------------------------------------------
(* Steps.                                                                  *)

\* Facts about the constants that the steps keep needing.
LEMMA Limits ==
  /\ MaxListed \in Nat \ {0} /\ MaxEntries \in Nat \ {0} /\ MaxFiles \in Nat \ {0}
  /\ MaxTotal \in Nat \ {0} /\ MaxResults \in Nat \ {0}
  /\ 0 \in Paths /\ Paths \subseteq Nat
  /\ \A p \in Paths \ {0} : Parent[p] \in Paths
  /\ \A p \in Paths : May[p] \subseteq Kinds
  /\ Changing \subseteq Paths
  BY LimitsAssumption, TreeAssumption

\* A finite set of paths is enumerated by paths.
LEMMA ByNamePaths ==
  ASSUME NEW S, S \subseteq Paths, IsFiniteSet(S)
  PROVE  /\ ByName(S) \in Seq(Paths)
         /\ \A q \in S : \E i \in DOMAIN ByName(S) : ByName(S)[i] = q
<1>1. S \in SUBSET Nat
  BY Limits
<1>2. ByName(S) \in Seq(S) /\ \A q \in S : \E i \in DOMAIN ByName(S) : ByName(S)[i] = q
  BY <1>1, ByNameIs
<1> QED BY <1>2

\* The eligible entries are finitely many paths.
LEMMA EligibleIs ==
  ASSUME TypeOK, LimitsLeft, NEW class
  PROVE  Eligible(class) \subseteq Paths /\ IsFiniteSet(Eligible(class))
<1>1. Eligible(class) \in SUBSET DOMAIN captured /\ IsFiniteSet(DOMAIN captured)
  BY DEF Eligible, LimitsLeft
<1> QED BY <1>1, FS_Subset DEF TypeOK

\* The next entry of a listing.
LEMMA EntryAdded ==
  ASSUME TypeOK, LimitsLeft, ListEntry
  PROVE  /\ pc = "listing" /\ pc' = pc /\ UNCHANGED <<node, op, target, at, expected, touched>>
         /\ UNCHANGED <<cut, moved, searchVars, answerVars>>
         /\ IsFiniteSet(DOMAIN captured') /\ Cardinality(DOMAIN captured') <= Limit
         /\ \E q \in Yields : /\ q \in Children(at) /\ q \in Paths \ {0}
                              /\ DOMAIN captured' = DOMAIN captured \cup {q}
                              /\ captured'[q] = Class(node[q].kind)
                              /\ \A x \in DOMAIN captured : captured'[x] = captured[x]
<1>1. /\ pc = "listing" /\ pc' = pc /\ UNCHANGED <<node, op, target, at, expected, touched>>
      /\ UNCHANGED <<cut, moved, searchVars, answerVars>>
  BY DEF ListEntry, Listing
<1>2. PICK q \in Yields : captured' = [x \in DOMAIN captured \cup {q} |->
                                         IF x = q THEN Class(node[q].kind) ELSE captured[x]]
  BY DEF ListEntry
<1>3. q \in Children(at) /\ q \notin DOMAIN captured /\ q \in Paths \ {0}
  BY <1>2 DEF Yields, Children
<1>4. IsFiniteSet(DOMAIN captured) /\ Cardinality(DOMAIN captured) \in Nat
  BY FS_CardinalityType DEF LimitsLeft
<1>5. DOMAIN captured' = DOMAIN captured \cup {q}
  BY <1>2
<1>6. IsFiniteSet(DOMAIN captured') /\ Cardinality(DOMAIN captured') = Cardinality(DOMAIN captured) + 1
  BY <1>3, <1>4, <1>5, FS_AddElement
<1>7. Limit \in Int /\ Cardinality(DOMAIN captured) < Limit
  BY Limits DEF ListEntry, Limit, TypeOK
<1>8. Cardinality(DOMAIN captured') <= Limit
  BY <1>4, <1>6, <1>7
<1>9. captured'[q] = Class(node[q].kind) /\ \A x \in DOMAIN captured : captured'[x] = captured[x]
  BY <1>2, <1>3
<1> QED BY <1>1, <1>2, <1>3, <1>5, <1>6, <1>8, <1>9

\* What a verified snapshot of a search adds to its queues.
LEMMA Enqueued ==
  ASSUME TypeOK, LimitsLeft, Enqueue, pc = "verify_directory", op = "search"
  PROVE  /\ entries' \in 0..MaxEntries /\ files' \in Seq(Paths) /\ dirs' \in Seq(Paths)
         /\ \A i \in DOMAIN files : \E k \in DOMAIN files' : files'[k] = files[i]
         /\ \A i \in DOMAIN dirs : \E k \in DOMAIN dirs' : dirs'[k] = dirs[i]
         /\ \A q \in Eligible("file") : \E k \in DOMAIN files' : files'[k] = q
         /\ \A q \in Eligible("dir") : \E k \in DOMAIN dirs' : dirs'[k] = q
         /\ UNCHANGED <<scanned, bytes, matches>>
<1>1. PICK a : a = ByName(Eligible("file"))
  OBVIOUS
<1>2. PICK b : b = ByName(Eligible("dir"))
  OBVIOUS
<1>3. /\ a \in Seq(Paths) /\ b \in Seq(Paths) /\ files \in Seq(Paths) /\ dirs \in Seq(Paths)
      /\ \A q \in Eligible("file") : \E i \in DOMAIN a : a[i] = q
      /\ \A q \in Eligible("dir") : \E i \in DOMAIN b : b[i] = q
  BY <1>1, <1>2, EligibleIs, ByNamePaths DEF TypeOK
<1>4. files' = files \o a /\ dirs' = dirs \o b
  BY <1>1, <1>2 DEF Enqueue
<1>5. /\ files' \in Seq(Paths) /\ dirs' \in Seq(Paths)
      /\ DOMAIN files' = 1..(Len(files) + Len(a)) /\ DOMAIN dirs' = 1..(Len(dirs) + Len(b))
  BY <1>3, <1>4
<1>6. /\ \A i \in DOMAIN files : i \in DOMAIN files' /\ files'[i] = files[i]
      /\ \A i \in DOMAIN dirs : i \in DOMAIN dirs' /\ dirs'[i] = dirs[i]
  BY <1>3, <1>4
<1>7. /\ \A i \in DOMAIN a : Len(files) + i \in DOMAIN files' /\ files'[Len(files) + i] = a[i]
      /\ \A i \in DOMAIN b : Len(dirs) + i \in DOMAIN dirs' /\ dirs'[Len(dirs) + i] = b[i]
  BY <1>3, <1>4
<1>8. /\ \A q \in Eligible("file") : \E k \in DOMAIN files' : files'[k] = q
      /\ \A q \in Eligible("dir") : \E k \in DOMAIN dirs' : dirs'[k] = q
  BY <1>3, <1>7
<1>9. entries' \in 0..MaxEntries
  <2>1. Cardinality(DOMAIN captured) \in Nat /\ Cardinality(DOMAIN captured) <= MaxEntries - entries
    BY FS_CardinalityType DEF LimitsLeft, Limit, ListSteps
  <2>2. entries \in Nat /\ MaxEntries \in Nat /\ entries' = entries + Cardinality(DOMAIN captured)
    BY Limits DEF TypeOK, Enqueue
  <2> QED BY <2>1, <2>2
<1> QED BY <1>5, <1>6, <1>8, <1>9 DEF Enqueue

\* A step keeps every variable in its type: a limit is tested before it is drawn on.
LEMMA TypeStep ==
  ASSUME TypeOK, LimitsLeft, [Next]_vars
  PROVE  TypeOK'
<1> USE Limits
<1>1. CASE UNCHANGED vars
  BY <1>1 DEF TypeOK, vars, guardVars, searchVars, answerVars
<1>2. ASSUME NEW p \in Paths, NEW o \in {"read", "list"}, Start(o, p) PROVE TypeOK'
  BY <1>2 DEF TypeOK, PcStates, Start, searchVars, answerVars
<1>3. ASSUME NEW p \in Paths, StartSearch(p) PROVE TypeOK'
  <2>1. files' \in Seq(Paths) /\ dirs' \in Seq(Paths)
    BY <1>3 DEF StartSearch
  <2> QED BY <1>3, <2>1 DEF TypeOK, PcStates, StartSearch, GoOn, Fail, guardVars, answerVars
<1>4. CASE SearchEnds
  BY <1>4 DEF TypeOK, PcStates, SearchEnds, Choosing, Finish, guardVars, searchVars
<1>5. CASE FilesExhausted
  BY <1>5 DEF TypeOK, PcStates, FilesExhausted, Choosing, Finish, guardVars, searchVars
<1>6. CASE NextFile
  <2>1. files # <<>> /\ files \in Seq(Paths)
    BY <1>6 DEF NextFile, TypeOK
  <2>2. Head(files) \in Paths /\ Tail(files) \in Seq(Paths)
    BY <2>1
  <2> QED BY <1>6, <2>2 DEF TypeOK, PcStates, NextFile, Choosing, answerVars
<1>7. CASE NextDirectory
  <2>1. dirs # <<>> /\ dirs \in Seq(Paths)
    BY <1>7 DEF NextDirectory, TypeOK
  <2>2. Head(dirs) \in Paths /\ Tail(dirs) \in Seq(Paths)
    BY <2>1
  <2> QED BY <1>7, <2>2 DEF TypeOK, PcStates, NextDirectory, Choosing, Finish, answerVars
<1>8. CASE ResolveFile
  <2>1. Resolves(at, "file") => Identity(at) \in {"none", "file", "dir"} \X (Identities \cup {0})
    BY DEF TypeOK, Identity, Resolves, Class
  <2> QED BY <1>8, <2>1 DEF TypeOK, PcStates, ResolveFile, Refuse, GoOn, Fail, searchVars, answerVars
<1>9. CASE Open
  BY <1>9 DEF TypeOK, PcStates, Open, Refuse, GoOn, Fail, guardVars, searchVars, answerVars
<1>10. CASE VerifyFile
  <2>1. CASE Refuse
    BY <1>10, <2>1 DEF TypeOK, PcStates, VerifyFile, Refuse, GoOn, Fail, guardVars, searchVars, answerVars
  <2>2. CASE op = "search" /\ Scan(node[at].kind)
    <3>1. /\ Size(node[at].kind) \in {1, 2} /\ Hits(node[at].kind) \in {0, 1}
          /\ bytes \in 0..MaxTotal /\ matches \in Nat /\ scanned \in 0..MaxFiles
          /\ matches < MaxResults /\ scanned < MaxFiles
      BY <1>10, <2>2 DEF TypeOK, Size, Hits, LimitsLeft, VerifyFile, FileSteps
    <3>2. \/ UNCHANGED <<scanned, bytes, matches>>
          \/ /\ bytes + Size(node[at].kind) <= MaxTotal
             /\ scanned' = scanned + 1 /\ bytes' = bytes + Size(node[at].kind)
             /\ matches' = matches + Hits(node[at].kind)
      BY <2>2 DEF Scan, WithinTotal
    <3>3. /\ scanned' \in 0..MaxFiles /\ bytes' \in 0..MaxTotal /\ matches' \in 0..MaxResults
      BY <3>1, <3>2
    <3>4. /\ pc' \in PcStates /\ reported' \subseteq Paths /\ truncated' \in BOOLEAN /\ failed' = failed
          /\ UNCHANGED <<dirs, files, entries>>
      BY <2>2 DEF TypeOK, Scan, GoOn, Finish, PcStates, answerVars
    <3> QED BY <1>10, <3>3, <3>4 DEF TypeOK, VerifyFile, guardVars
  <2>3. CASE (Fail \/ Finish({at}, FALSE)) /\ UNCHANGED searchVars
    BY <1>10, <2>3 DEF TypeOK, PcStates, VerifyFile, Finish, Fail, guardVars, searchVars
  <2> QED BY <1>10, <2>1, <2>2, <2>3 DEF VerifyFile
<1>11. CASE ResolveDirectory
  <2>1. Resolves(at, "dir") => Identity(at) \in {"none", "file", "dir"} \X (Identities \cup {0})
    BY DEF TypeOK, Identity, Resolves, Class
  <2>2. captured' = <<>> /\ DOMAIN captured' = {}
    BY <1>11 DEF ResolveDirectory
  <2> QED BY <1>11, <2>1, <2>2
          DEF TypeOK, PcStates, ResolveDirectory, Refuse, GoOn, Fail, searchVars, answerVars
<1>12. CASE ListEntry
  <2>1. \A k : Class(k) \in {"file", "dir", "restricted"}
    BY DEF Class
  <2>2. PICK q \in Paths : /\ DOMAIN captured' = DOMAIN captured \cup {q}
                             /\ captured'[q] = Class(node[q].kind)
                             /\ \A x \in DOMAIN captured : captured'[x] = captured[x]
    BY <1>12, EntryAdded
  <2>3. /\ DOMAIN captured' \subseteq Paths
        /\ \A x \in DOMAIN captured' : captured'[x] \in {"file", "dir", "restricted"}
    BY <2>1, <2>2 DEF TypeOK
  <2>4. /\ UNCHANGED <<node, op, target, at, expected, touched>>
        /\ UNCHANGED <<pc, cut, moved, searchVars, answerVars>>
    BY <1>12, EntryAdded
  <2> QED BY <2>3, <2>4 DEF TypeOK, searchVars, answerVars
<1>13. CASE ListFull
  BY <1>13 DEF TypeOK, PcStates, ListFull, Listing, searchVars, answerVars
<1>14. CASE ListEnd
  BY <1>14 DEF TypeOK, PcStates, ListEnd, Listing, searchVars, answerVars
<1>15. CASE ListRefused
  <2>1. captured' = <<>> /\ DOMAIN captured' = {}
    BY <1>15 DEF ListRefused
  <2> QED BY <1>15, <2>1 DEF TypeOK, PcStates, ListRefused, Refuse, GoOn, Fail, searchVars, answerVars
<1>16. CASE VerifyDirectory
  <2>1. captured' = <<>> /\ DOMAIN captured' = {}
    BY <1>16 DEF VerifyDirectory
  <2>2. Eligible("file") \subseteq Paths /\ Eligible("dir") \subseteq Paths
    BY EligibleIs
  <2>3. CASE Refuse
    BY <1>16, <2>1, <2>3
       DEF TypeOK, PcStates, VerifyDirectory, Refuse, GoOn, Fail, searchVars, answerVars
  <2>4. CASE op = "search" /\ Enqueue /\ (Finish(reported, TRUE) \/ GoOn)
    <3>1. /\ entries' \in 0..MaxEntries /\ files' \in Seq(Paths) /\ dirs' \in Seq(Paths)
          /\ UNCHANGED <<scanned, bytes, matches>>
      BY <1>16, <2>4, Enqueued DEF VerifyDirectory
    <3> QED BY <1>16, <2>1, <2>4, <3>1
            DEF TypeOK, PcStates, VerifyDirectory, Finish, GoOn, answerVars
  <2>5. CASE Finish(Eligible("file") \cup Eligible("dir"), CutShort) /\ UNCHANGED searchVars
    BY <1>16, <2>1, <2>2, <2>5 DEF TypeOK, PcStates, VerifyDirectory, Finish, CutShort, searchVars
  <2> QED BY <1>16, <2>3, <2>4, <2>5 DEF VerifyDirectory
<1>17. ASSUME NEW p \in Changing, Change(p) PROVE TypeOK'
  <2>1. PICK k \in May[p], i \in Identities : node' = [node EXCEPT ![p] = [kind |-> k, id |-> i]]
    BY <1>17 DEF Change
  <2>2. node' \in [Paths -> [kind: Kinds, id: Identities]]
    BY <2>1 DEF TypeOK
  <2>3. touched' \subseteq Paths /\ moved' \subseteq Paths
    BY <1>17 DEF Change, TypeOK
  <2> QED BY <1>17, <2>2, <2>3 DEF TypeOK, Change, searchVars, answerVars
<1> QED BY <1>1, <1>2, <1>3, <1>4, <1>5, <1>6, <1>7, <1>8, <1>9, <1>10, <1>11, <1>12, <1>13,
           <1>14, <1>15, <1>16, <1>17 DEF Next, Step

\* A tool does the file operations that are its own.
LEMMA CallSoundStep ==
  ASSUME CallSound, [Next]_vars
  PROVE  CallSound'
<1> USE DEF CallSound, FileSteps, DirectorySteps, ListSteps
<1>1. CASE UNCHANGED vars
  BY <1>1 DEF vars, guardVars
<1>2. ASSUME NEW p \in Paths, NEW o \in {"read", "list"}, Start(o, p) PROVE CallSound'
  BY <1>2 DEF Start
<1>3. ASSUME NEW p \in Paths, StartSearch(p) PROVE CallSound'
  BY <1>3 DEF StartSearch, GoOn, Fail
<1>4. CASE SearchEnds \/ FilesExhausted \/ NextFile \/ NextDirectory
  BY <1>4 DEF SearchEnds, FilesExhausted, NextFile, NextDirectory, Choosing, Finish, guardVars
<1>5. CASE ResolveFile \/ Open
  BY <1>5 DEF ResolveFile, Open, Refuse, GoOn, Fail, guardVars
<1>6. CASE VerifyFile
  <2>1. pc' \in {"choosing", "done"} /\ (op # "search" => pc' = "done")
    BY <1>6 DEF VerifyFile, Refuse, Scan, GoOn, Fail, Finish
  <2>2. pc = "verify_file" /\ op' = op
    BY <1>6 DEF VerifyFile
  <2>3. at' = at /\ target' = target
    BY <1>6 DEF VerifyFile, guardVars
  <2> QED BY <2>1, <2>2, <2>3
<1>7. CASE ResolveDirectory \/ ListRefused
  BY <1>7 DEF ResolveDirectory, ListRefused, Refuse, GoOn, Fail
<1>8. CASE ListEntry \/ ListFull \/ ListEnd
  BY <1>8 DEF ListEntry, ListFull, ListEnd, Listing
<1>9. CASE VerifyDirectory
  <2>1. pc' \in {"choosing", "done"} /\ (op # "search" => pc' = "done")
    BY <1>9 DEF VerifyDirectory, Refuse, GoOn, Fail, Finish
  <2>2. pc = "verify_directory" /\ op' = op /\ at' = at /\ target' = target
    BY <1>9 DEF VerifyDirectory
  <2> QED BY <2>1, <2>2
<1>10. ASSUME NEW p \in Changing, Change(p) PROVE CallSound'
  BY <1>10 DEF Change
<1> QED BY <1>1, <1>2, <1>3, <1>4, <1>5, <1>6, <1>7, <1>8, <1>9, <1>10 DEF Next, Step

\* A search draws on a limit only when something is left of it.
LEMMA LimitsLeftStep ==
  ASSUME TypeOK, CallSound, LimitsLeft, [Next]_vars
  PROVE  LimitsLeft'
<1> USE DEF FileSteps, DirectorySteps, ListSteps
<1>1. CASE UNCHANGED vars
  BY <1>1 DEF LimitsLeft, Limit, vars, guardVars, searchVars
<1>2. ASSUME NEW p \in Paths, NEW o \in {"read", "list"}, Start(o, p) PROVE LimitsLeft'
  BY <1>2 DEF LimitsLeft, Start, searchVars
<1>3. ASSUME NEW p \in Paths, StartSearch(p) PROVE LimitsLeft'
  BY <1>3 DEF LimitsLeft, StartSearch, GoOn, Fail, guardVars
<1>4. CASE SearchEnds \/ FilesExhausted
  BY <1>4 DEF LimitsLeft, SearchEnds, FilesExhausted, Choosing, Finish, guardVars, searchVars
<1>5. CASE NextFile \/ NextDirectory
  <2>1. entries \in Nat /\ MaxEntries \in Nat
    BY Limits DEF TypeOK
  <2> QED BY <1>5, <2>1 DEF LimitsLeft, NextFile, NextDirectory, Choosing, Finish, answerVars
<1>6. CASE ResolveFile \/ Open
  BY <1>6 DEF LimitsLeft, ResolveFile, Open, Refuse, GoOn, Fail, guardVars, searchVars
<1>7. CASE VerifyFile
  <2>1. pc = "verify_file" /\ pc' \in {"choosing", "done"} /\ captured' = captured
    BY <1>7 DEF VerifyFile, Refuse, Scan, GoOn, Fail, Finish, guardVars
  <2>2. pc' # "done" => matches' < MaxResults
    <3>1. pc' # "done" =>
             \/ matches' = matches
             \/ /\ matches' = matches + Hits(node[at].kind)
                /\ ~(Hits(node[at].kind) > 0 /\ matches' >= MaxResults)
      BY <1>7 DEF VerifyFile, Refuse, Scan, GoOn, Fail, Finish, searchVars
    <3>2. Hits(node[at].kind) \in {0, 1} /\ matches \in Nat /\ MaxResults \in Nat /\ matches < MaxResults
      BY <2>1, Limits DEF Hits, TypeOK, LimitsLeft
    <3> QED BY <3>1, <3>2
  <2> QED BY <2>1, <2>2 DEF LimitsLeft
<1>8. CASE ResolveDirectory
  <2>1. DOMAIN captured' = {} /\ IsFiniteSet(DOMAIN captured') /\ Cardinality(DOMAIN captured') = 0
    <3>1. captured' = <<>>
      BY <1>8 DEF ResolveDirectory
    <3>2. DOMAIN captured' = {}
      BY <3>1
    <3> QED BY <3>2, FS_EmptySet
  <2>2. op' = op /\ UNCHANGED <<scanned, entries, matches>> /\ pc' \in {"done", "listing", "choosing"}
        /\ pc = "resolve_directory"
    BY <1>8 DEF ResolveDirectory, Refuse, GoOn, Fail, searchVars
  <2>3. 0 <= Limit'
    BY <2>2, Limits DEF Limit, TypeOK
  <2> QED BY <2>1, <2>2, <2>3 DEF LimitsLeft
<1>9. CASE ListEntry
  <2>1. /\ UNCHANGED <<pc, op, scanned, entries, matches>>
        /\ IsFiniteSet(DOMAIN captured') /\ Cardinality(DOMAIN captured') <= Limit
    BY <1>9, EntryAdded DEF searchVars
  <2>2. Limit' = Limit
    BY <2>1 DEF Limit
  <2> QED BY <2>1, <2>2 DEF LimitsLeft
<1>10. CASE ListFull \/ ListEnd
  BY <1>10 DEF LimitsLeft, Limit, ListFull, ListEnd, Listing, searchVars
<1>11. CASE ListRefused \/ VerifyDirectory
  <2>1. DOMAIN captured' = {}
    <3>1. captured' = <<>>
      BY <1>11 DEF ListRefused, VerifyDirectory
    <3> QED BY <3>1
  <2>2. matches' = matches /\ pc' \in {"choosing", "done"} /\ pc \in ListSteps
    BY <1>11 DEF ListRefused, VerifyDirectory, Refuse, Enqueue, GoOn, Fail, Finish, searchVars
  <2> QED BY <2>1, <2>2, FS_EmptySet DEF LimitsLeft
<1>12. ASSUME NEW p \in Changing, Change(p) PROVE LimitsLeft'
  BY <1>12 DEF LimitsLeft, Limit, Change, searchVars
<1> QED BY <1>1, <1>2, <1>3, <1>4, <1>5, <1>6, <1>7, <1>8, <1>9, <1>10, <1>11, <1>12 DEF Next, Step

\* Only other processes change the tree.
LEMMA TreeStands ==
  ASSUME [Next]_vars, \A c \in Changing : ~Change(c)
  PROVE  node' = node /\ touched' = touched
<1>1. CASE UNCHANGED vars
  BY <1>1 DEF vars
<1>2. ASSUME NEW p \in Paths, NEW o \in {"read", "list"}, Start(o, p)
      PROVE  node' = node /\ touched' = touched
  BY <1>2 DEF Start
<1>3. ASSUME NEW p \in Paths, StartSearch(p) PROVE node' = node /\ touched' = touched
  BY <1>3 DEF StartSearch
<1>4. CASE SearchEnds \/ FilesExhausted \/ NextFile \/ NextDirectory
  BY <1>4 DEF SearchEnds, FilesExhausted, NextFile, NextDirectory, Choosing
<1>5. CASE ResolveFile \/ Open \/ VerifyFile
  BY <1>5 DEF ResolveFile, Open, VerifyFile
<1>6. CASE ResolveDirectory \/ ListRefused \/ VerifyDirectory
  BY <1>6 DEF ResolveDirectory, ListRefused, VerifyDirectory
<1>7. CASE ListEntry \/ ListFull \/ ListEnd
  BY <1>7 DEF ListEntry, ListFull, ListEnd, Listing
<1> QED BY <1>1, <1>2, <1>3, <1>4, <1>5, <1>6, <1>7 DEF Next, Step

\* What is untouched after a change was untouched before and is as it was.
LEMMA Untouched ==
  ASSUME TypeOK, NEW c \in Changing, Change(c), NEW p \in Paths
  PROVE  /\ p \notin touched' => p \notin touched /\ node'[p] = node[p]
         /\ Stable(p)' => /\ Stable(p)
                          /\ \A q \in Above[p] \cup {p} : q \notin touched' /\ node'[q] = node[q]
         /\ Stable(p)' => Identity(p)' = Identity(p)
         /\ Stable(p)' => \A x : Resolves(p, x)' <=> Resolves(p, x)
<1>1. touched' = touched \cup {c} /\ node \in [Paths -> [kind: Kinds, id: Identities]]
  BY DEF Change, TypeOK
<1>2. ASSUME NEW q \in Paths, q # c PROVE node'[q] = node[q]
  BY <1>1, <1>2 DEF Change
<1>3. Above[p] \subseteq Paths
  BY AboveOrder
<1>4. Stable(p)' => /\ Stable(p)
                    /\ \A q \in Above[p] \cup {p} : q \notin touched' /\ node'[q] = node[q]
  BY <1>1, <1>2, <1>3 DEF Stable
<1>5. Stable(p)' => Identity(p)' = Identity(p)
  BY <1>4 DEF Identity
<1>6. Stable(p)' => \A x : Resolves(p, x)' <=> Resolves(p, x)
  BY <1>4 DEF Resolves
<1> QED BY <1>1, <1>2, <1>4, <1>5, <1>6

\* What the guard expects is what is there, unless somebody touched it.
LEMMA ExpectsStep ==
  ASSUME TypeOK, ExpectsWhatIs, [Next]_vars
  PROVE  ExpectsWhatIs'
<1> SUFFICES ASSUME pc' \in {"open", "verify_file"} \cup ListSteps, Stable(at)'
             PROVE  (expected = Identity(at))'
  BY DEF ExpectsWhatIs
<1> USE DEF ListSteps
<1>1. CASE \E c \in Changing : Change(c)
  <2>1. PICK c \in Changing : Change(c)
    BY <1>1
  <2>2. UNCHANGED <<pc, at, expected>> /\ at \in Paths
    BY <2>1 DEF Change, TypeOK
  <2>3. (\A x : x = at => Stable(x)')
    BY <2>2
  <2>4. Stable(at) /\ \A x : x = at => Identity(x)' = Identity(x)
    BY <2>1, <2>2, <2>3, Untouched
  <2>5. expected = Identity(at)
    BY <2>2, <2>4 DEF ExpectsWhatIs
  <2> QED BY <2>2, <2>4, <2>5
<1>2. CASE \A c \in Changing : ~Change(c)
  <2>1. node' = node /\ touched' = touched
    BY <1>2, TreeStands
  <2>2. \/ /\ expected' = Identity(at) /\ at' = at
        \/ /\ UNCHANGED <<at, expected>> /\ pc \in {"open", "verify_file"} \cup ListSteps
    <3>1. CASE UNCHANGED vars
      BY <3>1 DEF vars, guardVars
    <3>2. ASSUME NEW p \in Paths, NEW o \in {"read", "list"}, Start(o, p) PROVE FALSE
      BY <3>2 DEF Start
    <3>3. ASSUME NEW p \in Paths, StartSearch(p) PROVE FALSE
      BY <3>3 DEF StartSearch, GoOn, Fail
    <3>4. ~(SearchEnds \/ FilesExhausted \/ NextFile \/ NextDirectory)
      BY DEF SearchEnds, FilesExhausted, NextFile, NextDirectory, Choosing, Finish, answerVars
    <3>5. CASE ResolveFile \/ ResolveDirectory
      BY <3>5 DEF ResolveFile, ResolveDirectory, Refuse, GoOn, Fail
    <3>6. CASE Open
      BY <3>6 DEF Open, guardVars
    <3>7. ~(VerifyFile \/ VerifyDirectory \/ ListRefused)
      BY DEF VerifyFile, VerifyDirectory, ListRefused, Refuse, Scan, GoOn, Fail, Finish
    <3>8. CASE ListEntry \/ ListFull \/ ListEnd
      BY <3>8 DEF ListEntry, ListFull, ListEnd, Listing
    <3> QED BY <1>2, <3>1, <3>2, <3>3, <3>4, <3>5, <3>6, <3>7, <3>8 DEF Next, Step
  <2>3. \A x : Identity(x)' = Identity(x) /\ Stable(x)' = Stable(x)
    BY <2>1 DEF Identity, Stable
  <2>4. CASE expected' = Identity(at) /\ at' = at
    BY <2>1, <2>4 DEF Identity
  <2>5. CASE UNCHANGED <<at, expected>> /\ pc \in {"open", "verify_file"} \cup ListSteps
    BY <2>1, <2>5 DEF ExpectsWhatIs, Identity, Stable
  <2> QED BY <2>2, <2>4, <2>5
<1> QED BY <1>1, <1>2

\* A listing that ends has met every entry that was there throughout.
LEMMA SnapshotStep ==
  ASSUME TypeOK, LimitsLeft, SnapshotSound, [Next]_vars
  PROVE  SnapshotSound'
<1> USE DEF ListSteps
<1>1. CASE UNCHANGED vars
  BY <1>1 DEF SnapshotSound, vars, guardVars
<1>2. ASSUME NEW p \in Paths, NEW o \in {"read", "list"}, Start(o, p) PROVE SnapshotSound'
  BY <1>2 DEF SnapshotSound, Start
<1>3. ASSUME NEW p \in Paths, StartSearch(p) PROVE SnapshotSound'
  BY <1>3 DEF SnapshotSound, StartSearch, GoOn, Fail, guardVars
<1>4. CASE SearchEnds \/ FilesExhausted \/ NextFile \/ NextDirectory
  BY <1>4 DEF SnapshotSound, SearchEnds, FilesExhausted, NextFile, NextDirectory, Choosing,
              Finish, guardVars, answerVars
<1>5. CASE ResolveFile \/ Open
  BY <1>5 DEF SnapshotSound, ResolveFile, Open, Refuse, GoOn, Fail, guardVars
<1>6. CASE VerifyFile
  <2>1. pc' \in {"choosing", "done"} /\ moved' = moved /\ touched' = touched
    BY <1>6 DEF VerifyFile, Refuse, Scan, GoOn, Fail, Finish, guardVars
  <2> QED BY <2>1 DEF SnapshotSound
<1>7. CASE ResolveDirectory
  <2>1. captured' = <<>> /\ moved' = {} /\ pc' # "verify_directory"
    BY <1>7 DEF ResolveDirectory, Refuse, GoOn, Fail
  <2>2. DOMAIN captured' = {}
    BY <2>1
  <2> QED BY <2>1, <2>2 DEF SnapshotSound
<1>8. CASE ListEntry
  <2>1. /\ UNCHANGED <<node, at, touched, moved>> /\ pc = "listing" /\ pc' = pc
        /\ \E q \in Children(at) : /\ DOMAIN captured' = DOMAIN captured \cup {q}
                                   /\ captured'[q] = Class(node[q].kind)
                                   /\ \A x \in DOMAIN captured : captured'[x] = captured[x]
    BY <1>8, EntryAdded
  <2>2. \A p \in DOMAIN captured' :
           p \in Children(at) /\ (p \notin touched => captured'[p] = Class(node[p].kind))
    BY <2>1 DEF SnapshotSound
  <2>3. moved \subseteq touched
    BY DEF SnapshotSound
  <2> QED BY <2>1, <2>2, <2>3 DEF SnapshotSound
<1>9. CASE ListFull \/ ListEnd
  <2>1. /\ UNCHANGED <<node, at, touched, captured>> /\ pc = "listing"
        /\ pc' = "verify_directory" /\ moved' = {}
    BY <1>9 DEF ListFull, ListEnd, Listing
  <2>2. ~cut' => Missing = {}
    BY <1>9 DEF ListFull, ListEnd
  <2>3. moved \subseteq touched
    BY DEF SnapshotSound
  <2>4. ~cut' => \A p \in Children(at) \ touched : node[p].kind # "none" => p \in DOMAIN captured
    BY <2>2, <2>3 DEF Missing
  <2> QED BY <2>1, <2>4 DEF SnapshotSound
<1>10. CASE ListRefused \/ VerifyDirectory
  <2>1. pc' \in {"choosing", "done"} /\ (moved' = moved \/ moved' = {}) /\ touched' = touched
    BY <1>10 DEF ListRefused, VerifyDirectory, Refuse, GoOn, Fail, Finish
  <2> QED BY <2>1 DEF SnapshotSound
<1>11. ASSUME NEW c \in Changing, Change(c) PROVE SnapshotSound'
  <2>1. UNCHANGED <<pc, at, captured, cut>> /\ touched' = touched \cup {c}
        /\ moved' \subseteq moved \cup {c}
    BY <1>11 DEF Change
  <2>2. \A p \in Paths : p \notin touched' => p \notin touched /\ node'[p] = node[p]
    BY <1>11, Untouched
  <2>3. DOMAIN captured \subseteq Paths /\ Children(at) \subseteq Paths
    BY DEF TypeOK, Children
  <2>4. moved' \subseteq touched'
    BY <2>1 DEF SnapshotSound
  <2>5. ASSUME pc' \in ListSteps, NEW p \in DOMAIN captured
        PROVE  p \in Children(at) /\ (p \notin touched' => captured[p] = Class(node'[p].kind))
    BY <2>1, <2>2, <2>3, <2>5 DEF SnapshotSound
  <2>6. ASSUME pc' = "verify_directory", ~cut', NEW p \in Children(at) \ touched'
        PROVE  node'[p].kind # "none" => p \in DOMAIN captured
    BY <2>1, <2>2, <2>3, <2>6 DEF SnapshotSound
  <2> QED BY <2>1, <2>4, <2>5, <2>6 DEF SnapshotSound
<1> QED BY <1>1, <1>2, <1>3, <1>4, <1>5, <1>6, <1>7, <1>8, <1>9, <1>10, <1>11 DEF Next, Step

-----------------------------------------------------------------------------
(* What is owed.                                                           *)

\* What a search owes: a readable match below its target, or the target itself.
LEMMA OwedBySearch ==
  ASSUME op = "search", NEW p \in Owed
  PROVE  /\ p \in Paths /\ Stable(p) /\ ~SensitivePath(p)
         /\ target = p \/ target \in Above[p]
         /\ node[p].kind = "text" /\ Resolves(p, "file")
         /\ \A q \in Above[p] : /\ q \in Paths /\ Stable(q) /\ Resolves(q, "dir")
                                /\ node[q].kind = "dir" /\ ~SensitivePath(q)
<1>1. /\ p \in Paths /\ Stable(p) /\ ~SensitivePath(p)
      /\ target = p \/ target \in Above[p]
      /\ node[p].kind = "text" /\ Resolves(p, "file")
  BY DEF Owed
<1>2. ASSUME NEW q \in Above[p]
      PROVE  /\ q \in Paths /\ Stable(q) /\ Resolves(q, "dir")
             /\ node[q].kind = "dir" /\ ~SensitivePath(q)
  <2>1. q \in Paths /\ Above[q] \cup {q} \subseteq Above[p]
    BY <1>1, AboveOrder
  <2>2. \A r \in Above[p] : node[r].kind = "dir"
    BY <1>1 DEF Resolves
  <2>3. Stable(q) /\ ~SensitivePath(q)
    BY <1>1, <2>1 DEF Stable, SensitivePath
  <2>4. Resolves(q, "dir")
    BY <2>1, <2>2 DEF Resolves, Class, Files
  <2> QED BY <2>1, <2>2, <2>3, <2>4
<1> QED BY <1>1, <1>2

\* A change adds nothing to what is owed.
LEMMA OwedShrinks ==
  ASSUME TypeOK, NEW c \in Changing, Change(c)
  PROVE  Owed' \subseteq Owed
<1>1. UNCHANGED <<op, target>>
  BY DEF Change
<1>2. ASSUME NEW p \in Owed' PROVE p \in Owed
  <2>1. p \in Paths /\ Stable(p)'
    BY <1>2 DEF Owed
  <2>2. /\ Stable(p) /\ \A x : Resolves(p, x)' <=> Resolves(p, x)
        /\ node'[p] = node[p]
    BY <2>1, Untouched
  <2> QED BY <1>1, <1>2, <2>1, <2>2 DEF Owed
<1> QED BY <1>2

\* No step follows a failure.
LEMMA FailureEndsStep ==
  ASSUME FailureEnds, [Next]_vars
  PROVE  FailureEnds'
<1> USE DEF FailureEnds
<1>1. CASE UNCHANGED vars
  BY <1>1 DEF vars, answerVars
<1>2. ASSUME NEW p \in Paths, NEW o \in {"read", "list"}, Start(o, p) PROVE FailureEnds'
  BY <1>2 DEF Start, answerVars
<1>3. ASSUME NEW p \in Paths, StartSearch(p) PROVE FailureEnds'
  BY <1>3 DEF StartSearch, GoOn, Fail, answerVars
<1>4. CASE SearchEnds \/ FilesExhausted \/ NextFile \/ NextDirectory
  BY <1>4 DEF SearchEnds, FilesExhausted, NextFile, NextDirectory, Choosing, Finish, answerVars
<1>5. CASE ResolveFile \/ Open
  BY <1>5 DEF ResolveFile, Open, Refuse, GoOn, Fail, answerVars
<1>6. CASE VerifyFile
  <2>1. pc # "done" /\ (pc' = "done" \/ failed' = failed)
    BY <1>6 DEF VerifyFile, Refuse, Scan, GoOn, Fail, Finish, answerVars
  <2> QED BY <2>1
<1>7. CASE ResolveDirectory \/ ListRefused \/ VerifyDirectory
  <2>1. pc # "done" /\ (pc' = "done" \/ failed' = failed)
    BY <1>7 DEF ResolveDirectory, ListRefused, VerifyDirectory, Refuse, GoOn, Fail, Finish, answerVars
  <2> QED BY <2>1
<1>8. CASE ListEntry \/ ListFull \/ ListEnd
  BY <1>8 DEF ListEntry, ListFull, ListEnd, Listing, answerVars
<1>9. ASSUME NEW p \in Changing, Change(p) PROVE FailureEnds'
  BY <1>9 DEF Change, answerVars
<1> QED BY <1>1, <1>2, <1>3, <1>4, <1>5, <1>6, <1>7, <1>8, <1>9 DEF Next, Step

\* An answered call takes no further step.
LEMMA DoneStays ==
  ASSUME pc = "done", [Next]_vars
  PROVE  UNCHANGED vars
<1>1. ~(\E p \in Paths : StartSearch(p) \/ \E o \in {"read", "list"} : Start(o, p))
  BY DEF StartSearch, Start
<1>2. ~(SearchEnds \/ FilesExhausted \/ NextFile \/ NextDirectory)
  BY DEF SearchEnds, FilesExhausted, NextFile, NextDirectory, Choosing
<1>3. ~(ResolveFile \/ Open \/ VerifyFile \/ ResolveDirectory)
  BY DEF ResolveFile, Open, VerifyFile, ResolveDirectory
<1>4. ~(ListEntry \/ ListFull \/ ListEnd \/ ListRefused \/ VerifyDirectory)
  BY DEF ListEntry, ListFull, ListEnd, Listing, ListRefused, VerifyDirectory
<1>5. ~(\E p \in Changing : Change(p))
  BY DEF Change
<1> QED BY <1>1, <1>2, <1>3, <1>4, <1>5 DEF Next, Step

\* A verified and complete snapshot has the entry on the way to what is owed.
LEMMA OnTheWay ==
  ASSUME TypeOK, SnapshotSound, pc = "verify_directory", ~cut, op = "search",
         NEW p \in Owed, at \in Above[p]
  PROVE  \/ p \in Eligible("file")
         \/ \E c \in Eligible("dir") : c \in Above[p]
<1>1. p \in Paths /\ node[p].kind = "text" /\ Stable(p) /\ ~SensitivePath(p)
  BY OwedBySearch
<1>2. PICK c \in Children(at) : c = p \/ c \in Above[p]
  BY <1>1, AboveOrder
<1>3. c \notin touched /\ ~SensitivePath(c)
  BY <1>1, <1>2, OwedBySearch DEF Stable
<1>4. node[c].kind = IF c = p THEN "text" ELSE "dir"
  BY <1>1, <1>2, OwedBySearch
<1>5. c \in DOMAIN captured /\ captured[c] = Class(node[c].kind)
  BY <1>2, <1>3, <1>4 DEF SnapshotSound, ListSteps
<1>6. CASE c = p
  BY <1>3, <1>4, <1>5, <1>6 DEF Eligible, Class, Files
<1>7. CASE c # p
  <2>1. captured[c] = "dir"
    BY <1>4, <1>5, <1>7 DEF Class, Files
  <2> QED BY <1>2, <1>3, <1>5, <1>7, <2>1 DEF Eligible
<1> QED BY <1>6, <1>7

\* No step of a search loses what it owes.
LEMMA NothingLostStep ==
  ASSUME TypeOK, LimitsLeft, ExpectsWhatIs, SnapshotSound, NothingLost, [Next]_vars
  PROVE  NothingLost'
<1> SUFFICES ASSUME op' = "search", pc' # "done", NEW p \in Owed'
             PROVE  p \in reported' \/ Pending(p)'
  BY DEF NothingLost
<1> USE DEF FileSteps, DirectorySteps, ListSteps
<1>1. CASE \E c \in Changing : Change(c)
  <2>1. PICK c \in Changing : Change(c)
    BY <1>1
  <2>2. UNCHANGED <<op, pc, at, files, dirs, reported>>
    BY <2>1 DEF Change, searchVars, answerVars
  <2>3. p \in reported \/ Pending(p)
    BY <2>1, <2>2, OwedShrinks DEF NothingLost
  <2> QED BY <2>2, <2>3 DEF Pending
<1>2. ASSUME NEW t \in Paths, StartSearch(t) PROVE Pending(p)'
  <2>1. node' = node /\ target' = t
    BY <1>2 DEF StartSearch
  <2>2. /\ p \in Paths /\ t \in Above[p] \cup {p} /\ node[p].kind = "text"
        /\ \A q \in Above[p] : node[q].kind = "dir"
    BY <2>1 DEF Owed, Resolves
  <2>3. Regular(t) \/ Resolves(t, "dir")
    BY <1>2 DEF StartSearch, Fail
  <2>4. CASE Regular(t)
    <3>1. t = p
      BY <2>2, <2>4 DEF Regular, Resolves, Class, Files
    <3>2. files' = <<t>>
      BY <1>2, <2>4 DEF StartSearch
    <3>3. 1 \in DOMAIN files' /\ files'[1] = p
      BY <3>1, <3>2
    <3> QED BY <3>3 DEF Pending
  <2>5. CASE Resolves(t, "dir")
    <3>1. t \in Above[p]
      BY <2>2, <2>5 DEF Resolves, Class, Files
    <3>2. dirs' = <<t>>
      BY <1>2, <2>5 DEF StartSearch
    <3>3. 1 \in DOMAIN dirs' /\ dirs'[1] \in Above[p]
      BY <3>1, <3>2
    <3> QED BY <3>3 DEF Pending
  <2> QED BY <2>3, <2>4, <2>5
<1>3. ASSUME Step \/ UNCHANGED vars, \A c \in Changing : ~Change(c)
      PROVE  p \in reported' \/ Pending(p)'
  <2>1. node' = node /\ touched' = touched
    BY <1>3, TreeStands
  <2>2. op' = op /\ target' = target
    <3>1. CASE SearchEnds \/ FilesExhausted \/ NextFile \/ NextDirectory
      BY <3>1 DEF SearchEnds, FilesExhausted, NextFile, NextDirectory, Choosing
    <3>2. CASE ResolveFile \/ Open \/ VerifyFile \/ ResolveDirectory
      BY <3>2 DEF ResolveFile, Open, VerifyFile, ResolveDirectory
    <3>3. CASE ListEntry \/ ListFull \/ ListEnd \/ ListRefused \/ VerifyDirectory
      BY <3>3 DEF ListEntry, ListFull, ListEnd, Listing, ListRefused, VerifyDirectory
    <3>4. CASE UNCHANGED vars
      BY <3>4 DEF vars
    <3> QED BY <1>3, <3>1, <3>2, <3>3, <3>4 DEF Step
  <2>3. p \in Owed /\ op = "search"
    BY <2>1, <2>2 DEF Owed, Stable, Resolves
  <2>4. pc # "done"
    BY DoneStays DEF vars
  <2>5. p \in reported \/ Pending(p)
    BY <2>3, <2>4 DEF NothingLost
  <2>6. /\ p \in Paths /\ Stable(p) /\ node[p].kind = "text" /\ Resolves(p, "file")
        /\ \A q \in Above[p] : Stable(q) /\ Resolves(q, "dir")
    BY <2>3, OwedBySearch
  <2>7. CASE UNCHANGED vars
    BY <2>5, <2>7 DEF Pending, vars, guardVars, searchVars, answerVars
  <2>8. ~SearchEnds /\ ~FilesExhausted
    BY DEF SearchEnds, FilesExhausted, Finish
  <2>9. CASE NextFile
    <3>1. /\ pc = "choosing" /\ files # <<>> /\ at' = Head(files) /\ files' = Tail(files)
          /\ dirs' = dirs /\ pc' = "resolve_file" /\ reported' = reported
      BY <2>9 DEF NextFile, Choosing, answerVars
    <3>2. files \in Seq(Paths)
      BY DEF TypeOK
    <3>3. ASSUME NEW i \in DOMAIN files, files[i] = p
          PROVE  at' = p \/ \E k \in DOMAIN files' : files'[k] = p
      <4>1. CASE i = 1
        BY <3>1, <3>2, <3>3, <4>1
      <4>2. CASE i # 1
        <5>1. i - 1 \in DOMAIN files' /\ files'[i - 1] = files[i]
          BY <3>1, <3>2, <4>2
        <5> QED BY <3>3, <5>1
      <4> QED BY <4>1, <4>2
    <3> QED BY <2>5, <3>1, <3>3 DEF Pending
  <2>10. CASE NextDirectory
    <3>1. /\ pc = "choosing" /\ dirs # <<>> /\ at' = Head(dirs) /\ dirs' = Tail(dirs)
          /\ files' = files /\ pc' = "resolve_directory" /\ reported' = reported
      BY <2>10 DEF NextDirectory, Choosing, Finish, answerVars
    <3>2. dirs \in Seq(Paths)
      BY DEF TypeOK
    <3>3. ASSUME NEW i \in DOMAIN dirs, dirs[i] \in Above[p]
          PROVE  at' \in Above[p] \/ \E k \in DOMAIN dirs' : dirs'[k] \in Above[p]
      <4>1. CASE i = 1
        BY <3>1, <3>2, <3>3, <4>1
      <4>2. CASE i # 1
        <5>1. i - 1 \in DOMAIN dirs' /\ dirs'[i - 1] = dirs[i]
          BY <3>1, <3>2, <4>2
        <5> QED BY <3>3, <5>1
      <4> QED BY <4>1, <4>2
    <3> QED BY <2>5, <3>1, <3>3 DEF Pending
  <2>11. CASE ResolveFile \/ Open
    <3>1. /\ UNCHANGED <<files, dirs, at, reported>> /\ pc \in {"resolve_file", "open"}
      BY <2>3, <2>11 DEF ResolveFile, Open, Refuse, GoOn, guardVars, searchVars, answerVars
    <3>2. pc = "open" /\ at = p => expected = Identity(at)
      BY <2>6 DEF ExpectsWhatIs
    <3>3. at = p => pc' \in FileSteps
      BY <2>6, <2>11, <3>2 DEF ResolveFile, Open
    <3> QED BY <2>5, <3>1, <3>3 DEF Pending
  <2>12. CASE VerifyFile
    <3>1. pc = "verify_file" /\ (at = p => expected = Identity(at))
      BY <2>6, <2>12 DEF VerifyFile, ExpectsWhatIs
    <3>2. /\ UNCHANGED <<files, dirs>> /\ reported \subseteq reported'
      BY <2>3, <2>12 DEF VerifyFile, Refuse, Scan, GoOn, Finish, searchVars, answerVars
    <3>3. at = p => p \in reported'
      <4>1. at = p => Scan("text")
        BY <2>3, <2>6, <2>12, <3>1 DEF VerifyFile
      <4> QED BY <4>1 DEF Scan, Finish, Hits
    <3> QED BY <2>5, <3>1, <3>2, <3>3 DEF Pending
  <2>13. CASE ResolveDirectory
    <3>1. UNCHANGED <<files, dirs, at, reported>> /\ pc = "resolve_directory"
      BY <2>3, <2>13 DEF ResolveDirectory, Refuse, GoOn, searchVars, answerVars
    <3>2. at \in Above[p] => pc' \in DirectorySteps
      BY <2>6, <2>13 DEF ResolveDirectory
    <3> QED BY <2>5, <3>1, <3>2 DEF Pending
  <2>14. CASE ListEntry \/ ListFull \/ ListEnd
    <3>1. /\ UNCHANGED <<files, dirs, at, reported>> /\ pc = "listing" /\ pc' \in DirectorySteps
      BY <2>14 DEF ListEntry, ListFull, ListEnd, Listing, searchVars, answerVars
    <3> QED BY <2>5, <3>1 DEF Pending
  <2>15. CASE ListRefused
    <3>1. /\ UNCHANGED <<files, dirs, reported>> /\ pc = "listing" /\ at \notin Above[p]
      BY <2>3, <2>6, <2>15 DEF ListRefused, Refuse, GoOn, searchVars, answerVars
    <3> QED BY <2>5, <3>1 DEF Pending
  <2>16. CASE VerifyDirectory
    <3>1. pc = "verify_directory" /\ reported' = reported
      BY <2>3, <2>16 DEF VerifyDirectory, Refuse, GoOn, Finish, answerVars
    <3>2. CASE Refuse /\ at \notin Above[p]
      BY <2>3, <2>5, <3>1, <3>2 DEF Pending, Refuse, GoOn, searchVars
    <3>3. CASE Enqueue /\ ~cut
      <4>1. /\ \A i \in DOMAIN files : \E k \in DOMAIN files' : files'[k] = files[i]
            /\ \A i \in DOMAIN dirs : \E k \in DOMAIN dirs' : dirs'[k] = dirs[i]
            /\ \A q \in Eligible("file") : \E k \in DOMAIN files' : files'[k] = q
            /\ \A q \in Eligible("dir") : \E k \in DOMAIN dirs' : dirs'[k] = q
        BY <2>3, <3>1, <3>3, Enqueued
      <4>2. CASE at \in Above[p]
        <5>1. p \in Eligible("file") \/ \E c \in Eligible("dir") : c \in Above[p]
          BY <2>3, <3>1, <3>3, <4>2, OnTheWay
        <5> QED BY <4>1, <5>1 DEF Pending
      <4>3. CASE at \notin Above[p]
        BY <2>5, <3>1, <4>1, <4>3 DEF Pending
      <4> QED BY <4>2, <4>3
    <3>4. at \in Above[p] => expected = Identity(at) /\ Resolves(at, "dir")
      BY <2>6, <3>1 DEF ExpectsWhatIs
    <3> QED BY <2>3, <2>16, <3>2, <3>3, <3>4 DEF VerifyDirectory, CutShort, Finish
  <2> QED BY <1>3, <2>7, <2>8, <2>9, <2>10, <2>11, <2>12, <2>13, <2>14, <2>15, <2>16 DEF Step
<1>4. ASSUME NEW t \in Paths, NEW o \in {"read", "list"}, Start(o, t) PROVE FALSE
  BY <1>4 DEF Start
<1> QED BY <1>1, <1>2, <1>3, <1>4 DEF Next

\* What the three tools ask for, by the tool.
LEMMA AskedIs ==
  /\ op = "read" => (Asked <=> Resolves(target, "file") /\ node[target].kind # "unreadable")
  /\ op = "list" => (Asked <=> Resolves(target, "dir"))
  /\ op = "search" => (Asked <=> Resolves(target, "file") \/ Resolves(target, "dir"))
<1>1. op = "read" => (Asked <=> Resolves(target, "file") /\ node[target].kind # "unreadable")
  BY DEF Asked
<1>2. op = "list" => (Asked <=> Resolves(target, "dir"))
  BY DEF Asked
<1>3. op = "search" => (Asked <=> Resolves(target, "file") \/ Resolves(target, "dir"))
  BY DEF Asked
<1> QED BY <1>1, <1>2, <1>3

\* The step that ends a call makes its answer complete or its failure justified.
LEMMA AnswerStep ==
  ASSUME TypeOK, CallSound, FailureEnds, ExpectsWhatIs, SnapshotSound, NothingLost,
         AnswerIsComplete, [Next]_vars
  PROVE  AnswerIsComplete'
<1> SUFFICES ASSUME pc' = "done" PROVE AnswerIsComplete'
  BY DEF AnswerIsComplete
<1> USE DEF FileSteps, DirectorySteps, ListSteps
<1>1. CASE pc = "done"
  <2>1. UNCHANGED vars
    BY <1>1, DoneStays
  <2> QED BY <2>1 DEF AnswerIsComplete, Owed, Asked, Stable, Resolves, vars, answerVars
<1>2. ASSUME pc # "done", \A c \in Changing : ~Change(c)
      PROVE  AnswerIsComplete'
  <2>1. node' = node /\ touched' = touched
    BY <1>2, TreeStands
  <2>2. ~failed
    BY <1>2 DEF FailureEnds
  <2>3. ASSUME NEW t \in Paths, StartSearch(t) PROVE AnswerIsComplete'
    <3>1. op' = "search" /\ target' = t /\ failed' /\ ~Resolves(t, "file") /\ ~Resolves(t, "dir")
      BY <2>3 DEF StartSearch, Regular, GoOn, Fail
    <3>2. ~Asked'
      BY <2>1, <3>1 DEF Asked, Resolves
    <3> QED BY <3>1, <3>2 DEF AnswerIsComplete
  <2>4. ASSUME NEW t \in Paths, NEW o \in {"read", "list"}, Start(o, t) PROVE FALSE
    BY <2>4 DEF Start
  <2>5. ASSUME Step PROVE UNCHANGED <<op, target>>
    <3>1. CASE SearchEnds \/ FilesExhausted \/ NextFile \/ NextDirectory
      BY <3>1 DEF SearchEnds, FilesExhausted, NextFile, NextDirectory, Choosing
    <3>2. CASE ResolveFile \/ Open \/ VerifyFile \/ ResolveDirectory
      BY <3>2 DEF ResolveFile, Open, VerifyFile, ResolveDirectory
    <3>3. CASE ListEntry \/ ListFull \/ ListEnd \/ ListRefused \/ VerifyDirectory
      BY <3>3 DEF ListEntry, ListFull, ListEnd, Listing, ListRefused, VerifyDirectory
    <3> QED BY <2>5, <3>1, <3>2, <3>3 DEF Step
  <2>6. ASSUME Step, failed', ~(Stable(target) /\ Asked) PROVE AnswerIsComplete'
    <3>1. ~(Stable(target) /\ Asked)'
      BY <2>1, <2>5, <2>6 DEF Asked, Stable, Resolves
    <3> QED BY <2>6, <3>1 DEF AnswerIsComplete
  <2>7. ASSUME Step, ~failed', ~truncated' => Owed \subseteq reported' PROVE AnswerIsComplete'
    <3>1. Owed' = Owed
      BY <2>1, <2>5, <2>7 DEF Owed, Stable, Resolves
    <3> QED BY <2>7, <3>1 DEF AnswerIsComplete
  <2>8. /\ op = "read" => at = target /\ pc \in FileSteps
        /\ op = "list" => at = target /\ pc \in DirectorySteps
        /\ op \in {"none", "read", "list", "search"} /\ (op = "none" <=> pc = "idle")
    BY <1>2 DEF CallSound, TypeOK
  <2>9. CASE SearchEnds
    <3>1. op = "search" /\ pc = "choosing" /\ files = <<>> /\ dirs = <<>>
      BY <2>8, <2>9 DEF SearchEnds, Choosing
    <3>2. \A p : ~Pending(p)
      BY <3>1 DEF Pending
    <3>3. failed' = failed /\ Owed \subseteq reported'
      BY <1>2, <2>9, <3>1, <3>2 DEF SearchEnds, Finish, NothingLost
    <3> QED BY <2>2, <2>7, <2>9, <3>3 DEF Step
  <2>10. CASE FilesExhausted \/ NextDirectory
    <3>1. failed' = failed /\ truncated' = TRUE
      BY <2>10 DEF FilesExhausted, NextDirectory, Finish
    <3> QED BY <2>2, <2>7, <2>10, <3>1 DEF Step
  <2>11. CASE ResolveFile \/ Open
    <3>1. failed' /\ op # "search" /\ pc \in {"resolve_file", "open"}
      BY <2>11 DEF ResolveFile, Open, Refuse, GoOn, Fail
    <3>2. op = "read" /\ at = target
      BY <2>8, <3>1
    <3>3. pc = "open" /\ Stable(at) => expected = Identity(at)
      BY DEF ExpectsWhatIs
    <3>4. ~(Stable(at) /\ Resolves(at, "file"))
      BY <2>11, <3>3 DEF ResolveFile, Open
    <3>5. ~(Stable(target) /\ Asked)
      BY <3>2, <3>4, AskedIs
    <3> QED BY <2>6, <2>11, <3>1, <3>5 DEF Step
  <2>12. CASE VerifyFile
    <3>1. pc = "verify_file" /\ (Stable(at) => expected = Identity(at))
      BY <2>12 DEF VerifyFile, ExpectsWhatIs
    <3>2. CASE op = "search"
      <4>1. failed' = failed /\ truncated'
        BY <2>12, <3>2 DEF VerifyFile, Refuse, Scan, GoOn, Finish
      <4> QED BY <2>2, <2>7, <2>12, <4>1 DEF Step
    <3>3. CASE op # "search"
      <4>1. op = "read" /\ at = target
        BY <2>8, <3>1, <3>3
      <4>2. CASE Resolves(at, "file") /\ Identity(at) = expected /\ node[at].kind # "unreadable"
        <5>1. reported' = {at} /\ failed' = failed
          BY <2>12, <3>3, <4>2 DEF VerifyFile, Finish
        <5>2. Owed \subseteq {at}
          BY <4>1 DEF Owed
        <5> QED BY <2>2, <2>7, <2>12, <5>1, <5>2 DEF Step
      <4>3. CASE ~(Resolves(at, "file") /\ Identity(at) = expected /\ node[at].kind # "unreadable")
        <5>1. failed'
          BY <2>12, <3>3, <4>3 DEF VerifyFile, Refuse, Fail
        <5>2. ~(Stable(target) /\ Asked)
          BY <3>1, <4>1, <4>3, AskedIs
        <5> QED BY <2>6, <2>12, <5>1, <5>2 DEF Step
      <4> QED BY <4>2, <4>3
    <3> QED BY <3>2, <3>3
  <2>13. CASE ResolveDirectory \/ ListRefused
    <3>1. failed' /\ op # "search" /\ pc \in DirectorySteps /\ ~Resolves(at, "dir")
      BY <2>13 DEF ResolveDirectory, ListRefused, Refuse, GoOn, Fail
    <3>2. op = "list" /\ at = target
      BY <2>8, <3>1
    <3>3. ~Asked
      BY <3>1, <3>2, AskedIs
    <3> QED BY <2>6, <2>13, <3>1, <3>3 DEF Step
  <2>14. CASE VerifyDirectory
    <3>1. pc = "verify_directory" /\ (Stable(at) => expected = Identity(at))
      BY <2>14 DEF VerifyDirectory, ExpectsWhatIs
    <3>2. CASE op = "search"
      <4>1. failed' = failed /\ truncated'
        BY <2>14, <3>2 DEF VerifyDirectory, Refuse, GoOn, Finish
      <4> QED BY <2>2, <2>7, <2>14, <4>1 DEF Step
    <3>3. CASE op # "search" /\ ~(Resolves(at, "dir") /\ Identity(at) = expected)
      <4>1. op = "list" /\ at = target
        BY <2>8, <3>1, <3>3
      <4>2. failed'
        BY <2>14, <3>3 DEF VerifyDirectory, Refuse, Fail
      <4>3. ~(Stable(target) /\ Asked)
        BY <3>1, <3>3, <4>1, AskedIs
      <4> QED BY <2>6, <2>14, <4>2, <4>3 DEF Step
    <3>4. CASE op # "search" /\ Resolves(at, "dir") /\ Identity(at) = expected
      <4>1. op = "list" /\ at = target
        BY <2>8, <3>1, <3>4
      <4>2. /\ failed' = failed /\ truncated' = cut
            /\ reported' = Eligible("file") \cup Eligible("dir")
        BY <2>14, <3>4 DEF VerifyDirectory, Finish, CutShort
      <4>3. ASSUME ~cut, NEW p \in Owed PROVE p \in reported'
        <5>1. /\ p \in Children(at) /\ Stable(p) /\ ~SensitivePath(p)
              /\ Resolves(p, "file") \/ Resolves(p, "dir")
          BY <4>1, <4>3 DEF Owed
        <5>2. p \notin touched /\ Class(node[p].kind) \in {"file", "dir"} /\ node[p].kind # "none"
          BY <5>1 DEF Stable, Resolves, Class, Files
        <5>3. p \in DOMAIN captured /\ captured[p] = Class(node[p].kind)
          BY <3>1, <4>3, <5>1, <5>2 DEF SnapshotSound
        <5> QED BY <4>2, <5>1, <5>2, <5>3 DEF Eligible
      <4> QED BY <2>2, <2>7, <2>14, <4>2, <4>3 DEF Step
    <3> QED BY <3>2, <3>3, <3>4
  <2>15. ~(NextFile \/ ListEntry \/ ListFull \/ ListEnd) /\ ~UNCHANGED vars
    BY <1>2 DEF NextFile, ListEntry, ListFull, ListEnd, Listing, vars
  <2> QED BY <1>2, <2>3, <2>4, <2>9, <2>10, <2>11, <2>12, <2>13, <2>14, <2>15 DEF Next, Step
<1>3. ASSUME pc # "done", NEW c \in Changing, Change(c) PROVE FALSE
  BY <1>3 DEF Change
<1> QED BY <1>1, <1>2, <1>3

-----------------------------------------------------------------------------
(* Theorems                                                                *)

Inv ==
    /\ TypeOK /\ CallSound /\ FailureEnds /\ LimitsLeft
    /\ ExpectsWhatIs /\ SnapshotSound /\ NothingLost /\ AnswerIsComplete

\* The invariant holds before the call.
LEMMA InitialInv == Init => Inv
<1> SUFFICES ASSUME Init PROVE Inv
  OBVIOUS
<1>1. /\ node \in [Paths -> [kind: Kinds, id: Identities]]
      /\ op = "none" /\ target = 0 /\ pc = "idle"
      /\ at = 0 /\ expected = <<"none", 0>> /\ cut = FALSE /\ moved = {}
      /\ dirs = <<>> /\ files = <<>>
      /\ entries = 0 /\ scanned = 0 /\ bytes = 0 /\ matches = 0
      /\ reported = {} /\ truncated = FALSE /\ failed = FALSE /\ touched = {}
  BY DEF Init
<1>2. DOMAIN captured = {}
  <2>1. captured = <<>>
    BY DEF Init
  <2> QED BY <2>1
<1>3. TypeOK
  <2>1. dirs \in Seq(Paths) /\ files \in Seq(Paths)
    BY <1>1
  <2>2. entries \in 0..MaxEntries /\ scanned \in 0..MaxFiles /\ bytes \in 0..MaxTotal
        /\ matches \in 0..MaxResults
    BY <1>1, Limits
  <2>3. expected \in {"none", "file", "dir"} \X (Identities \cup {0})
    BY <1>1
  <2>4. pc \in PcStates /\ op \in {"none", "read", "list", "search"} /\ target \in Paths /\ at \in Paths
    BY <1>1, Limits DEF PcStates
  <2>5. {truncated, failed, cut} \subseteq BOOLEAN
        /\ reported \subseteq Paths /\ touched \subseteq Paths /\ moved \subseteq Paths
    BY <1>1
  <2> QED BY <1>1, <1>2, <2>1, <2>2, <2>3, <2>4, <2>5 DEF TypeOK
<1>4. CallSound /\ FailureEnds /\ ExpectsWhatIs /\ SnapshotSound /\ NothingLost /\ AnswerIsComplete
  BY <1>1 DEF CallSound, FailureEnds, ExpectsWhatIs, SnapshotSound, NothingLost, AnswerIsComplete,
              ListSteps
<1>5. LimitsLeft
  BY <1>1, <1>2, Limits, FS_EmptySet DEF LimitsLeft, FileSteps, DirectorySteps, ListSteps
<1> QED BY <1>3, <1>4, <1>5 DEF Inv

\* Every step keeps the invariant.
LEMMA NextInv == Inv /\ [Next]_vars => Inv'
<1> SUFFICES ASSUME Inv, [Next]_vars PROVE Inv'
  OBVIOUS
<1>1. TypeOK'
  BY TypeStep DEF Inv
<1>2. CallSound' /\ FailureEnds' /\ LimitsLeft'
  BY CallSoundStep, FailureEndsStep, LimitsLeftStep DEF Inv
<1>3. ExpectsWhatIs' /\ SnapshotSound' /\ NothingLost'
  BY ExpectsStep, SnapshotStep, NothingLostStep DEF Inv
<1>4. AnswerIsComplete'
  BY AnswerStep DEF Inv
<1> QED BY <1>1, <1>2, <1>3, <1>4 DEF Inv

\* The invariant always holds.
LEMMA AlwaysInv == Spec => []Inv
  BY InitialInv, NextInv, PTL DEF Spec

\* Every counter of a search stays within its limit, and every variable in its type,
\* for every tree and all limits.
THEOREM TypeCorrect == Spec => []TypeOK
  BY AlwaysInv, PTL DEF Inv

\* An answer that is not truncated is complete and a failure has its cause, for every
\* tree, however other processes change it and however the limits fall.
THEOREM AnswersAreComplete == Spec => []AnswerIsComplete
  BY AlwaysInv, PTL DEF Inv

===============================================================================
