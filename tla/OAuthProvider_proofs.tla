------------------------ MODULE OAuthProvider_proofs -------------------------
(***************************************************************************)
(* Proofs about OAuthProvider for every set of requests, every lifetime    *)
(* and every limit: the links of the token pairs are sound, a grant has    *)
(* one holder, a denial is final, and the pending requests are bounded.    *)
(***************************************************************************)
EXTENDS OAuthProvider, FiniteSetTheorems, TLAPS

\* A token is linked to the partner it was minted with or to none; an access
\* token always has its partner, and a link only joins tokens that exist.
SelfLinked(s) ==
    \A p \in Pairs :
        /\ s.accessToRefresh[p] \in {0, p}
        /\ s.refreshToAccess[p] \in {0, p}
        /\ s.access[p] # 0 =>
              s.accessToRefresh[p] = p /\ s.refreshToAccess[p] = p /\ s.refresh[p] # 0
        /\ s.accessToRefresh[p] # 0 => s.access[p] # 0
        /\ s.refreshToAccess[p] # 0 => s.access[p] # 0

\* Nothing is in t that is not in s.
Shrinks(s, t) ==
    \A p \in Pairs :
        /\ t.access[p] # 0 => s.access[p] # 0
        /\ t.refresh[p] # 0 => s.refresh[p] # 0

\* What is gone of a pair in t is gone as a whole, or its access token expired.
Whole(s, t) ==
    \A p \in Pairs :
        s.access[p] # 0 /\ t.access[p] = 0 /\ t.refresh[p] # 0 => s.access[p] < now

-----------------------------------------------------------------------------
(* The operations on the four dictionaries of tokens.                      *)

LEMMA StoreFields ==
    ASSUME NEW s \in TokenStores
    PROVE  /\ s.access \in [Pairs -> Nat] /\ s.refresh \in [Pairs -> Nat]
           /\ s.accessToRefresh \in [Pairs -> 0..MaxPairs]
           /\ s.refreshToAccess \in [Pairs -> 0..MaxPairs]
  BY DEF TokenStores

\* What replaces the four dictionaries of a store is a store.
LEMMA StoreUpdated ==
    ASSUME NEW s \in TokenStores, NEW t,
           t.access \in [Pairs -> Nat], t.refresh \in [Pairs -> Nat],
           t.accessToRefresh \in [Pairs -> 0..MaxPairs],
           t.refreshToAccess \in [Pairs -> 0..MaxPairs],
           t = [s EXCEPT !.access = t.access, !.refresh = t.refresh,
                         !.accessToRefresh = t.accessToRefresh,
                         !.refreshToAccess = t.refreshToAccess]
    PROVE  t \in TokenStores
<1>1. ASSUME NEW a \in [Pairs -> Nat], NEW r \in [Pairs -> Nat],
             NEW ar \in [Pairs -> 0..MaxPairs], NEW ra \in [Pairs -> 0..MaxPairs]
      PROVE  [s EXCEPT !.access = a, !.refresh = r, !.accessToRefresh = ar,
                       !.refreshToAccess = ra] \in TokenStores
  BY DEF TokenStores
<1>2. [s EXCEPT !.access = t.access, !.refresh = t.refresh,
                !.accessToRefresh = t.accessToRefresh,
                !.refreshToAccess = t.refreshToAccess] \in TokenStores
  BY <1>1
<1> QED BY <1>2

LEMMA PairsPositive == 0 \notin Pairs /\ Pairs \subseteq Nat
  BY OAuthAssumption DEF Pairs

LEMMA ExpireAccessKeeps ==
    ASSUME NEW s \in TokenStores, SelfLinked(s)
    PROVE  /\ ExpireAccess(s) \in TokenStores
           /\ SelfLinked(ExpireAccess(s))
           /\ Shrinks(s, ExpireAccess(s))
           /\ Whole(s, ExpireAccess(s))
           /\ \A p \in Pairs : ExpireAccess(s).access[p] # 0 =>
                 ExpireAccess(s).access[p] = s.access[p] /\ ~(s.access[p] < now)
<1> DEFINE t == ExpireAccess(s)
           gone == {a \in Keys(s.access) : s.access[a] < now}
<1>1. gone = {a \in Pairs : s.access[a] # 0 /\ s.access[a] < now}
  BY StoreFields DEF Keys
<1>2. /\ t.access = [a \in Pairs |-> IF a \in gone THEN 0 ELSE s.access[a]]
      /\ t.refresh = s.refresh
      /\ t.accessToRefresh = [a \in Pairs |-> IF a \in gone THEN 0 ELSE s.accessToRefresh[a]]
      /\ t.refreshToAccess =
            [r \in Pairs |-> IF \E a \in gone : s.accessToRefresh[a] = r THEN 0
                             ELSE s.refreshToAccess[r]]
  BY DEF ExpireAccess, TokenStores
<1>3. \A r \in Pairs : (\E a \in gone : s.accessToRefresh[a] = r) <=> r \in gone
  BY <1>1 DEF SelfLinked
<1>4. t \in TokenStores
  <2>1. t.access \in [Pairs -> Nat] /\ t.refresh \in [Pairs -> Nat]
    BY <1>2, StoreFields
  <2>2. t.accessToRefresh \in [Pairs -> 0..MaxPairs]
    BY <1>2, StoreFields, OAuthAssumption
  <2>3. t.refreshToAccess \in [Pairs -> 0..MaxPairs]
    BY <1>2, StoreFields, OAuthAssumption
  <2>4. t = [s EXCEPT !.access = t.access, !.refresh = t.refresh,
                      !.accessToRefresh = t.accessToRefresh,
                      !.refreshToAccess = t.refreshToAccess]
    BY DEF ExpireAccess, TokenStores
  <2> HIDE DEF t
  <2> QED BY <2>1, <2>2, <2>3, <2>4, StoreUpdated
<1>5. \A p \in Pairs :
         /\ t.access[p] = IF p \in gone THEN 0 ELSE s.access[p]
         /\ t.refresh[p] = s.refresh[p]
         /\ t.accessToRefresh[p] = IF p \in gone THEN 0 ELSE s.accessToRefresh[p]
         /\ t.refreshToAccess[p] = IF p \in gone THEN 0 ELSE s.refreshToAccess[p]
  BY <1>2, <1>3
<1> HIDE DEF t, gone
<1>6. SelfLinked(t) /\ Shrinks(s, t) /\ Whole(s, t)
  BY <1>1, <1>5 DEF SelfLinked, Shrinks, Whole
<1>7. \A p \in Pairs : t.access[p] # 0 => t.access[p] = s.access[p] /\ ~(s.access[p] < now)
  BY <1>1, <1>5
<1> QED BY <1>4, <1>6, <1>7 DEF t

\* Removing a set of pairs as a whole: what _revoke_access, _revoke_refresh and
\* the second loop of _prune come to.
Without(s, gone) ==
    [s EXCEPT !.access = [p \in Pairs |-> IF p \in gone THEN 0 ELSE s.access[p]],
              !.refresh = [p \in Pairs |-> IF p \in gone THEN 0 ELSE s.refresh[p]],
              !.accessToRefresh = [p \in Pairs |-> IF p \in gone THEN 0 ELSE s.accessToRefresh[p]],
              !.refreshToAccess = [p \in Pairs |-> IF p \in gone THEN 0 ELSE s.refreshToAccess[p]]]

LEMMA WithoutKeeps ==
    ASSUME NEW s \in TokenStores, SelfLinked(s), NEW gone \in SUBSET Pairs
    PROVE  /\ Without(s, gone) \in TokenStores
           /\ SelfLinked(Without(s, gone))
           /\ Shrinks(s, Without(s, gone))
           /\ \A p \in Pairs :
                 /\ Without(s, gone).access[p] = IF p \in gone THEN 0 ELSE s.access[p]
                 /\ Without(s, gone).refresh[p] = IF p \in gone THEN 0 ELSE s.refresh[p]
<1> DEFINE t == Without(s, gone)
<1>1. /\ t.access = [p \in Pairs |-> IF p \in gone THEN 0 ELSE s.access[p]]
      /\ t.refresh = [p \in Pairs |-> IF p \in gone THEN 0 ELSE s.refresh[p]]
      /\ t.accessToRefresh = [p \in Pairs |-> IF p \in gone THEN 0 ELSE s.accessToRefresh[p]]
      /\ t.refreshToAccess = [p \in Pairs |-> IF p \in gone THEN 0 ELSE s.refreshToAccess[p]]
  BY DEF Without, TokenStores
<1>a. t = [s EXCEPT !.access = t.access, !.refresh = t.refresh,
                    !.accessToRefresh = t.accessToRefresh, !.refreshToAccess = t.refreshToAccess]
  BY DEF Without, TokenStores
<1> HIDE DEF t
<1>2. t \in TokenStores
  <2>1. t.access \in [Pairs -> Nat] /\ t.refresh \in [Pairs -> Nat]
    BY <1>1, StoreFields
  <2>2. t.accessToRefresh \in [Pairs -> 0..MaxPairs] /\ t.refreshToAccess \in [Pairs -> 0..MaxPairs]
    BY <1>1, StoreFields, OAuthAssumption
  <2> QED BY <1>a, <2>1, <2>2, StoreUpdated
<1>3. SelfLinked(t) /\ Shrinks(s, t)
  BY <1>1 DEF SelfLinked, Shrinks
<1>4. \A p \in Pairs :
         /\ t.access[p] = IF p \in gone THEN 0 ELSE s.access[p]
         /\ t.refresh[p] = IF p \in gone THEN 0 ELSE s.refresh[p]
  BY <1>1
<1> QED BY <1>2, <1>3, <1>4 DEF t

\* Two stores are equal when their dictionaries are.
LEMMA StoresEqual ==
    ASSUME NEW s \in TokenStores, NEW t \in TokenStores,
           s.access = t.access, s.refresh = t.refresh,
           s.accessToRefresh = t.accessToRefresh, s.refreshToAccess = t.refreshToAccess
    PROVE  s = t
  BY DEF TokenStores

LEMMA RevokeAccessIs ==
    ASSUME NEW s \in TokenStores, SelfLinked(s), NEW a \in Pairs, s.access[a] # 0
    PROVE  RevokeAccess(s, a) = Without(s, {a})
<1> DEFINE t == RevokeAccess(s, a)
<1>1. s.accessToRefresh[a] = a
  BY DEF SelfLinked
<1>2. /\ t.access = [s.access EXCEPT ![a] = 0]
      /\ t.accessToRefresh = [s.accessToRefresh EXCEPT ![a] = 0]
      /\ t.refreshToAccess = [r \in Pairs |-> IF r = a THEN 0 ELSE s.refreshToAccess[r]]
      /\ t.refresh = [r \in Pairs |-> IF r = a THEN 0 ELSE s.refresh[r]]
  BY <1>1 DEF RevokeAccess, TokenStores
<1>3. /\ t.access = [p \in Pairs |-> IF p \in {a} THEN 0 ELSE s.access[p]]
      /\ t.accessToRefresh = [p \in Pairs |-> IF p \in {a} THEN 0 ELSE s.accessToRefresh[p]]
      /\ t.refreshToAccess = [r \in Pairs |-> IF r \in {a} THEN 0 ELSE s.refreshToAccess[r]]
      /\ t.refresh = [r \in Pairs |-> IF r \in {a} THEN 0 ELSE s.refresh[r]]
  BY <1>2, StoreFields
<1>4. t = [s EXCEPT !.access = t.access, !.refresh = t.refresh,
                    !.accessToRefresh = t.accessToRefresh, !.refreshToAccess = t.refreshToAccess]
  BY DEF RevokeAccess, TokenStores
<1> QED BY <1>3, <1>4 DEF Without

LEMMA RevokeRefreshIs ==
    ASSUME NEW s \in TokenStores, SelfLinked(s), NEW r \in Pairs, s.refresh[r] # 0
    PROVE  RevokeRefresh(s, r) = Without(s, {r})
<1> DEFINE t == RevokeRefresh(s, r)
<1>1. \A a \in Pairs : a = s.refreshToAccess[r] <=> (a = r /\ s.refreshToAccess[r] # 0)
  BY PairsPositive DEF SelfLinked
<1>2. s.refreshToAccess[r] = 0 => s.access[r] = 0 /\ s.accessToRefresh[r] = 0
  BY PairsPositive DEF SelfLinked
<1>3. /\ t.refresh = [s.refresh EXCEPT ![r] = 0]
      /\ t.refreshToAccess = [s.refreshToAccess EXCEPT ![r] = 0]
      /\ t.accessToRefresh =
            [a \in Pairs |-> IF a = s.refreshToAccess[r] THEN 0 ELSE s.accessToRefresh[a]]
      /\ t.access = [a \in Pairs |-> IF a = s.refreshToAccess[r] THEN 0 ELSE s.access[a]]
  BY DEF RevokeRefresh, TokenStores
<1>4. /\ t.refresh = [p \in Pairs |-> IF p \in {r} THEN 0 ELSE s.refresh[p]]
      /\ t.refreshToAccess = [p \in Pairs |-> IF p \in {r} THEN 0 ELSE s.refreshToAccess[p]]
      /\ t.accessToRefresh = [p \in Pairs |-> IF p \in {r} THEN 0 ELSE s.accessToRefresh[p]]
      /\ t.access = [p \in Pairs |-> IF p \in {r} THEN 0 ELSE s.access[p]]
  BY <1>1, <1>2, <1>3, StoreFields
<1>5. t = [s EXCEPT !.access = t.access, !.refresh = t.refresh,
                    !.accessToRefresh = t.accessToRefresh, !.refreshToAccess = t.refreshToAccess]
  BY DEF RevokeRefresh, TokenStores
<1> QED BY <1>4, <1>5 DEF Without

LEMMA ExpireRefreshIs ==
    ASSUME NEW s \in TokenStores, SelfLinked(s)
    PROVE  ExpireRefresh(s) = Without(s, {r \in Keys(s.refresh) : s.refresh[r] < now})
<1> DEFINE t == ExpireRefresh(s)
           gone == {r \in Keys(s.refresh) : s.refresh[r] < now}
           linked == {s.refreshToAccess[r] : r \in gone}
<1>1. gone \subseteq Pairs /\ \A r \in gone : s.refresh[r] # 0
  BY StoreFields DEF Keys
<1>2. \A a \in Pairs : a \in linked <=> (a \in gone /\ s.refreshToAccess[a] # 0)
  <2> HIDE DEF gone
  <2>1. \A r \in gone : s.refreshToAccess[r] \in {0, r}
    BY <1>1 DEF SelfLinked
  <2>2. ASSUME NEW a \in Pairs, NEW r \in gone, a = s.refreshToAccess[r]
        PROVE  a = r /\ s.refreshToAccess[a] # 0
    BY <2>1, <2>2, PairsPositive
  <2>3. ASSUME NEW a \in gone, s.refreshToAccess[a] # 0 PROVE a \in linked
    <3>1. s.refreshToAccess[a] = a
      BY <2>1, <2>3
    <3> QED BY <3>1
  <2> QED BY <2>2, <2>3
<1>3. \A a \in Pairs : s.refreshToAccess[a] = 0 => s.access[a] = 0 /\ s.accessToRefresh[a] = 0
  BY PairsPositive DEF SelfLinked
<1>4. /\ t.refresh = [r \in Pairs |-> IF r \in gone THEN 0 ELSE s.refresh[r]]
      /\ t.refreshToAccess = [r \in Pairs |-> IF r \in gone THEN 0 ELSE s.refreshToAccess[r]]
      /\ t.accessToRefresh = [a \in Pairs |-> IF a \in linked THEN 0 ELSE s.accessToRefresh[a]]
      /\ t.access = [a \in Pairs |-> IF a \in linked THEN 0 ELSE s.access[a]]
      /\ t = [s EXCEPT !.access = t.access, !.refresh = t.refresh,
                       !.accessToRefresh = t.accessToRefresh, !.refreshToAccess = t.refreshToAccess]
  BY DEF ExpireRefresh, TokenStores
<1> HIDE DEF linked, gone, t
<1>5. /\ t.accessToRefresh = [a \in Pairs |-> IF a \in gone THEN 0 ELSE s.accessToRefresh[a]]
      /\ t.access = [a \in Pairs |-> IF a \in gone THEN 0 ELSE s.access[a]]
  BY <1>2, <1>3, <1>4
<1>6. t = Without(s, gone)
  BY <1>4, <1>5 DEF Without
<1> QED BY <1>6 DEF t, gone

LEMMA PruneKeeps ==
    ASSUME tokens \in TokenStores, SelfLinked(tokens)
    PROVE  /\ PrunedTokens \in TokenStores
           /\ SelfLinked(PrunedTokens)
           /\ Shrinks(tokens, PrunedTokens)
           /\ Whole(tokens, PrunedTokens)
<1> DEFINE s == ExpireAccess(tokens)
           gone == {r \in Keys(s.refresh) : s.refresh[r] < now}
<1>1. s \in TokenStores /\ SelfLinked(s) /\ Shrinks(tokens, s) /\ Whole(tokens, s)
  BY ExpireAccessKeeps
<1>2. PrunedTokens = Without(s, gone)
  BY <1>1, ExpireRefreshIs DEF PrunedTokens
<1>3. gone \in SUBSET Pairs
  BY <1>1, StoreFields DEF Keys
<1> HIDE DEF s, gone
<1>4. /\ Without(s, gone) \in TokenStores
      /\ SelfLinked(Without(s, gone))
      /\ Shrinks(s, Without(s, gone))
      /\ \A p \in Pairs :
            /\ Without(s, gone).access[p] = IF p \in gone THEN 0 ELSE s.access[p]
            /\ Without(s, gone).refresh[p] = IF p \in gone THEN 0 ELSE s.refresh[p]
  BY <1>1, <1>3, WithoutKeeps
<1>5. Shrinks(tokens, Without(s, gone)) /\ Whole(tokens, Without(s, gone))
  BY <1>1, <1>4 DEF Shrinks, Whole
<1> QED BY <1>2, <1>4, <1>5

LEMMA MintKeeps ==
    ASSUME NEW s \in TokenStores, SelfLinked(s), NEW n \in Pairs, now \in Nat
    PROVE  /\ Mint(s, n) \in TokenStores
           /\ SelfLinked(Mint(s, n))
           /\ \A p \in Pairs \ {n} : /\ Mint(s, n).access[p] = s.access[p]
                                     /\ Mint(s, n).refresh[p] = s.refresh[p]
           /\ Mint(s, n).access[n] # 0
<1> DEFINE t == Mint(s, n)
<1>1. /\ t.access = [s.access EXCEPT ![n] = now + AccessTTL]
      /\ t.refresh = [s.refresh EXCEPT ![n] = now + RefreshTTL]
      /\ t.accessToRefresh = [s.accessToRefresh EXCEPT ![n] = n]
      /\ t.refreshToAccess = [s.refreshToAccess EXCEPT ![n] = n]
  BY DEF Mint, TokenStores
<1>2. t = [s EXCEPT !.access = t.access, !.refresh = t.refresh,
                    !.accessToRefresh = t.accessToRefresh, !.refreshToAccess = t.refreshToAccess]
  BY DEF Mint, TokenStores
<1> HIDE DEF t
<1>3. AccessTTL \in Nat \ {0} /\ RefreshTTL \in Nat \ {0} /\ MaxPairs \in Nat
  BY OAuthAssumption
<1>4. now + AccessTTL \in Nat \ {0} /\ now + RefreshTTL \in Nat \ {0} /\ n \in 0..MaxPairs
  BY <1>3 DEF Pairs
<1>5. /\ t.access \in [Pairs -> Nat] /\ t.refresh \in [Pairs -> Nat]
      /\ t.accessToRefresh \in [Pairs -> 0..MaxPairs]
      /\ t.refreshToAccess \in [Pairs -> 0..MaxPairs]
  BY <1>1, <1>4, StoreFields
<1>6. t \in TokenStores
  BY <1>2, <1>5, StoreUpdated
<1>7. \A p \in Pairs \ {n} :
         /\ t.access[p] = s.access[p] /\ t.refresh[p] = s.refresh[p]
         /\ t.accessToRefresh[p] = s.accessToRefresh[p]
         /\ t.refreshToAccess[p] = s.refreshToAccess[p]
  BY <1>1, StoreFields
<1>8. /\ t.access[n] # 0 /\ t.refresh[n] # 0
      /\ t.accessToRefresh[n] = n /\ t.refreshToAccess[n] = n
  BY <1>1, <1>4, StoreFields
<1>9. SelfLinked(t)
  BY <1>7, <1>8 DEF SelfLinked
<1> QED BY <1>6, <1>7, <1>8, <1>9 DEF t

-----------------------------------------------------------------------------
(* The inductive invariant.                                                *)

\* Pairs are minted in order.
Minted == \A p \in Pairs : tokens.refresh[p] # 0 => p <= issued

\* Every pair goes back to an approval whose code is spent.
Grants ==
    \A p \in 1..issued :
        origin[p] \in Requests /\ "allow" \in told[origin[p]] /\ codes[origin[p]] = 0

\* What is stored of a request agrees with what its browser was told.
Consistent ==
    \A r \in Requests :
        /\ pending[r] # 0 => r \in asked /\ told[r] = {}
        /\ r \notin asked => told[r] = {}
        /\ codes[r] # 0 => told[r] = {"allow"}
        /\ told[r] \in {{}, {"allow"}, {"deny"}}
        /\ completed[r] # "none" => told[r] = {completed[r]}

OneHolder ==
    \A p, q \in Pairs :
        tokens.refresh[p] # 0 /\ tokens.refresh[q] # 0 /\ origin[p] = origin[q] => p = q

IndInv ==
    TypeOK /\ SelfLinked(tokens) /\ Minted /\ Grants /\ Consistent /\ OneHolder /\ PendingBounded

LEMMA UnexpiredIs ==
    ASSUME NEW d \in [Requests -> Nat]
    PROVE  /\ Unexpired(d) \in [Requests -> Nat]
           /\ \A r \in Requests : Unexpired(d)[r] \in {0, d[r]}
  BY DEF Unexpired

LEMMA RetryPruned ==
    ASSUME TypeOK
    PROVE  /\ PrunedRetry \in [Requests -> Nat]
           /\ PrunedCompleted \in [Requests -> Decisions \cup {"none"}]
           /\ \A r \in Requests : PrunedCompleted[r] \in {"none", completed[r]}
  BY UnexpiredIs DEF TypeOK, PrunedRetry, PrunedCompleted

\* Fewer keys are still few.
LEMMA KeysBounded ==
    ASSUME NEW d \in [Requests -> Nat], NEW e \in [Requests -> Nat],
           \A r \in Requests : e[r] \in {0, d[r]}
    PROVE  /\ Keys(e) \subseteq Keys(d)
           /\ IsFiniteSet(Keys(d)) /\ IsFiniteSet(Keys(e))
           /\ Cardinality(Keys(e)) \in Nat /\ Cardinality(Keys(d)) \in Nat
           /\ Cardinality(Keys(e)) <= Cardinality(Keys(d))
<1>1. Keys(e) \subseteq Keys(d) /\ Keys(d) \subseteq Requests
  BY DEF Keys
<1>2. IsFiniteSet(Keys(d))
  BY <1>1, OAuthAssumption, FS_Subset
<1> QED BY <1>1, <1>2, FS_Subset, FS_CardinalityType

\* A step that adds nothing and tells nothing new.
LEMMA QuietKeeps ==
    ASSUME IndInv,
           now' \in Nat, tokens' \in TokenStores, SelfLinked(tokens'), Shrinks(tokens, tokens'),
           pending' \in [Requests -> Nat], \A r \in Requests : pending'[r] \in {0, pending[r]},
           codes' \in [Requests -> Nat], \A r \in Requests : codes'[r] \in {0, codes[r]},
           retry' \in [Requests -> Nat],
           completed' \in [Requests -> Decisions \cup {"none"}],
           \A r \in Requests : completed'[r] \in {"none", completed[r]},
           UNCHANGED <<issued, asked, origin, told>>
    PROVE  IndInv'
<1>1. TypeOK'
  BY DEF IndInv, TypeOK
<1>2. Minted' /\ OneHolder'
  BY DEF IndInv, Minted, OneHolder, Shrinks
<1>3. Grants'
  BY DEF IndInv, Grants
<1>4. Consistent'
  BY DEF IndInv, Consistent
<1>5. PendingBounded'
  <2>1. /\ Cardinality(Keys(pending')) <= Cardinality(Keys(pending))
        /\ Cardinality(Keys(pending')) \in Nat /\ Cardinality(Keys(pending)) \in Nat
    BY KeysBounded DEF IndInv, TypeOK
  <2>2. Cardinality(Keys(pending)) <= MaxPending /\ MaxPending \in Nat
    BY OAuthAssumption DEF IndInv, PendingBounded
  <2>3. Cardinality(Keys(pending')) <= MaxPending
    BY <2>1, <2>2
  <2>4. PendingBounded' <=> Cardinality(Keys(pending')) <= MaxPending
    BY DEF PendingBounded, Keys
  <2> QED BY <2>3, <2>4
<1>6. SelfLinked(tokens)'
  BY DEF SelfLinked
<1> QED BY <1>1, <1>2, <1>3, <1>4, <1>5, <1>6 DEF IndInv

\* The pruned dictionaries, as each method finds them.
LEMMA Pruned ==
    ASSUME IndInv
    PROVE  /\ PrunedTokens \in TokenStores /\ SelfLinked(PrunedTokens)
           /\ Shrinks(tokens, PrunedTokens) /\ Whole(tokens, PrunedTokens)
           /\ Unexpired(pending) \in [Requests -> Nat]
           /\ \A r \in Requests : Unexpired(pending)[r] \in {0, pending[r]}
           /\ Unexpired(codes) \in [Requests -> Nat]
           /\ \A r \in Requests : Unexpired(codes)[r] \in {0, codes[r]}
           /\ PrunedRetry \in [Requests -> Nat]
           /\ PrunedCompleted \in [Requests -> Decisions \cup {"none"}]
           /\ \A r \in Requests : PrunedCompleted[r] \in {"none", completed[r]}
  BY PruneKeeps, UnexpiredIs, RetryPruned DEF IndInv, TypeOK

LEMMA PendingShrinks ==
    ASSUME IndInv, pending' = Unexpired(pending)
    PROVE  PendingBounded'
<1>1. /\ Cardinality(Keys(pending')) <= Cardinality(Keys(pending))
      /\ Cardinality(Keys(pending')) \in Nat /\ Cardinality(Keys(pending)) \in Nat
  BY Pruned, KeysBounded DEF IndInv, TypeOK
<1>2. Cardinality(Keys(pending)) <= MaxPending /\ MaxPending \in Nat
  BY OAuthAssumption DEF IndInv, PendingBounded
<1>3. Cardinality(Keys(pending')) <= MaxPending
  BY <1>1, <1>2
<1>4. PendingBounded' <=> Cardinality(Keys(pending')) <= MaxPending
  BY DEF PendingBounded, Keys
<1> QED BY <1>3, <1>4

LEMMA ShrinksReflexive == Shrinks(tokens, tokens) /\ Whole(tokens, tokens)
  BY DEF Shrinks, Whole

LEMMA AuthorizeKeeps ==
    ASSUME IndInv, NEW r \in Requests, Authorize(r)
    PROVE  IndInv'
<1>1. PendingTTL \in Nat \ {0} /\ MaxPending \in Nat
  BY OAuthAssumption
<1>2. now + PendingTTL \in Nat \ {0}
  BY <1>1 DEF IndInv, TypeOK
<1>3. /\ pending' = [Unexpired(pending) EXCEPT ![r] = now + PendingTTL]
      /\ pending' \in [Requests -> Nat]
      /\ pending'[r] # 0
      /\ \A q \in Requests \ {r} : pending'[q] = Unexpired(pending)[q]
  BY <1>2, Pruned DEF Authorize
<1>4. /\ codes' = Unexpired(codes) /\ tokens' = PrunedTokens /\ asked' = asked \cup {r}
      /\ r \notin asked /\ UNCHANGED <<now, completed, retry, issued, origin, told>>
  BY DEF Authorize
<1>5. TypeOK'
  BY <1>3, <1>4, Pruned DEF IndInv, TypeOK
<1>6. SelfLinked(tokens)'
  BY <1>4, Pruned DEF SelfLinked
<1>7. Minted' /\ OneHolder'
  BY <1>4, Pruned DEF IndInv, Minted, OneHolder, Shrinks
<1>8. Grants'
  BY <1>4, Pruned DEF IndInv, Grants
<1>9. Consistent'
  <2> SUFFICES ASSUME NEW q \in Requests
               PROVE  /\ pending'[q] # 0 => q \in asked' /\ told'[q] = {}
                      /\ q \notin asked' => told'[q] = {}
                      /\ codes'[q] # 0 => told'[q] = {"allow"}
                      /\ told'[q] \in {{}, {"allow"}, {"deny"}}
                      /\ completed'[q] # "none" => told'[q] = {completed'[q]}
    BY DEF Consistent
  <2>1. told' = told /\ completed' = completed /\ codes'[q] \in {0, codes[q]}
    BY <1>4, Pruned
  <2>2. CASE q = r
    BY <1>4, <2>1, <2>2 DEF IndInv, Consistent
  <2>3. CASE q # r
    <3>1. pending'[q] \in {0, pending[q]}
      BY <1>3, <2>3, Pruned
    <3> QED BY <1>4, <2>1, <3>1 DEF IndInv, Consistent
  <2> QED BY <2>2, <2>3
<1>10. PendingBounded'
  <2> DEFINE K == Keys(Unexpired(pending))
  <2>1. IsFiniteSet(K) /\ Cardinality(K) \in Nat /\ K \subseteq Requests
    BY Pruned, KeysBounded DEF IndInv, TypeOK, Keys
  <2>2. Cardinality(K) < MaxPending
    BY DEF Authorize, HasRoom
  <2>3. Keys(pending') = K \cup {r}
    BY <1>3, Pruned DEF Keys
  <2>a. r \notin K
    BY <1>4, Pruned DEF IndInv, Consistent, Keys
  <2> HIDE DEF K
  <2>4. Cardinality(K \cup {r}) = Cardinality(K) + 1
    BY <2>1, <2>a, FS_AddElement
  <2>5. Cardinality(Keys(pending')) <= MaxPending
    BY <1>1, <2>1, <2>2, <2>3, <2>4
  <2>6. PendingBounded' <=> Cardinality(Keys(pending')) <= MaxPending
    BY DEF PendingBounded, Keys
  <2> QED BY <2>5, <2>6
<1> QED BY <1>5, <1>6, <1>7, <1>8, <1>9, <1>10 DEF IndInv

LEMMA RepeatKeeps ==
    ASSUME IndInv, NEW r \in Requests, NEW d \in Decisions, Repeat(r, d)
    PROVE  IndInv'
<1>1. told[r] = {d}
  BY DEF IndInv, Consistent, Repeat, Cached, Decisions
<1>2. told' = told
  BY <1>1 DEF IndInv, TypeOK, Repeat
<1>3. /\ retry' = PrunedRetry /\ completed' = PrunedCompleted
      /\ UNCHANGED <<now, pending, codes, tokens, issued, asked, origin>>
  BY DEF Repeat
<1>4. /\ tokens' \in TokenStores /\ SelfLinked(tokens') /\ Shrinks(tokens, tokens')
      /\ now' \in Nat /\ pending' \in [Requests -> Nat] /\ codes' \in [Requests -> Nat]
  BY <1>3, ShrinksReflexive DEF IndInv, TypeOK
<1> QED BY <1>2, <1>3, <1>4, Pruned, QuietKeeps

LEMMA DecideKeeps ==
    ASSUME IndInv, NEW r \in Requests, NEW d \in Decisions, Decide(r, d)
    PROVE  IndInv'
<1>1. CodeTTL \in Nat \ {0} /\ RetryTTL \in Nat \ {0}
  BY OAuthAssumption
<1>2. /\ pending[r] # 0 /\ told[r] = {} /\ codes[r] = 0 /\ r \in asked
  <2>1. Unexpired(pending)[r] # 0
    BY DEF Decide, Keys
  <2> QED BY <2>1, Pruned DEF IndInv, Consistent
<1>3. /\ pending' \in [Requests -> Nat] /\ pending'[r] = 0
      /\ \A q \in Requests : pending'[q] \in {0, pending[q]}
  BY Pruned DEF Decide, Consumed
<1>4. /\ codes' \in [Requests -> Nat]
      /\ \A q \in Requests \ {r} : codes'[q] \in {0, codes[q]}
      /\ codes'[r] # 0 => d = "allow"
  <2>1. now + CodeTTL \in Nat
    BY <1>1 DEF IndInv, TypeOK
  <2>2. CASE d = "allow"
    <3>1. codes' = [Unexpired(codes) EXCEPT ![r] = now + CodeTTL]
      BY <2>2 DEF Decide
    <3> QED BY <2>1, <2>2, <3>1, Pruned
  <2>3. CASE d # "allow"
    <3>1. codes' = Unexpired(codes)
      BY <2>3 DEF Decide
    <3> QED BY <1>2, <3>1, Pruned
  <2> QED BY <2>2, <2>3
<1>5. /\ completed' \in [Requests -> Decisions \cup {"none"}]
      /\ completed'[r] = d
      /\ \A q \in Requests \ {r} : completed'[q] \in {"none", completed[q]}
  BY Pruned DEF Decide
<1>6. retry' \in [Requests -> Nat]
  <2>1. now + RetryTTL \in Nat
    BY <1>1 DEF IndInv, TypeOK
  <2> QED BY <2>1, Pruned DEF Decide
<1>7. /\ told' \in [Requests -> SUBSET Decisions]
      /\ told'[r] = {d}
      /\ \A q \in Requests \ {r} : told'[q] = told[q]
  BY <1>2 DEF Decide, IndInv, TypeOK
<1>8. tokens' = PrunedTokens /\ UNCHANGED <<now, issued, asked, origin>>
  BY DEF Decide
<1>9. TypeOK'
  BY <1>3, <1>4, <1>5, <1>6, <1>7, <1>8, Pruned DEF IndInv, TypeOK
<1>10. SelfLinked(tokens)' /\ Minted' /\ OneHolder'
  BY <1>8, Pruned DEF IndInv, SelfLinked, Minted, OneHolder, Shrinks
<1>11. Grants'
  <2>1. \A p \in 1..issued : origin[p] # r
    BY <1>2 DEF IndInv, Grants
  <2> QED BY <2>1, <1>4, <1>7, <1>8 DEF IndInv, Grants
<1>12. Consistent'
  <2> SUFFICES ASSUME NEW q \in Requests
               PROVE  /\ pending'[q] # 0 => q \in asked' /\ told'[q] = {}
                      /\ q \notin asked' => told'[q] = {}
                      /\ codes'[q] # 0 => told'[q] = {"allow"}
                      /\ told'[q] \in {{}, {"allow"}, {"deny"}}
                      /\ completed'[q] # "none" => told'[q] = {completed'[q]}
    BY DEF Consistent
  <2>1. CASE q = r
    BY <1>2, <1>3, <1>4, <1>5, <1>7, <1>8, <2>1 DEF Decisions
  <2>2. CASE q # r
    BY <1>3, <1>4, <1>5, <1>7, <1>8, <2>2 DEF IndInv, Consistent
  <2> QED BY <2>1, <2>2
<1>13. PendingBounded'
  <2>1. /\ Cardinality(Keys(pending')) <= Cardinality(Keys(pending))
        /\ Cardinality(Keys(pending')) \in Nat /\ Cardinality(Keys(pending)) \in Nat
    BY <1>3, KeysBounded DEF IndInv, TypeOK
  <2>2. Cardinality(Keys(pending)) <= MaxPending /\ MaxPending \in Nat
    BY OAuthAssumption DEF IndInv, PendingBounded
  <2>3. Cardinality(Keys(pending')) <= MaxPending
    BY <2>1, <2>2
  <2>4. PendingBounded' <=> Cardinality(Keys(pending')) <= MaxPending
    BY DEF PendingBounded, Keys
  <2> QED BY <2>3, <2>4
<1> QED BY <1>9, <1>10, <1>11, <1>12, <1>13 DEF IndInv

LEMMA ExchangeCodeKeeps ==
    ASSUME IndInv, NEW r \in Requests, ExchangeCode(r)
    PROVE  IndInv'
<1> DEFINE n == issued + 1
<1>1. n \in Pairs /\ n \in 0..MaxPairs /\ issued \in Nat
  BY OAuthAssumption DEF ExchangeCode, IndInv, TypeOK, Pairs
<1>2. codes[r] # 0 /\ told[r] = {"allow"}
  <2>1. Unexpired(codes)[r] # 0
    BY DEF ExchangeCode, Keys
  <2> QED BY <2>1, Pruned DEF IndInv, Consistent
<1>3. /\ codes' \in [Requests -> Nat] /\ codes'[r] = 0
      /\ \A q \in Requests : codes'[q] \in {0, codes[q]}
  BY Pruned DEF ExchangeCode, Spent
<1>4. /\ issued' = n /\ tokens' = Mint(PrunedTokens, n)
      /\ origin' = [origin EXCEPT ![n] = r]
      /\ pending' = Unexpired(pending)
      /\ UNCHANGED <<now, completed, retry, asked, told>>
  BY DEF ExchangeCode
<1> HIDE DEF n
<1>5. /\ tokens' \in TokenStores /\ SelfLinked(tokens')
      /\ \A p \in Pairs \ {n} : tokens'.refresh[p] # 0 => tokens.refresh[p] # 0
  BY <1>1, <1>4, Pruned, MintKeeps DEF IndInv, TypeOK, Shrinks
<1>6. /\ origin' \in [Pairs -> Requests \cup {"none"}]
      /\ origin'[n] = r /\ \A p \in Pairs \ {n} : origin'[p] = origin[p]
  BY <1>1, <1>4 DEF IndInv, TypeOK
<1>7. TypeOK'
  BY <1>1, <1>3, <1>4, <1>5, <1>6, Pruned DEF IndInv, TypeOK
<1>8. SelfLinked(tokens)'
  BY <1>5 DEF SelfLinked
<1>9. \A p \in Pairs \ {n} : tokens'.refresh[p] # 0 => p \in 1..issued /\ origin[p] # r
  BY <1>1, <1>2, <1>5 DEF IndInv, Minted, Grants, Pairs
<1>10. Minted'
  BY <1>1, <1>4, <1>9 DEF Minted, n
<1>11. OneHolder'
  BY <1>5, <1>6, <1>9 DEF IndInv, OneHolder
<1>12. Grants'
  <2>1. \A p \in 1..issued' : p = n \/ p \in 1..issued
    BY <1>1, <1>4 DEF n
  <2>2. \A p \in 1..issued : p \in Pairs \ {n}
    BY <1>1, OAuthAssumption DEF n, Pairs
  <2> QED BY <1>2, <1>3, <1>4, <1>6, <2>1, <2>2 DEF IndInv, Grants
<1>13. Consistent'
  BY <1>3, <1>4, Pruned DEF IndInv, Consistent
<1>14. PendingBounded'
  BY <1>4, PendingShrinks
<1> QED BY <1>7, <1>8, <1>10, <1>11, <1>12, <1>13, <1>14 DEF IndInv

LEMMA ExchangeRefreshKeeps ==
    ASSUME IndInv, NEW old \in Pairs, ExchangeRefresh(old)
    PROVE  IndInv'
<1> DEFINE n == issued + 1
           s == RevokeRefresh(PrunedTokens, old)
<1>1. n \in Pairs /\ n \in 0..MaxPairs /\ issued \in Nat
  BY OAuthAssumption DEF ExchangeRefresh, IndInv, TypeOK, Pairs
<1>2. PrunedTokens.refresh[old] # 0
  BY DEF ExchangeRefresh, Keys
<1>3. tokens.refresh[old] # 0 /\ old \in 1..issued
  BY <1>1, <1>2, Pruned DEF Shrinks, IndInv, Minted, Pairs
<1>4. /\ issued' = n /\ tokens' = Mint(s, n)
      /\ origin' = [origin EXCEPT ![n] = origin[old]]
      /\ pending' = Unexpired(pending) /\ codes' = Unexpired(codes)
      /\ UNCHANGED <<now, completed, retry, asked, told>>
  BY DEF ExchangeRefresh
<1>5. s = Without(PrunedTokens, {old})
  BY <1>2, Pruned, RevokeRefreshIs
<1> HIDE DEF n, s
<1>6. /\ s \in TokenStores /\ SelfLinked(s) /\ Shrinks(PrunedTokens, s)
      /\ s.refresh[old] = 0
  BY <1>5, Pruned, WithoutKeeps
<1>7. /\ tokens' \in TokenStores /\ SelfLinked(tokens')
      /\ \A p \in Pairs \ {n} : tokens'.refresh[p] = s.refresh[p]
  BY <1>1, <1>4, <1>6, MintKeeps DEF IndInv, TypeOK
<1>8. \A p \in Pairs \ {n} : tokens'.refresh[p] # 0 => tokens.refresh[p] # 0 /\ p # old
  BY <1>6, <1>7, Pruned DEF Shrinks
<1>9. /\ origin' \in [Pairs -> Requests \cup {"none"}]
      /\ origin'[n] = origin[old] /\ \A p \in Pairs \ {n} : origin'[p] = origin[p]
  BY <1>1, <1>4 DEF IndInv, TypeOK
<1>10. TypeOK'
  BY <1>1, <1>4, <1>7, <1>9, Pruned DEF IndInv, TypeOK
<1>11. SelfLinked(tokens)'
  BY <1>7 DEF SelfLinked
<1>12. \A p \in Pairs \ {n} : tokens'.refresh[p] # 0 => p <= issued /\ origin[p] # origin[old]
  BY <1>3, <1>8 DEF IndInv, Minted, OneHolder
<1>13. Minted'
  <2>1. \A p \in Pairs : p <= issued => p <= n
    BY <1>1 DEF n, Pairs
  <2> QED BY <1>1, <1>4, <1>12, <2>1 DEF Minted, Pairs
<1>14. OneHolder'
  BY <1>8, <1>9, <1>12 DEF IndInv, OneHolder
<1>15. Grants'
  <2>1. \A p \in 1..issued' : p = n \/ p \in 1..issued
    BY <1>1, <1>4 DEF n
  <2>2. \A p \in 1..issued : p \in Pairs \ {n}
    BY <1>1, OAuthAssumption DEF n, Pairs
  <2> QED BY <1>3, <1>4, <1>9, <2>1, <2>2, Pruned DEF IndInv, Grants
<1>16. Consistent'
  BY <1>4, Pruned DEF IndInv, Consistent
<1>17. PendingBounded'
  BY <1>4, PendingShrinks
<1> QED BY <1>10, <1>11, <1>13, <1>14, <1>15, <1>16, <1>17 DEF IndInv

LEMMA RevokeIs ==
    ASSUME IndInv, NEW p \in Pairs, Revoke(p)
    PROVE  tokens' = Without(PrunedTokens, {p})
<1>1. CASE p \in Keys(PrunedTokens.access) /\ tokens' = RevokeAccess(PrunedTokens, p)
  BY <1>1, Pruned, RevokeAccessIs DEF Keys
<1>2. CASE p \in Keys(PrunedTokens.refresh) /\ tokens' = RevokeRefresh(PrunedTokens, p)
  BY <1>2, Pruned, RevokeRefreshIs DEF Keys
<1> QED BY <1>1, <1>2 DEF Revoke

\* The steps that only remove: pruning, pages, revocation, restarts, the clock.
LEMMA RemovalKeeps ==
    ASSUME IndInv,
           \/ Prune
           \/ \E r \in Requests : Look(r)
           \/ \E p \in Pairs : Revoke(p)
           \/ Restart \/ Tick
           \/ UNCHANGED vars
    PROVE  IndInv'
<1> USE Pruned
<1>1. CASE Prune
  BY <1>1, QuietKeeps DEF Prune, IndInv, TypeOK
<1>2. ASSUME NEW r \in Requests, Look(r) PROVE IndInv'
  BY <1>2, QuietKeeps DEF Look, IndInv, TypeOK
<1>3. ASSUME NEW p \in Pairs, Revoke(p) PROVE IndInv'
  <2>a. tokens' = Without(PrunedTokens, {p})
    BY <1>3, RevokeIs
  <2>b. /\ Without(PrunedTokens, {p}) \in TokenStores
        /\ SelfLinked(Without(PrunedTokens, {p}))
        /\ Shrinks(PrunedTokens, Without(PrunedTokens, {p}))
    <3>1. {p} \in SUBSET Pairs
      BY <1>3
    <3> QED BY <3>1, WithoutKeeps
  <2>1. /\ tokens' \in TokenStores /\ SelfLinked(tokens')
        /\ Shrinks(PrunedTokens, tokens')
    BY <2>a, <2>b
  <2>2. Shrinks(tokens, tokens')
    BY <2>1 DEF Shrinks
  <2> QED BY <1>3, <2>1, <2>2, QuietKeeps DEF Revoke, IndInv, TypeOK
<1>4. CASE Restart
  <2>1. /\ tokens' = NoTokens /\ pending' = NoEntry /\ codes' = NoEntry /\ retry' = NoEntry
        /\ completed' = NoDecision /\ UNCHANGED <<now, issued, asked, origin, told>>
    BY <1>4 DEF Restart
  <2>2. NoTokens \in TokenStores /\ SelfLinked(NoTokens) /\ Shrinks(tokens, NoTokens)
    BY OAuthAssumption DEF NoTokens, NoToken, TokenStores, SelfLinked, Shrinks
  <2>3. /\ NoEntry \in [Requests -> Nat] /\ \A r \in Requests : NoEntry[r] = 0
        /\ NoDecision \in [Requests -> Decisions \cup {"none"}]
        /\ \A r \in Requests : NoDecision[r] = "none"
    BY DEF NoEntry, NoDecision
  <2>4. now' \in Nat
    BY <2>1 DEF IndInv, TypeOK
  <2> QED BY <2>1, <2>2, <2>3, <2>4, QuietKeeps
<1>5. CASE Tick \/ UNCHANGED vars
  <2>1. UNCHANGED <<pending, codes, completed, retry, tokens, issued, asked, origin, told>>
        /\ now' \in Nat
    BY <1>5 DEF Tick, vars, IndInv, TypeOK
  <2> QED BY <2>1, ShrinksReflexive, QuietKeeps DEF IndInv, TypeOK
<1> QED BY <1>1, <1>2, <1>3, <1>4, <1>5

LEMMA NextKeeps ==
    ASSUME IndInv, [Next]_vars
    PROVE  IndInv'
<1>1. ASSUME NEW r \in Requests, Authorize(r) \/ ExchangeCode(r) PROVE IndInv'
  BY <1>1, AuthorizeKeeps, ExchangeCodeKeeps
<1>2. ASSUME NEW r \in Requests, NEW d \in Decisions, Repeat(r, d) \/ Decide(r, d)
      PROVE  IndInv'
  BY <1>2, RepeatKeeps, DecideKeeps
<1>3. ASSUME NEW p \in Pairs, ExchangeRefresh(p) PROVE IndInv'
  BY <1>3, ExchangeRefreshKeeps
<1> QED BY <1>1, <1>2, <1>3, RemovalKeeps DEF Next

LEMMA InitEstablishes ==
    ASSUME Init
    PROVE  IndInv
<1> USE OAuthAssumption
<1>1. NoTokens \in TokenStores /\ SelfLinked(NoTokens) /\ \A p \in Pairs : NoTokens.refresh[p] = 0
  BY DEF NoTokens, NoToken, TokenStores, SelfLinked
<1>2. TypeOK
  BY <1>1 DEF Init, TypeOK, NoEntry, NoDecision
<1>3. Keys(pending) = {} /\ Cardinality({}) = 0
  BY FS_EmptySet DEF Init, NoEntry, Keys
<1>4. PendingBounded
  BY <1>3 DEF PendingBounded
<1>5. Minted /\ OneHolder /\ Grants /\ SelfLinked(tokens)
  BY <1>1 DEF Init, Minted, OneHolder, Grants
<1>6. Consistent
  BY DEF Init, NoEntry, NoDecision, Consistent
<1> QED BY <1>2, <1>4, <1>5, <1>6 DEF IndInv

LEMMA Inductive == Spec => []IndInv
<1>1. Init => IndInv
  BY InitEstablishes
<1>2. IndInv /\ [Next]_vars => IndInv'
  BY NextKeeps
<1> QED BY <1>1, <1>2, PTL DEF Spec

-----------------------------------------------------------------------------
\* Every dictionary keeps its type.
THEOREM TypeCorrect == Spec => []TypeOK
<1>1. IndInv => TypeOK
  BY DEF IndInv
<1> QED BY <1>1, Inductive, PTL

\* The link dictionaries always join exactly the live tokens of a pair, through
\* minting, rotation, revocation and both kinds of expiry.
THEOREM LinksAreSound == Spec => []PairsLinked
<1>1. ASSUME IndInv PROVE PairsLinked
  <2>1. /\ DOMAIN tokens.access = Pairs /\ DOMAIN tokens.refresh = Pairs
        /\ SelfLinked(tokens)
    BY <1>1, StoreFields DEF IndInv, TypeOK
  <2>2. \A p \in Pairs : /\ p \in Keys(tokens.access) <=> tokens.access[p] # 0
                         /\ p \in Keys(tokens.refresh) <=> tokens.refresh[p] # 0
    BY <2>1 DEF Keys
  <2>3. Keys(tokens.access) \subseteq Pairs /\ Keys(tokens.refresh) \subseteq Pairs
    BY <2>1 DEF Keys
  <2> QED BY <2>1, <2>2, <2>3 DEF PairsLinked, Linked, SelfLinked
<1> QED BY <1>1, Inductive, PTL

\* No approval is ever held by two pairs, or by a code and a pair: codes are
\* single-use, and rotation leaves nothing of the old pair.
THEOREM GrantHasOneHolder == Spec => []OneGrantOneHolder
<1>1. ASSUME IndInv PROVE OneGrantOneHolder
  <2> DEFINE Held == Keys(tokens.refresh) \cup Keys(tokens.access)
  <2>1. Held \subseteq Pairs /\ \A p \in Held : tokens.refresh[p] # 0
    BY <1>1, StoreFields DEF IndInv, TypeOK, Keys, SelfLinked
  <2> HIDE DEF Held
  <2>2. \A p \in Held : p \in 1..issued
    <3>1. issued \in Nat /\ \A p \in Held : p <= issued
      BY <1>1, <2>1 DEF IndInv, Minted, TypeOK
    <3>2. \A p \in Pairs : p \in Nat /\ p >= 1
      BY OAuthAssumption DEF Pairs
    <3> QED BY <2>1, <3>1, <3>2
  <2>3. \A p \in Held : origin[p] \in Requests \ Keys(codes)
    BY <1>1, <2>2 DEF IndInv, Grants, Keys
  <2>4. \A p, q \in Held : origin[q] = origin[p] => q = p
    BY <1>1, <2>1 DEF IndInv, OneHolder
  <2> QED BY <2>3, <2>4 DEF OneGrantOneHolder, Held
<1> QED BY <1>1, Inductive, PTL

\* A denied request never yields a code or a token.
THEOREM DenialStaysFinal == Spec => []DenialIsFinal
<1>1. ASSUME IndInv, NEW r \in Requests, "deny" \in told[r]
      PROVE  told[r] = {"deny"} /\ codes[r] = 0 /\ \A p \in 1..issued : origin[p] # r
  BY <1>1 DEF IndInv, Consistent, Grants
<1>2. IndInv => DenialIsFinal
  BY <1>1 DEF DenialIsFinal
<1> QED BY <1>2, Inductive, PTL

\* At most MAX_PENDING_AUTHORIZATIONS requests wait for a decision.
THEOREM PendingStaysBounded == Spec => []PendingBounded
<1>1. IndInv => PendingBounded
  BY DEF IndInv
<1> QED BY <1>1, Inductive, PTL

\* Whatever ends an unexpired access token ends its refresh token with it, and
\* whatever ends a refresh token ends its access token.
THEOREM RevocationStaysWhole == Spec => RevocationIsWhole
<1> DEFINE WholeStep == \A p \in Keys(tokens.access) :
              /\ tokens'.access[p] = 0 /\ tokens'.refresh[p] # 0 => tokens.access[p] < now
              /\ tokens'.refresh[p] = 0 => tokens'.access[p] = 0
<1>1. ASSUME IndInv, [Next]_vars PROVE Whole(tokens, tokens')
  <2> USE Pruned
  <2>1. ASSUME NEW r \in Requests, Authorize(r) \/ Look(r) PROVE Whole(tokens, tokens')
    BY <1>1, <2>1 DEF Authorize, Look
  <2>2. ASSUME NEW r \in Requests, NEW d \in Decisions, Repeat(r, d) \/ Decide(r, d)
        PROVE  Whole(tokens, tokens')
    BY <1>1, <2>2, ShrinksReflexive DEF Repeat, Decide
  <2>3. ASSUME NEW s \in TokenStores, SelfLinked(s), Whole(tokens, s), Shrinks(tokens, s),
               issued < MaxPairs, tokens' = Mint(s, issued + 1)
        PROVE  Whole(tokens, tokens')
    <3>1. issued + 1 \in Pairs /\ now \in Nat /\ tokens.access[issued + 1] = 0
      BY <1>1, <2>3, OAuthAssumption DEF IndInv, TypeOK, Minted, SelfLinked, Pairs
    <3>2. \A p \in Pairs \ {issued + 1} : /\ tokens'.access[p] = s.access[p]
                                          /\ tokens'.refresh[p] = s.refresh[p]
      BY <2>3, <3>1, MintKeeps
    <3> QED BY <2>3, <3>1, <3>2 DEF Whole
  <2>4. ASSUME NEW r \in Requests, ExchangeCode(r) PROVE Whole(tokens, tokens')
    BY <1>1, <2>3, <2>4 DEF ExchangeCode
  <2>5. ASSUME NEW p \in Pairs
        PROVE  Whole(tokens, Without(PrunedTokens, {p})) /\ Shrinks(tokens, Without(PrunedTokens, {p}))
    BY <1>1, WithoutKeeps DEF Whole, Shrinks
  <2>6. ASSUME NEW p \in Pairs, ExchangeRefresh(p) PROVE Whole(tokens, tokens')
    <3>1. RevokeRefresh(PrunedTokens, p) = Without(PrunedTokens, {p})
      BY <1>1, <2>6, RevokeRefreshIs DEF ExchangeRefresh, Keys
    <3>2. Without(PrunedTokens, {p}) \in TokenStores /\ SelfLinked(Without(PrunedTokens, {p}))
      BY <1>1, WithoutKeeps
    <3> QED BY <2>3, <2>5, <2>6, <3>1, <3>2 DEF ExchangeRefresh
  <2>7. ASSUME NEW p \in Pairs, Revoke(p) PROVE Whole(tokens, tokens')
    BY <1>1, <2>5, <2>7, RevokeIs
  <2>8. CASE Prune \/ Tick \/ UNCHANGED vars
    BY <1>1, <2>8, ShrinksReflexive DEF Prune, Tick, vars
  <2>9. CASE Restart
    BY <2>9 DEF Restart, NoTokens, NoToken, Whole
  <2> QED BY <1>1, <2>1, <2>2, <2>4, <2>6, <2>7, <2>8, <2>9 DEF Next
<1>2. ASSUME IndInv, [Next]_vars PROVE WholeStep
  <2>1. Keys(tokens.access) = {p \in Pairs : tokens.access[p] # 0}
    BY <1>2, StoreFields DEF IndInv, TypeOK, Keys
  <2>2. SelfLinked(tokens)'
    BY <1>2, NextKeeps DEF IndInv
  <2>3. \A p \in Pairs : tokens'.refresh[p] = 0 => tokens'.access[p] = 0
    BY <2>2 DEF SelfLinked
  <2> QED BY <1>1, <1>2, <2>1, <2>3 DEF Whole
<1>3. IndInv /\ [Next]_vars => [WholeStep]_vars
  BY <1>2
<1> QED BY <1>3, Inductive, PTL DEF Spec, RevocationIsWhole

=============================================================================
