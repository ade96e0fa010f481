---------------------------- MODULE OAuthProvider ----------------------------
(***************************************************************************)
(* The in-memory OAuth provider (oauth.py) with its retry-safe consent     *)
(* (oauth_consent.py): pending authorizations, one-time codes, rotating    *)
(* token pairs, their links, and lazy expiry.                              *)
(*                                                                         *)
(* No method of the provider awaits anything, so each is one step of the   *)
(* event loop; what may happen between two of them (the browser's form,    *)
(* the SDK's load before an exchange, a restart of the bridge) is covered  *)
(* by taking every request at any time.  A dictionary of expiring entries  *)
(* is a function to the entry's last valid tick, and 0 where there is no   *)
(* entry.  Identifiers are random in the code and fresh here: a code is    *)
(* named by its request, the n-th pair minted is access token n and        *)
(* refresh token n.  The one client, scope and resource are implicit.      *)
(***************************************************************************)
EXTENDS Naturals, FiniteSets

CONSTANTS
    Requests,    \* identifiers of authorization requests
    MaxPairs,    \* bound on the token pairs minted
    MaxTime,     \* bound on the clock
    MaxPending,  \* MAX_PENDING_AUTHORIZATIONS
    PendingTTL, CodeTTL, RetryTTL, AccessTTL, RefreshTTL  \* lifetimes, in ticks

ASSUME OAuthAssumption ==
    /\ IsFiniteSet(Requests)
    /\ MaxPairs \in Nat /\ MaxTime \in Nat /\ MaxPending \in Nat \ {0}
    /\ \A ttl \in {PendingTTL, CodeTTL, RetryTTL, AccessTTL, RefreshTTL} : ttl \in Nat \ {0}

Pairs == 1..MaxPairs
Decisions == {"allow", "deny"}

VARIABLES
    now,        \* the clock
    pending,    \* _pending: expiry of each request
    codes,      \* _codes: expiry of the code of each request
    completed,  \* _completed_consent: the decision of each request
    retry,      \* _completed_consent: expiry of each request
    tokens,     \* the four dictionaries of tokens and links
    issued,     \* number of pairs minted
    asked,      \* the request identifiers handed out
    origin,     \* history: the request behind each pair
    told        \* history: the decisions a browser was redirected with

vars == <<now, pending, codes, completed, retry, tokens, issued, asked, origin, told>>

\* access and refresh hold expiries; accessToRefresh and refreshToAccess the
\* partner, 0 where there is none.
TokenStores ==
    [access : [Pairs -> Nat], refresh : [Pairs -> Nat],
     accessToRefresh : [Pairs -> 0..MaxPairs], refreshToAccess : [Pairs -> 0..MaxPairs]]

TypeOK ==
    /\ now \in Nat
    /\ pending \in [Requests -> Nat]
    /\ codes \in [Requests -> Nat]
    /\ completed \in [Requests -> Decisions \cup {"none"}]
    /\ retry \in [Requests -> Nat]
    /\ tokens \in TokenStores
    /\ issued \in 0..MaxPairs
    /\ asked \subseteq Requests
    /\ origin \in [Pairs -> Requests \cup {"none"}]
    /\ told \in [Requests -> SUBSET Decisions]

-----------------------------------------------------------------------------
(* The dictionaries.                                                       *)

\* The keys of a dictionary.
Keys(d) == {k \in DOMAIN d : d[k] # 0}

\* The entries of d that have not expired.
Unexpired(d) == [k \in DOMAIN d |-> IF d[k] >= now THEN d[k] ELSE 0]

\* Fault: the refresh token survives its revoked access token.
RevokeAccessAlone(s, a) ==
    [s EXCEPT !.access = [@ EXCEPT ![a] = 0],
              !.accessToRefresh = [@ EXCEPT ![a] = 0],
              !.refreshToAccess = [r \in Pairs |-> IF r = s.accessToRefresh[a] THEN 0 ELSE @[r]]]

\* _revoke_access: the token, its link, and the refresh token linked to it.
RevokeAccess(s, a) ==
    [s EXCEPT !.access = [@ EXCEPT ![a] = 0],
              !.accessToRefresh = [@ EXCEPT ![a] = 0],
              !.refreshToAccess = [r \in Pairs |-> IF r = s.accessToRefresh[a] THEN 0 ELSE @[r]],
              !.refresh = [r \in Pairs |-> IF r = s.accessToRefresh[a] THEN 0 ELSE @[r]]]

\* _revoke_refresh: the token, its link, and the access token linked to it.
RevokeRefresh(s, r) ==
    [s EXCEPT !.refresh = [@ EXCEPT ![r] = 0],
              !.refreshToAccess = [@ EXCEPT ![r] = 0],
              !.accessToRefresh = [a \in Pairs |-> IF a = s.refreshToAccess[r] THEN 0 ELSE @[a]],
              !.access = [a \in Pairs |-> IF a = s.refreshToAccess[r] THEN 0 ELSE @[a]]]

\* Fault: an expired access token leaves its refresh token's link behind.
ExpireAccessLeavingLink(s) ==
    LET gone == {a \in Keys(s.access) : s.access[a] < now}
    IN  [s EXCEPT !.access = [a \in Pairs |-> IF a \in gone THEN 0 ELSE @[a]],
                  !.accessToRefresh = [a \in Pairs |-> IF a \in gone THEN 0 ELSE @[a]]]

\* The first loop of _prune: an expired access token goes alone, and its refresh
\* token is left without a partner.
ExpireAccess(s) ==
    LET gone == {a \in Keys(s.access) : s.access[a] < now}
    IN  [s EXCEPT !.access = [a \in Pairs |-> IF a \in gone THEN 0 ELSE @[a]],
                  !.accessToRefresh = [a \in Pairs |-> IF a \in gone THEN 0 ELSE @[a]],
                  !.refreshToAccess =
                      [r \in Pairs |-> IF \E a \in gone : s.accessToRefresh[a] = r THEN 0 ELSE @[r]]]

\* The second loop of _prune: an expired refresh token takes its partner along.
ExpireRefresh(s) ==
    LET gone == {r \in Keys(s.refresh) : s.refresh[r] < now}
        linked == {s.refreshToAccess[r] : r \in gone}
    IN  [s EXCEPT !.refresh = [r \in Pairs |-> IF r \in gone THEN 0 ELSE @[r]],
                  !.refreshToAccess = [r \in Pairs |-> IF r \in gone THEN 0 ELSE @[r]],
                  !.accessToRefresh = [a \in Pairs |-> IF a \in linked THEN 0 ELSE @[a]],
                  !.access = [a \in Pairs |-> IF a \in linked THEN 0 ELSE @[a]]]

PrunedTokens == ExpireRefresh(ExpireAccess(tokens))

\* Fault: the links are made with a token generated anew.
MintCrossed(s, n) ==
    [s EXCEPT !.access = [@ EXCEPT ![n] = now + AccessTTL],
              !.refresh = [@ EXCEPT ![n] = now + RefreshTTL],
              !.accessToRefresh = [@ EXCEPT ![n] = n + 1],
              !.refreshToAccess = [@ EXCEPT ![n] = n]]

\* _mint_token_pair: the pair n, linked both ways.
Mint(s, n) ==
    [s EXCEPT !.access = [@ EXCEPT ![n] = now + AccessTTL],
              !.refresh = [@ EXCEPT ![n] = now + RefreshTTL],
              !.accessToRefresh = [@ EXCEPT ![n] = n],
              !.refreshToAccess = [@ EXCEPT ![n] = n]]

NoEntry == [r \in Requests |-> 0]
NoToken == [p \in Pairs |-> 0]

NoDecision == [r \in Requests |-> "none"]
NoTokens == [access |-> NoToken, refresh |-> NoToken,
             accessToRefresh |-> NoToken, refreshToAccess |-> NoToken]

Init ==
    /\ now = 1
    /\ pending = NoEntry
    /\ codes = NoEntry
    /\ completed = NoDecision
    /\ retry = NoEntry
    /\ tokens = NoTokens
    /\ issued = 0
    /\ asked = {}
    /\ origin = [p \in Pairs |-> "none"]
    /\ told = [r \in Requests |-> {}]

-----------------------------------------------------------------------------
(* The methods.                                                            *)

\* _prune and nothing else: a load of a code or token, and every call of the
\* token and authorization endpoints that is refused after pruning.
Prune ==
    /\ pending' = Unexpired(pending)
    /\ codes' = Unexpired(codes)
    /\ tokens' = PrunedTokens
    /\ UNCHANGED <<now, completed, retry, issued, asked, origin, told>>

HasRoom == Cardinality(Keys(Unexpired(pending))) < MaxPending

\* authorize: a new pending request, unless there are too many.
Authorize(r) ==
    /\ r \notin asked
    /\ HasRoom
    /\ pending' = [Unexpired(pending) EXCEPT ![r] = now + PendingTTL]
    /\ codes' = Unexpired(codes)
    /\ tokens' = PrunedTokens
    /\ asked' = asked \cup {r}
    /\ UNCHANGED <<now, completed, retry, issued, origin, told>>

\* Fault: the cached target is looked up by the request alone.
CachedForAny(r, d) == completed[r] # "none" /\ retry[r] >= now

\* _completed_target: the decision is repeated within the retry lifetime.
Cached(r, d) == completed[r] = d /\ retry[r] >= now

\* _prune_completed.
PrunedRetry == Unexpired(retry)
PrunedCompleted == [r \in Requests |-> IF retry[r] >= now THEN completed[r] ELSE "none"]

\* handle_consent answers from the cache: the same redirect is sent again, to a
\* repeated form or to a reload of the page, and nothing else is pruned.
Repeat(r, d) ==
    /\ Cached(r, d)
    /\ told' = [told EXCEPT ![r] = @ \cup {d}]
    /\ retry' = PrunedRetry
    /\ completed' = PrunedCompleted
    /\ UNCHANGED <<now, pending, codes, tokens, issued, asked, origin>>

\* _consume_pending.
Consumed(r) == [Unexpired(pending) EXCEPT ![r] = 0]

\* _approve_retry_safe and _deny_retry_safe for a request that is pending.
Decide(r, d) ==
    /\ ~Cached(r, d)
    /\ r \in Keys(Unexpired(pending))
    /\ pending' = Consumed(r)
    /\ codes' = IF d = "allow" THEN [Unexpired(codes) EXCEPT ![r] = now + CodeTTL]
                ELSE Unexpired(codes)
    /\ tokens' = PrunedTokens
    /\ completed' = [PrunedCompleted EXCEPT ![r] = d]
    /\ retry' = [PrunedRetry EXCEPT ![r] = now + RetryTTL]
    /\ told' = [told EXCEPT ![r] = @ \cup {d}]
    /\ UNCHANGED <<now, issued, asked, origin>>

\* The page of a request, or a decision on one that is no longer pending: both
\* kinds of pruning, and nothing else.
Look(r) ==
    /\ \E d \in Decisions :
          /\ ~Cached(r, d)
          /\ r \in Keys(Unexpired(pending)) => \A e \in Decisions : ~Cached(r, e)
    /\ pending' = Unexpired(pending)
    /\ codes' = Unexpired(codes)
    /\ tokens' = PrunedTokens
    /\ completed' = PrunedCompleted
    /\ retry' = PrunedRetry
    /\ UNCHANGED <<now, issued, asked, origin, told>>

\* Fault: the code stays valid after its exchange.
SpentNot(r) == Unexpired(codes)

Spent(r) == [Unexpired(codes) EXCEPT ![r] = 0]

\* exchange_authorization_code: the code is spent for a pair.
ExchangeCode(r) ==
    /\ issued < MaxPairs
    /\ r \in Keys(Unexpired(codes))
    /\ codes' = Spent(r)
    /\ issued' = issued + 1
    /\ tokens' = Mint(PrunedTokens, issued + 1)
    /\ origin' = [origin EXCEPT ![issued + 1] = r]
    /\ pending' = Unexpired(pending)
    /\ UNCHANGED <<now, completed, retry, asked, told>>

\* exchange_refresh_token: the presented token is revoked for a new pair.
ExchangeRefresh(p) ==
    /\ issued < MaxPairs
    /\ p \in Keys(PrunedTokens.refresh)
    /\ issued' = issued + 1
    /\ tokens' = Mint(RevokeRefresh(PrunedTokens, p), issued + 1)
    /\ origin' = [origin EXCEPT ![issued + 1] = origin[p]]
    /\ pending' = Unexpired(pending)
    /\ codes' = Unexpired(codes)
    /\ UNCHANGED <<now, completed, retry, asked, told>>

\* revoke_token of a token that the SDK has just loaded.
Revoke(p) ==
    /\ \/ p \in Keys(PrunedTokens.access) /\ tokens' = RevokeAccess(PrunedTokens, p)
       \/ p \in Keys(PrunedTokens.refresh) /\ tokens' = RevokeRefresh(PrunedTokens, p)
    /\ pending' = Unexpired(pending)
    /\ codes' = Unexpired(codes)
    /\ UNCHANGED <<now, completed, retry, issued, asked, origin, told>>

\* The bridge is started again: everything is process-local.
Restart ==
    /\ pending' = NoEntry
    /\ codes' = NoEntry
    /\ completed' = NoDecision
    /\ retry' = NoEntry
    /\ tokens' = NoTokens
    /\ UNCHANGED <<now, issued, asked, origin, told>>

Tick ==
    /\ now < MaxTime
    /\ now' = now + 1
    /\ UNCHANGED <<pending, codes, completed, retry, tokens, issued, asked, origin, told>>

Next ==
    \/ Prune
    \/ \E r \in Requests :
          \/ Authorize(r)
          \/ \E d \in Decisions : Repeat(r, d) \/ Decide(r, d)
          \/ Look(r)
          \/ ExchangeCode(r)
    \/ \E p \in Pairs : ExchangeRefresh(p) \/ Revoke(p)
    \/ Restart
    \/ Tick

Spec == Init /\ [][Next]_vars

-----------------------------------------------------------------------------
(* Properties *)

\* Every access token that may be honoured is linked both ways to a refresh token
\* that exists, so that revoking or rotating either ends both; and no link
\* survives its tokens.
Linked(s) ==
    /\ \A a \in Keys(s.access) :
          /\ s.accessToRefresh[a] \in Keys(s.refresh)
          /\ s.refreshToAccess[s.accessToRefresh[a]] = a
    /\ \A r \in Keys(s.refresh) :
          s.refreshToAccess[r] # 0 =>
              /\ s.refreshToAccess[r] \in Keys(s.access)
              /\ s.accessToRefresh[s.refreshToAccess[r]] = r
    /\ \A p \in Pairs :
          /\ p \notin Keys(s.access) => s.accessToRefresh[p] = 0
          /\ p \notin Keys(s.refresh) => s.refreshToAccess[p] = 0

PairsLinked == Linked(tokens)

\* An approval is at any time one code or one pair: a code is exchanged once, a
\* rotated or replayed refresh token leaves no second pair behind.
OneGrantOneHolder ==
    \A p \in Keys(tokens.refresh) \cup Keys(tokens.access) :
        /\ origin[p] \in Requests \ Keys(codes)
        /\ \A q \in Keys(tokens.refresh) \cup Keys(tokens.access) :
              origin[q] = origin[p] => q = p

\* The browser is never redirected with both decisions, and a request that was
\* denied never has a code or a token, whatever is resubmitted, reloaded or late.
DenialIsFinal ==
    \A r \in Requests :
        "deny" \in told[r] =>
            /\ told[r] = {"deny"}
            /\ codes[r] = 0
            /\ \A p \in 1..issued : origin[p] # r

\* At most MAX_PENDING_AUTHORIZATIONS requests wait for a decision.
PendingBounded == Cardinality(Keys(pending)) <= MaxPending

\* A revoked token takes its partner along, in both directions: a pair that was
\* whole keeps its refresh token alone only when the access token had expired, and
\* its access token never without the refresh token that could revoke it.
RevocationIsWhole ==
    [][\A p \in Keys(tokens.access) :
          /\ tokens'.access[p] = 0 /\ tokens'.refresh[p] # 0 => tokens.access[p] < now
          /\ tokens'.refresh[p] = 0 => tokens'.access[p] = 0]_vars

=============================================================================
