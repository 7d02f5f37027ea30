---------------------------- MODULE TokenService ----------------------------
(***************************************************************************)
(* AccessTokenService and its cache: get_token looks a token up, and asks  *)
(* the platform for a new one when there is none or the cached one is near *)
(* its expiry.  There is no lock between the lookup and the store, and the *)
(* expiry is computed from the tool's clock after the answer arrived, so a *)
(* token's life at the platform started earlier than the cache believes.   *)
(*                                                                         *)
(* Several threads call the services; a cache may belong to one service or *)
(* be shared by several, as the TokenCache interface invites.              *)
(***************************************************************************)
EXTENDS Integers, FiniteSets, Sequences

CONSTANTS
  Threads,
  Services,         \* each AccessTokenService has the one registration it was built with
  Caches, CacheOf,  \* the cache of each service
  ScopeLists,       \* the scope sequences asked for
  Lifetimes,        \* the lifetimes the platform gives its tokens
  Says,             \* whether expires_in tells them: "told", "untold" or either
  DefaultLifetime,  \* _DEFAULT_TOKEN_LIFETIME
  Leeway,           \* expiry_leeway
  AssertionLife,    \* _ASSERTION_LIFETIME
  Backdate,         \* how far iat is put back, the 5 in "now - 5"
  Skew,             \* the platform's clock minus the tool's
  Timeout,          \* of the HTTP session: no request is open any longer
  MaxClock

ASSUME ParametersOK ==
  /\ Services # {} /\ CacheOf \in [Services -> Caches]
  /\ ScopeLists \ {<<>>} # {}
  /\ Lifetimes \subseteq Nat /\ Says \subseteq {"told", "untold"} /\ DefaultLifetime \in Nat
  /\ Leeway \in Nat /\ AssertionLife \in Nat /\ Backdate \in Nat /\ Skew \in Int
  /\ Timeout \in Nat /\ MaxClock \in Nat

VARIABLES
  clock,
  cache,     \* cache[c][k]: what cache c holds under key k
  pc,
  svc,       \* the service and the scopes of the thread's call, or of its last one
  scopes,
  held,      \* the AccessToken the thread has in hand: looked up, then fetched
  sentAt,    \* when the thread's request left
  returned,  \* what the thread's last get_token returned, with the time it did
  latest     \* history: the AccessToken each service made last, by key

vars == <<clock, cache, pc, svc, scopes, held, sentAt, returned, latest>>

-----------------------------------------------------------------------------
ScopesOf(s) == {s[i] : i \in DOMAIN s}
Count(x, s) == Cardinality({i \in DOMAIN s : s[i] = x})

\* Mutant: only the first scope.
CacheKeyFirst(s) == [x \in {s[1]} |-> 1]

\* _cache_key: the sorted scopes, so the order does not matter but each scope
\* and its repetitions do.
CacheKey(s) == [x \in ScopesOf(s) |-> Count(x, s)]

CacheKeys == {CacheKey(s) : s \in ScopeLists \ {<<>>}}

\* A token as the platform knows it: the call it answers, the start and length
\* of its life, and whether expires_in said that (it may be missing or malformed).
Tokens == [svc : Services, scopes : ScopeLists \ {<<>>}, born : 0 .. MaxClock,
           life : Lifetimes, says : Says]

\* AccessToken: the token and its expires_at.
Entries == [tok : Tokens, exp : Nat]
NoEntry == [exp |-> 0]

Results == [tok : Tokens, at : 0 .. MaxClock, how : {"cached", "new"}]
NoResult == [how |-> "none"]

\* Real expiry, at the platform.
Dies(tok) == tok.born + tok.life

Believed(tok) == IF tok.says = "told" THEN tok.life ELSE DefaultLifetime

\* Mutant: without the leeway.
IsExpiredAtExpiry(e) == clock >= e.exp
IsExpired(e) == clock >= e.exp - Leeway

\* Mutant: the assertion is not put back in time.
AssertionHoldsNotBackdated(t) ==
  /\ sentAt[t] <= clock + Skew
  /\ clock + Skew < sentAt[t] + AssertionLife

\* What a platform checks of the client assertion: iat and exp, on its clock.
AssertionHolds(t) ==
  /\ sentAt[t] - Backdate <= clock + Skew
  /\ clock + Skew < sentAt[t] + AssertionLife

\* "asked": the request is on its way; "answered": the answer is; "refused",
\* "outdated": an error status is, the latter for the assertion's times.
InFlight == {"asked", "answered", "refused", "outdated"}
Phases == {"idle", "looked", "fetched"} \cup InFlight

TypeOK ==
  /\ clock \in 0 .. MaxClock
  /\ cache \in [Caches -> [CacheKeys -> Entries \cup {NoEntry}]]
  /\ pc \in [Threads -> Phases]
  /\ svc \in [Threads -> Services]
  /\ scopes \in [Threads -> ScopeLists \ {<<>>}]
  /\ held \in [Threads -> Entries \cup {NoEntry}]
  /\ \A t \in Threads : pc[t] \in {"answered", "fetched"} => held[t] \in Entries
  /\ sentAt \in [Threads -> 0 .. MaxClock]
  /\ returned \in [Threads -> Results \cup {NoResult}]
  /\ latest \in [Services -> [CacheKeys -> Entries \cup {NoEntry}]]

Init ==
  /\ clock = 0
  /\ cache = [c \in Caches |-> [k \in CacheKeys |-> NoEntry]]
  /\ pc = [t \in Threads |-> "idle"]
  /\ svc = [t \in Threads |-> CHOOSE s \in Services : TRUE]
  /\ scopes = [t \in Threads |-> CHOOSE l \in ScopeLists \ {<<>>} : TRUE]
  /\ held = [t \in Threads |-> NoEntry]
  /\ sentAt = [t \in Threads |-> 0]
  /\ returned = [t \in Threads |-> NoResult]
  /\ latest = [s \in Services |-> [k \in CacheKeys |-> NoEntry]]

-----------------------------------------------------------------------------
\* get_token is called, and looks the key up.  Without scopes it raises.
Call(t, s, l) ==
  /\ pc[t] = "idle" /\ l # <<>>
  /\ svc' = [svc EXCEPT ![t] = s]
  /\ scopes' = [scopes EXCEPT ![t] = l]
  /\ held' = [held EXCEPT ![t] = cache[CacheOf[s]][CacheKey(l)]]
  /\ returned' = [returned EXCEPT ![t] = NoResult]
  /\ pc' = [pc EXCEPT ![t] = "looked"]
  /\ UNCHANGED <<clock, cache, sentAt, latest>>

\* The thread's call ends; what it had in hand is gone.
Done(t) ==
  /\ pc' = [pc EXCEPT ![t] = "idle"]
  /\ held' = [held EXCEPT ![t] = NoEntry]
  /\ sentAt' = [sentAt EXCEPT ![t] = 0]
  /\ UNCHANGED <<clock, svc, scopes>>

Return(t, how) ==
  /\ returned' = [returned EXCEPT ![t] = [tok |-> held[t].tok, at |-> clock, how |-> how]]
  /\ Done(t)

\* The cached token is far enough from its expiry.
Serve(t) ==
  /\ pc[t] = "looked" /\ held[t] # NoEntry /\ ~IsExpired(held[t])
  /\ Return(t, "cached")
  /\ UNCHANGED <<cache, latest>>

\* _request_token: the client assertion is dated now, and the POST leaves.
Send(t) ==
  /\ pc[t] = "looked" /\ (held[t] = NoEntry \/ IsExpired(held[t]))
  /\ sentAt' = [sentAt EXCEPT ![t] = clock]
  /\ held' = [held EXCEPT ![t] = NoEntry]
  /\ pc' = [pc EXCEPT ![t] = "asked"]
  /\ UNCHANGED <<clock, cache, svc, scopes, returned, latest>>

\* The platform makes a token; its expiry is not known to the tool yet.
PlatformMints(t) ==
  /\ pc[t] = "asked" /\ AssertionHolds(t)
  /\ \E life \in Lifetimes, says \in Says :
       held' = [held EXCEPT ![t] =
                  [tok |-> [svc |-> svc[t], scopes |-> scopes[t], born |-> clock,
                            life |-> life, says |-> says],
                   exp |-> 0]]
  /\ pc' = [pc EXCEPT ![t] = "answered"]
  /\ UNCHANGED <<clock, cache, svc, scopes, sentAt, returned, latest>>

\* The platform refuses, for reasons of its own or for the assertion's times.
PlatformRefuses(t) ==
  /\ pc[t] = "asked"
  /\ \/ pc' = [pc EXCEPT ![t] = "refused"]
     \/ ~AssertionHolds(t) /\ pc' = [pc EXCEPT ![t] = "outdated"]
  /\ UNCHANGED <<clock, cache, svc, scopes, held, sentAt, returned, latest>>

\* Mutant: the longest wait is added to the token's life.
ExpiryTooLate(tok) == clock + Timeout + Believed(tok)
\* expires_at counts from the moment the answer is read.
Expiry(tok) == clock + Believed(tok)

\* The answer arrives.
Receive(t) ==
  /\ pc[t] = "answered"
  /\ held' = [held EXCEPT ![t] = [tok |-> held[t].tok, exp |-> Expiry(held[t].tok)]]
  /\ pc' = [pc EXCEPT ![t] = "fetched"]
  /\ UNCHANGED <<clock, cache, svc, scopes, sentAt, returned, latest>>

\* AccessTokenError: an error status, a malformed body, a broken connection or,
\* at the latest after Timeout, no answer at all.  The platform may have made a
\* token nobody will use.
Fail(t) ==
  /\ pc[t] \in InFlight
  /\ Done(t)
  /\ UNCHANGED <<cache, returned, latest>>

\* Mutant: the token is returned but not cached.
StoreNothing(t) ==
  /\ pc[t] = "fetched"
  /\ latest' = [latest EXCEPT ![svc[t]][CacheKey(scopes[t])] = held[t]]
  /\ Return(t, "new")
  /\ UNCHANGED cache

\* The cache is set, whatever it holds by now, and the token returned.
Store(t) ==
  /\ pc[t] = "fetched"
  /\ cache' = [cache EXCEPT ![CacheOf[svc[t]]][CacheKey(scopes[t])] = held[t]]
  /\ latest' = [latest EXCEPT ![svc[t]][CacheKey(scopes[t])] = held[t]]
  /\ Return(t, "new")

\* Time passes, but not past the timeout of a request that is open.
Tick ==
  /\ clock < MaxClock
  /\ \A t \in Threads : pc[t] \in InFlight => clock < sentAt[t] + Timeout
  /\ clock' = clock + 1
  /\ UNCHANGED <<cache, pc, svc, scopes, held, sentAt, returned, latest>>

Tool(t) == Serve(t) \/ Send(t) \/ Receive(t) \/ Fail(t) \/ Store(t)

Next ==
  \/ \E t \in Threads : \/ \E s \in Services, l \in ScopeLists : Call(t, s, l)
                        \/ Tool(t) \/ PlatformMints(t) \/ PlatformRefuses(t)
  \/ Tick

Spec == Init /\ [][Next]_vars

-----------------------------------------------------------------------------
(* Properties.                                                               *)

\* A token served from the cache is still valid at the platform when get_token
\* decides to return it, whichever thread stored it and however long its
\* request was open, as long as the leeway covers the request's timeout and the
\* platform said how long the token lives.
ServedTokenIsValid ==
  \A t \in Threads :
    LET r == returned[t]
    IN  r.how = "cached" /\ r.tok.says = "told" => r.at < Dies(r.tok)

\* No caller is given a token that was made for other scopes or for another
\* service's registration.
TokenFitsTheCall ==
  \A t \in Threads :
    LET r == returned[t]
    IN  r # NoResult => /\ r.tok.svc = svc[t]
                        /\ ScopesOf(r.tok.scopes) = ScopesOf(scopes[t])

\* "Reuse a token until it nears expiry": no request is sent while the token this
\* service made last for these scopes is further than the leeway from its expiry,
\* unless another thread stored it after this one had looked.
ReusedUntilNearExpiry ==
  [][\A t \in Threads :
       /\ pc[t] = "looked" /\ pc'[t] = "asked"
       /\ held[t] = cache[CacheOf[svc[t]]][CacheKey(scopes[t])]
       => LET e == latest[svc[t]][CacheKey(scopes[t])]
          IN  e = NoEntry \/ clock >= e.exp - Leeway]_vars

\* The platform has no reason to refuse a client assertion for its times: it is
\* put back by more than the platform's clock may be behind, and lives longer
\* than a request may be under way.
AssertionIsTimely == \A t \in Threads : pc[t] # "outdated"
=============================================================================
