------------------------- MODULE TokenService_proofs -------------------------
(***************************************************************************)
(* Proofs about TokenService, for any number of threads and services, any  *)
(* lifetimes and any leeway.                                               *)
(***************************************************************************)
EXTENDS TokenService, TLAPS

LEMMA KeyType == \A l \in ScopeLists \ {<<>>} : CacheKey(l) \in CacheKeys
  BY DEF CacheKeys

LEMMA TimeType == (\A x \in Lifetimes : x \in Nat) /\ (\A x \in 0 .. MaxClock : x \in Nat)
  <1>1. \A x \in Lifetimes : x \in Nat
    BY ParametersOK
  <1>2. \A x \in 0 .. MaxClock : x \in Nat
    BY ParametersOK
  <1> QED BY <1>1, <1>2

\* What is found in a cache, and what setting it leaves there.
LEMMA CacheType ==
  ASSUME TypeOK, NEW s \in Services, NEW l \in ScopeLists \ {<<>>}, NEW e \in Entries
  PROVE  /\ cache[CacheOf[s]][CacheKey(l)] \in Entries \cup {NoEntry}
         /\ [cache EXCEPT ![CacheOf[s]][CacheKey(l)] = e]
              \in [Caches -> [CacheKeys -> Entries \cup {NoEntry}]]
         /\ [latest EXCEPT ![s][CacheKey(l)] = e]
              \in [Services -> [CacheKeys -> Entries \cup {NoEntry}]]
  <1>1. CacheOf[s] \in Caches /\ CacheKey(l) \in CacheKeys
    BY KeyType, ParametersOK
  <1>2. /\ cache \in [Caches -> [CacheKeys -> Entries \cup {NoEntry}]]
        /\ latest \in [Services -> [CacheKeys -> Entries \cup {NoEntry}]]
    BY DEF TypeOK
  <1> QED BY <1>1, <1>2

\* The token in hand of a thread that has one.
LEMMA HeldType ==
  ASSUME TypeOK, NEW t \in Threads,
         \/ pc[t] \in {"answered", "fetched"}
         \/ held[t] # NoEntry
  PROVE  /\ held[t] \in Entries /\ held[t].tok \in Tokens /\ held[t].exp \in Nat
         /\ Dies(held[t].tok) \in Nat /\ Believed(held[t].tok) \in Nat
         /\ held[t].tok.says = "told" => Believed(held[t].tok) = held[t].tok.life
         /\ held[t].tok.life \in Nat /\ held[t].tok.born \in Nat
  <1>1. held[t] \in Entries
    BY DEF TypeOK
  <1>2. held[t].tok \in Tokens /\ held[t].exp \in Nat
    BY <1>1 DEF Entries
  <1>3. held[t].tok.life \in Lifetimes /\ held[t].tok.born \in 0 .. MaxClock
    BY <1>2 DEF Tokens
  <1>4. held[t].tok.life \in Nat /\ held[t].tok.born \in Nat
    BY <1>3, TimeType
  <1> QED BY <1>1, <1>2, <1>4, ParametersOK DEF Dies, Believed

\* The end of a call leaves its thread well typed.
LEMMA DoneType ==
  ASSUME TypeOK, NEW t \in Threads, Done(t)
  PROVE  /\ clock' \in 0 .. MaxClock
         /\ pc' \in [Threads -> Phases]
         /\ svc' \in [Threads -> Services]
         /\ scopes' \in [Threads -> ScopeLists \ {<<>>}]
         /\ held' \in [Threads -> Entries \cup {NoEntry}]
         /\ \A u \in Threads : pc'[u] \in {"answered", "fetched"} => held'[u] \in Entries
         /\ sentAt' \in [Threads -> 0 .. MaxClock]
  <1>1. 0 \in 0 .. MaxClock
    BY ParametersOK
  <1>2. "idle" \in Phases
    BY DEF Phases
  <1> QED BY <1>1, <1>2 DEF TypeOK, Done

LEMMA ReturnType ==
  ASSUME TypeOK, NEW t \in Threads, NEW how \in {"cached", "new"},
         held[t] \in Entries, Return(t, how)
  PROVE  returned' \in [Threads -> Results \cup {NoResult}]
  <1>1. [tok |-> held[t].tok, at |-> clock, how |-> how] \in Results
    BY DEF Results, Entries, TypeOK
  <1> QED BY <1>1 DEF TypeOK, Return

LEMMA InitType == Init => TypeOK
  <1> SUFFICES ASSUME Init PROVE TypeOK
    OBVIOUS
  <1>1. 0 \in 0 .. MaxClock /\ "idle" \in Phases
    BY ParametersOK DEF Phases
  <1>2. (CHOOSE s \in Services : TRUE) \in Services
    BY ParametersOK
  <1>3. (CHOOSE l \in ScopeLists \ {<<>>} : TRUE) \in ScopeLists \ {<<>>}
    BY ParametersOK
  <1>4. /\ svc \in [Threads -> Services]
        /\ scopes \in [Threads -> ScopeLists \ {<<>>}]
    BY <1>2, <1>3 DEF Init
  <1> QED BY <1>1, <1>4 DEF Init, TypeOK

LEMMA NextType == TypeOK /\ [Next]_vars => TypeOK'
  <1> SUFFICES ASSUME TypeOK, [Next]_vars PROVE TypeOK'
    OBVIOUS
  <1>0. \A ph \in {"idle", "looked", "asked", "answered", "refused", "outdated", "fetched"} :
          ph \in Phases
    BY DEF Phases, InFlight
  <1>1. ASSUME NEW t \in Threads, NEW s \in Services, NEW l \in ScopeLists, Call(t, s, l)
        PROVE  TypeOK'
    <2>1. l \in ScopeLists \ {<<>>}
      BY <1>1 DEF Call
    <2>2. cache[CacheOf[s]][CacheKey(l)] \in Entries \cup {NoEntry}
      <3>1. CacheOf[s] \in Caches /\ CacheKey(l) \in CacheKeys
        BY <2>1, KeyType, ParametersOK
      <3> QED BY <3>1 DEF TypeOK
    <2> QED BY <1>0, <1>1, <2>1, <2>2 DEF TypeOK, Call
  <1>2. ASSUME NEW t \in Threads, Serve(t) PROVE TypeOK'
    <2>1. held[t] \in Entries
      BY <1>2, HeldType DEF Serve
    <2> QED BY <1>2, <2>1, DoneType, ReturnType DEF TypeOK, Serve, Return
  <1>3. ASSUME NEW t \in Threads, Send(t) PROVE TypeOK'
    BY <1>0, <1>3 DEF TypeOK, Send
  <1>4. ASSUME NEW t \in Threads, Receive(t) PROVE TypeOK'
    <2>1. /\ held[t].tok \in Tokens /\ Believed(held[t].tok) \in Nat
      BY <1>4, HeldType DEF Receive
    <2>2. clock \in Nat
      BY ParametersOK DEF TypeOK
    <2>3. [tok |-> held[t].tok, exp |-> Expiry(held[t].tok)] \in Entries
      BY <2>1, <2>2 DEF Entries, Expiry
    <2> QED BY <1>0, <1>4, <2>3 DEF TypeOK, Receive
  <1>5. ASSUME NEW t \in Threads, Fail(t) PROVE TypeOK'
    BY <1>5, DoneType DEF TypeOK, Fail
  <1>6. ASSUME NEW t \in Threads, Store(t) PROVE TypeOK'
    <2>1. held[t] \in Entries
      BY <1>6, HeldType DEF Store
    <2>2. svc[t] \in Services /\ scopes[t] \in ScopeLists \ {<<>>}
      BY DEF TypeOK
    <2>3. /\ cache' \in [Caches -> [CacheKeys -> Entries \cup {NoEntry}]]
          /\ latest' \in [Services -> [CacheKeys -> Entries \cup {NoEntry}]]
      BY <1>6, <2>1, <2>2, CacheType DEF Store
    <2>4. Done(t) /\ Return(t, "new")
      BY <1>6 DEF Store, Return
    <2>5. returned' \in [Threads -> Results \cup {NoResult}]
      BY <2>1, <2>4, ReturnType
    <2> QED BY <2>3, <2>4, <2>5, DoneType DEF TypeOK
  <1>7. ASSUME NEW t \in Threads, PlatformMints(t) PROVE TypeOK'
    <2>1. PICK life \in Lifetimes, says \in Says :
            held' = [held EXCEPT ![t] =
                       [tok |-> [svc |-> svc[t], scopes |-> scopes[t], born |-> clock,
                                 life |-> life, says |-> says], exp |-> 0]]
      BY <1>7 DEF PlatformMints
    <2>2. [svc |-> svc[t], scopes |-> scopes[t], born |-> clock, life |-> life,
           says |-> says] \in Tokens
      BY DEF Tokens, TypeOK
    <2>3. [tok |-> [svc |-> svc[t], scopes |-> scopes[t], born |-> clock, life |-> life,
                    says |-> says], exp |-> 0] \in Entries
      BY <2>2 DEF Entries
    <2> QED BY <1>0, <1>7, <2>1, <2>3 DEF TypeOK, PlatformMints
  <1>8. ASSUME NEW t \in Threads, PlatformRefuses(t) PROVE TypeOK'
    BY <1>0, <1>8 DEF TypeOK, PlatformRefuses
  <1>9. CASE Tick
    BY <1>9, ParametersOK DEF TypeOK, Tick
  <1>10. CASE UNCHANGED vars
    BY <1>10 DEF TypeOK, vars
  <1> QED BY <1>1, <1>2, <1>3, <1>4, <1>5, <1>6, <1>7, <1>8, <1>9, <1>10 DEF Next, Tool

\* Clock, caches, calls, results and history have their types in every reachable state.
THEOREM TypeCorrect == Spec => []TypeOK
  <1> QED BY InitType, NextType, PTL DEF Spec

-----------------------------------------------------------------------------
(* Why the leeway must cover the timeout: an AccessToken's expiry is at most *)
(* Timeout later than the end of the token's life, because a request is open *)
(* no longer than that.                                                      *)

Honest(e) == e # NoEntry /\ e.tok.says = "told" => e.exp <= Dies(e.tok) + Timeout

\* An open request was sent no longer than Timeout ago, its token made since.
Timely(t) == pc[t] \in InFlight => sentAt[t] <= clock /\ clock <= sentAt[t] + Timeout
Recent(t) == pc[t] = "answered" => sentAt[t] <= held[t].tok.born

HonestInv ==
  /\ \A c \in Caches, k \in CacheKeys : Honest(cache[c][k])
  /\ \A t \in Threads : pc[t] \in {"looked", "fetched"} => Honest(held[t])
  /\ \A t \in Threads : Timely(t) /\ Recent(t)

\* Adding a believed life to the clock is honest if the token was made since the
\* request was sent and the request was open no longer than Timeout.
LEMMA ExpiryHonest ==
  ASSUME TypeOK, NEW t \in Threads, pc[t] = "answered", Timely(t), Recent(t)
  PROVE  Honest([tok |-> held[t].tok, exp |-> Expiry(held[t].tok)])
  <1>1. /\ held[t].tok.life \in Nat /\ held[t].tok.born \in Nat
        /\ held[t].tok.says = "told" => Believed(held[t].tok) = held[t].tok.life
    BY HeldType
  <1>2. clock \in Nat /\ sentAt[t] \in Nat /\ Timeout \in Nat
    BY TimeType, ParametersOK DEF TypeOK
  <1>3. sentAt[t] <= clock /\ clock <= sentAt[t] + Timeout /\ sentAt[t] <= held[t].tok.born
    BY DEF Timely, Recent, InFlight
  <1>4. held[t].tok.says = "told" =>
          clock + Believed(held[t].tok) <= held[t].tok.born + held[t].tok.life + Timeout
    BY <1>1, <1>2, <1>3
  <1> QED BY <1>4 DEF Honest, Expiry, Dies

LEMMA InitHonest == Init => HonestInv
  BY DEF Init, HonestInv, Honest, Timely, Recent, InFlight

\* A step that gives no thread a token, sends nothing and lets no time pass.
LEMMA QuietStep ==
  ASSUME TypeOK, HonestInv, NEW t \in Threads,
         UNCHANGED <<clock, cache>>,
         pc' = [pc EXCEPT ![t] = "idle"],
         held' = [held EXCEPT ![t] = NoEntry],
         sentAt' = [sentAt EXCEPT ![t] = 0]
  PROVE  HonestInv'
  BY DEF HonestInv, TypeOK, Honest, Timely, Recent, InFlight

LEMMA NextHonest == TypeOK /\ HonestInv /\ [Next]_vars => HonestInv'
  <1> SUFFICES ASSUME TypeOK, HonestInv, [Next]_vars PROVE HonestInv'
    OBVIOUS
  <1>0. clock \in Nat /\ Timeout \in Nat /\ \A t \in Threads : sentAt[t] \in Nat
    BY TimeType, ParametersOK DEF TypeOK
  <1>1. ASSUME NEW t \in Threads, NEW s \in Services, NEW l \in ScopeLists, Call(t, s, l)
        PROVE  HonestInv'
    <2>1. CacheOf[s] \in Caches /\ CacheKey(l) \in CacheKeys
      BY <1>1, KeyType, ParametersOK DEF Call
    <2>2. Honest(cache[CacheOf[s]][CacheKey(l)])
      BY <2>1 DEF HonestInv
    <2> QED BY <1>1, <2>2 DEF HonestInv, TypeOK, Call, Honest, Timely, Recent, InFlight
  <1>2. ASSUME NEW t \in Threads, Serve(t) PROVE HonestInv'
    BY <1>2, QuietStep DEF Serve, Return, Done
  <1>3. ASSUME NEW t \in Threads, Send(t) PROVE HonestInv'
    BY <1>0, <1>3 DEF HonestInv, TypeOK, Send, Honest, Timely, Recent, InFlight
  <1>4. ASSUME NEW t \in Threads, Receive(t) PROVE HonestInv'
    <2>1. Honest([tok |-> held[t].tok, exp |-> Expiry(held[t].tok)])
      BY <1>4, ExpiryHonest DEF Receive, HonestInv
    <2> QED BY <1>4, <2>1 DEF HonestInv, TypeOK, Receive, Honest, Timely, Recent, InFlight
  <1>5. ASSUME NEW t \in Threads, Fail(t) PROVE HonestInv'
    BY <1>5, QuietStep DEF Fail, Done
  <1>6. ASSUME NEW t \in Threads, Store(t) PROVE HonestInv'
    <2>1. Honest(held[t])
      BY <1>6 DEF HonestInv, Store
    <2>2. \A c \in Caches, k \in CacheKeys : Honest(cache'[c][k])
      BY <1>6, <2>1 DEF HonestInv, TypeOK, Store
    <2> QED BY <1>6, <2>2 DEF HonestInv, TypeOK, Store, Return, Done, Honest, Timely,
                              Recent, InFlight
  <1>7. ASSUME NEW t \in Threads, PlatformMints(t) PROVE HonestInv'
    <2>1. held'[t].tok.born = clock /\ \A u \in Threads \ {t} : held'[u] = held[u]
      BY <1>7 DEF PlatformMints, TypeOK
    <2>2. sentAt[t] <= clock
      BY <1>7 DEF PlatformMints, HonestInv, Timely, InFlight
    <2> QED BY <1>7, <2>1, <2>2 DEF HonestInv, TypeOK, PlatformMints, Honest, Timely,
                                    Recent, InFlight
  <1>8. ASSUME NEW t \in Threads, PlatformRefuses(t) PROVE HonestInv'
    BY <1>8 DEF HonestInv, TypeOK, PlatformRefuses, Honest, Timely, Recent, InFlight
  <1>9. CASE Tick
    BY <1>0, <1>9 DEF HonestInv, TypeOK, Tick, Honest, Timely, Recent, InFlight
  <1>10. CASE UNCHANGED vars
    BY <1>10 DEF HonestInv, vars, Honest, Timely, Recent, InFlight
  <1> QED BY <1>1, <1>2, <1>3, <1>4, <1>5, <1>6, <1>7, <1>8, <1>9, <1>10 DEF Next, Tool

LEMMA HonestAlways == Spec => [](TypeOK /\ HonestInv)
  <1> QED BY InitType, NextType, InitHonest, NextHonest, PTL DEF Spec

\* A leeway that covers the timeout makes every cached token that is served valid.
THEOREM ServedIsValid == ASSUME Timeout <= Leeway PROVE Spec => []ServedTokenIsValid
  <1>1. Init => ServedTokenIsValid
    BY DEF Init, ServedTokenIsValid, NoResult
  <1>2. TypeOK /\ HonestInv /\ ServedTokenIsValid /\ [Next]_vars => ServedTokenIsValid'
    <2> SUFFICES ASSUME TypeOK, HonestInv, ServedTokenIsValid, [Next]_vars
                 PROVE  ServedTokenIsValid'
      OBVIOUS
    <2>1. ASSUME NEW t \in Threads, Serve(t) PROVE ServedTokenIsValid'
      <3>1. Honest(held[t]) /\ held[t] # NoEntry
        BY <2>1 DEF HonestInv, Serve
      <3>2. /\ held[t].exp \in Nat /\ Dies(held[t].tok) \in Nat
            /\ clock \in Nat /\ Leeway \in Nat /\ Timeout \in Nat
        BY <3>1, HeldType, TimeType, ParametersOK DEF TypeOK
      <3>3. held[t].tok.says = "told" => clock < Dies(held[t].tok)
        BY <2>1, <3>1, <3>2 DEF Serve, IsExpired, Honest
      <3> QED BY <2>1, <3>3 DEF ServedTokenIsValid, Serve, Return, TypeOK, Dies
    <2>2. ASSUME NEW t \in Threads, Store(t) PROVE ServedTokenIsValid'
      BY <2>2 DEF ServedTokenIsValid, Store, Return, TypeOK, Dies
    <2>3. ASSUME NEW t \in Threads, NEW s \in Services, NEW l \in ScopeLists, Call(t, s, l)
          PROVE  ServedTokenIsValid'
      BY <2>3 DEF ServedTokenIsValid, Call, NoResult, TypeOK, Dies
    <2>4. UNCHANGED returned => ServedTokenIsValid'
      BY DEF ServedTokenIsValid, Dies
    <2> QED BY <2>1, <2>2, <2>3, <2>4
            DEF Next, Tool, Send, Receive, Fail, PlatformMints, PlatformRefuses, Tick, vars
  <1> QED BY <1>1, <1>2, HonestAlways, PTL DEF Spec

-----------------------------------------------------------------------------
(* Why a cache must belong to one service: its keys hold the scopes alone.    *)

\* Entry e may be served to a call of service s with scopes of key k.
Fits(e, s, k) == e # NoEntry => e.tok.svc = s /\ CacheKey(e.tok.scopes) = k

FitsInv ==
  /\ \A s \in Services, k \in CacheKeys : Fits(cache[CacheOf[s]][k], s, k)
  /\ \A t \in Threads : Fits(held[t], svc[t], CacheKey(scopes[t]))

\* Equal keys are keys of the same scopes.
LEMMA KeyScopes ==
  ASSUME NEW k, NEW l, CacheKey(k) = CacheKey(l)
  PROVE  ScopesOf(k) = ScopesOf(l)
  <1>1. DOMAIN CacheKey(k) = ScopesOf(k) /\ DOMAIN CacheKey(l) = ScopesOf(l)
    BY DEF CacheKey
  <1> QED BY <1>1

\* No caller gets a token of other scopes or of another registration, if no two
\* services share a cache.
THEOREM FitsTheCall ==
  ASSUME \A s, u \in Services : CacheOf[s] = CacheOf[u] => s = u
  PROVE  Spec => []TokenFitsTheCall
  <1> DEFINE I == FitsInv /\ TokenFitsTheCall
  <1>1. Init => I
    BY ParametersOK DEF Init, FitsInv, Fits, TokenFitsTheCall
  <1>2. TypeOK /\ I /\ [Next]_vars => I'
    <2> SUFFICES ASSUME TypeOK, I, [Next]_vars PROVE I'
      OBVIOUS
    <2>1. ASSUME NEW t \in Threads, NEW s \in Services, NEW l \in ScopeLists, Call(t, s, l)
          PROVE  I'
      <3>1. CacheKey(l) \in CacheKeys
        BY <2>1, KeyType DEF Call
      <3>2. Fits(cache[CacheOf[s]][CacheKey(l)], s, CacheKey(l))
        BY <3>1 DEF FitsInv
      <3>3. FitsInv'
        BY <2>1, <3>2 DEF FitsInv, Fits, TypeOK, Call
      <3>4. TokenFitsTheCall'
        BY <2>1 DEF TokenFitsTheCall, TypeOK, Call
      <3> QED BY <3>3, <3>4
    <2>2. ASSUME NEW t \in Threads, NEW how \in {"cached", "new"}, Return(t, how),
                 held[t] # NoEntry, UNCHANGED cache
          PROVE  I'
      <3>1. held[t].tok.svc = svc[t] /\ ScopesOf(held[t].tok.scopes) = ScopesOf(scopes[t])
        BY <2>2, KeyScopes DEF FitsInv, Fits
      <3>2. TokenFitsTheCall'
        BY <2>2, <3>1 DEF TokenFitsTheCall, TypeOK, Return, Done, NoResult
      <3>3. FitsInv'
        BY <2>2 DEF FitsInv, Fits, TypeOK, Return, Done
      <3> QED BY <3>2, <3>3
    <2>3. ASSUME NEW t \in Threads, Store(t) PROVE I'
      <3>1. held[t] # NoEntry
        <4>1. held[t] \in Entries
          BY <2>3, HeldType DEF Store
        <4> QED BY <4>1 DEF Entries, NoEntry
      <3>2. Fits(held[t], svc[t], CacheKey(scopes[t]))
        BY DEF FitsInv
      <3>3. \A s \in Services, k \in CacheKeys : Fits(cache'[CacheOf[s]][k], s, k)
        <4> SUFFICES ASSUME NEW s \in Services, NEW k \in CacheKeys
                     PROVE  Fits(cache'[CacheOf[s]][k], s, k)
          OBVIOUS
        <4>1. CASE s = svc[t] /\ k = CacheKey(scopes[t])
          BY <2>3, <3>2, <4>1, ParametersOK DEF Store, TypeOK
        <4>2. CASE ~(s = svc[t] /\ k = CacheKey(scopes[t]))
          <5>1. cache'[CacheOf[s]][k] = cache[CacheOf[s]][k]
            BY <2>3, <4>2, ParametersOK DEF Store, TypeOK
          <5> QED BY <5>1 DEF FitsInv
        <4> QED BY <4>1, <4>2
      <3>4. held[t].tok.svc = svc[t] /\ ScopesOf(held[t].tok.scopes) = ScopesOf(scopes[t])
        BY <3>1, <3>2, KeyScopes DEF Fits
      <3>5. TokenFitsTheCall'
        BY <2>3, <3>4 DEF TokenFitsTheCall, TypeOK, Store, Return, Done, NoResult
      <3>6. \A u \in Threads : Fits(held'[u], svc'[u], CacheKey(scopes'[u]))
        BY <2>3 DEF FitsInv, Fits, TypeOK, Store, Return, Done
      <3> QED BY <3>3, <3>5, <3>6 DEF FitsInv, Fits
    <2>4. ASSUME NEW t \in Threads, PlatformMints(t) PROVE I'
      BY <2>4 DEF FitsInv, Fits, TokenFitsTheCall, TypeOK, PlatformMints
    <2>5. ASSUME NEW t \in Threads, Receive(t) PROVE I'
      <3>1. held[t] # NoEntry
        <4>1. held[t] \in Entries
          BY <2>5, HeldType DEF Receive
        <4> QED BY <4>1 DEF Entries, NoEntry
      <3> QED BY <2>5, <3>1 DEF FitsInv, Fits, TokenFitsTheCall, TypeOK, Receive
    <2>6. ASSUME NEW t \in Threads, Serve(t) PROVE I'
      BY <2>6, <2>2 DEF Serve
    <2>7. ASSUME NEW t \in Threads, Send(t) \/ Fail(t) \/ PlatformRefuses(t) PROVE I'
      BY <2>7 DEF FitsInv, Fits, TokenFitsTheCall, TypeOK, Send, Fail, Done, PlatformRefuses
    <2>8. CASE Tick \/ UNCHANGED vars
      BY <2>8 DEF FitsInv, Fits, TokenFitsTheCall, Tick, vars
    <2> QED BY <2>1, <2>3, <2>4, <2>5, <2>6, <2>7, <2>8 DEF Next, Tool
  <1> QED BY <1>1, <1>2, TypeCorrect, PTL DEF Spec

-----------------------------------------------------------------------------
\* _build_client_assertion: putting iat back covers a platform whose clock is behind, and the
\* assertion's lifetime covers the longest request to one whose clock is ahead, so no
\* request is refused for its times.
THEOREM TimesHold ==
  ASSUME -Skew <= Backdate, Skew + Timeout < AssertionLife
  PROVE  Spec => []AssertionIsTimely
  <1>1. Init => AssertionIsTimely
    BY DEF Init, AssertionIsTimely
  <1>2. TypeOK /\ HonestInv /\ AssertionIsTimely /\ [Next]_vars => AssertionIsTimely'
    <2> SUFFICES ASSUME TypeOK, HonestInv, AssertionIsTimely, [Next]_vars PROVE AssertionIsTimely'
      OBVIOUS
    <2>0. pc \in [Threads -> Phases]
      BY DEF TypeOK
    <2>1. ASSUME NEW t \in Threads, PlatformRefuses(t) PROVE AssertionIsTimely'
      <3>1. sentAt[t] <= clock /\ clock <= sentAt[t] + Timeout
        BY <2>1 DEF PlatformRefuses, HonestInv, Timely, InFlight
      <3>2. clock \in Nat /\ sentAt[t] \in Nat
        BY TimeType DEF TypeOK
      <3>3. AssertionHolds(t)
        BY <3>1, <3>2, ParametersOK DEF AssertionHolds
      <3> QED BY <2>0, <2>1, <3>3 DEF PlatformRefuses, AssertionIsTimely
    <2>2. ASSUME NEW t \in Threads, NEW s \in Services, NEW l \in ScopeLists, Call(t, s, l)
          PROVE  AssertionIsTimely'
      BY <2>0, <2>2 DEF Call, AssertionIsTimely
    <2>3. ASSUME NEW t \in Threads, Tool(t) \/ PlatformMints(t) PROVE AssertionIsTimely'
      BY <2>0, <2>3 DEF Tool, Serve, Send, Receive, Fail, Store, Return, Done, PlatformMints,
                        AssertionIsTimely
    <2>4. CASE Tick \/ UNCHANGED vars
      BY <2>4 DEF Tick, vars, AssertionIsTimely
    <2> QED BY <2>1, <2>2, <2>3, <2>4 DEF Next
  <1> QED BY <1>1, <1>2, HonestAlways, PTL DEF Spec

-----------------------------------------------------------------------------
(* Reuse: a cache of one service holds what that service made last.           *)

LatestInv == \A s \in Services, k \in CacheKeys : cache[CacheOf[s]][k] = latest[s][k]

LEMMA StoreLatest ==
  ASSUME \A s, u \in Services : CacheOf[s] = CacheOf[u] => s = u,
         TypeOK, LatestInv, NEW t \in Threads, Store(t)
  PROVE  LatestInv'
  <1>1. /\ svc[t] \in Services /\ CacheKey(scopes[t]) \in CacheKeys
        /\ CacheOf \in [Services -> Caches]
    BY KeyType, ParametersOK DEF TypeOK
  <1> SUFFICES ASSUME NEW s \in Services, NEW k \in CacheKeys
               PROVE  cache'[CacheOf[s]][k] = latest'[s][k]
    BY DEF LatestInv
  <1>2. CASE s = svc[t] /\ k = CacheKey(scopes[t])
    BY <1>1, <1>2 DEF Store, TypeOK
  <1>3. CASE ~(s = svc[t] /\ k = CacheKey(scopes[t]))
    <2>1. cache'[CacheOf[s]][k] = cache[CacheOf[s]][k]
      BY <1>1, <1>3 DEF Store, TypeOK
    <2>2. latest'[s][k] = latest[s][k]
      BY <1>1, <1>3 DEF Store, TypeOK
    <2> QED BY <2>1, <2>2 DEF LatestInv
  <1> QED BY <1>2, <1>3

LEMMA NextLatest ==
  ASSUME \A s, u \in Services : CacheOf[s] = CacheOf[u] => s = u,
         TypeOK, LatestInv, [Next]_vars
  PROVE  LatestInv'
  <1>1. ASSUME NEW t \in Threads, Store(t) PROVE LatestInv'
    BY <1>1, StoreLatest
  <1>2. UNCHANGED <<cache, latest>> => LatestInv'
    BY DEF LatestInv
  <1>3. ASSUME NEW t \in Threads, Tool(t), ~Store(t) PROVE UNCHANGED <<cache, latest>>
    BY <1>3 DEF Tool, Serve, Send, Receive, Fail
  <1>4. ASSUME NEW t \in Threads,
               PlatformMints(t) \/ PlatformRefuses(t)
               \/ \E s \in Services, l \in ScopeLists : Call(t, s, l)
        PROVE  UNCHANGED <<cache, latest>>
    BY <1>4 DEF PlatformMints, PlatformRefuses, Call
  <1>5. Tick \/ UNCHANGED vars => UNCHANGED <<cache, latest>>
    BY DEF Tick, vars
  <1> QED BY <1>1, <1>2, <1>3, <1>4, <1>5 DEF Next

\* Only Send makes a request.
LEMMA OnlySendAsks ==
  ASSUME TypeOK, [Next]_vars, NEW t \in Threads, pc[t] = "looked", pc'[t] = "asked"
  PROVE  Send(t)
  <1>0. pc \in [Threads -> Phases]
    BY DEF TypeOK
  <1>1. ASSUME NEW u \in Threads, Tool(u) PROVE Send(t)
    BY <1>0, <1>1 DEF Tool, Serve, Send, Receive, Fail, Store, Return, Done
  <1>2. ASSUME NEW u \in Threads,
               PlatformMints(u) \/ PlatformRefuses(u)
               \/ \E s \in Services, l \in ScopeLists : Call(u, s, l)
        PROVE  FALSE
    BY <1>0, <1>2 DEF PlatformMints, PlatformRefuses, Call
  <1>3. ~(Tick \/ UNCHANGED vars)
    BY DEF Tick, vars
  <1> QED BY <1>1, <1>2, <1>3 DEF Next

\* get_token asks the platform only when the token this service made last for the scopes
\* is within the leeway of its expiry, or another thread stored it in between.  The cache
\* must be the service's own: another service's token there would hide it.
THEOREM ReusedUntilDue ==
  ASSUME \A s, u \in Services : CacheOf[s] = CacheOf[u] => s = u
  PROVE  Spec => ReusedUntilNearExpiry
  <1>1. Init => LatestInv
    BY ParametersOK DEF Init, LatestInv
  <1>2. TypeOK /\ LatestInv /\ [Next]_vars => LatestInv'
    BY NextLatest
  <1>3. TypeOK /\ LatestInv /\ [Next]_vars =>
          [\A t \in Threads :
             /\ pc[t] = "looked" /\ pc'[t] = "asked"
             /\ held[t] = cache[CacheOf[svc[t]]][CacheKey(scopes[t])]
             => LET e == latest[svc[t]][CacheKey(scopes[t])]
                IN  e = NoEntry \/ clock >= e.exp - Leeway]_vars
    <2> SUFFICES ASSUME TypeOK, LatestInv, [Next]_vars, NEW t \in Threads,
                        pc[t] = "looked", pc'[t] = "asked",
                        held[t] = cache[CacheOf[svc[t]]][CacheKey(scopes[t])]
                 PROVE  LET e == latest[svc[t]][CacheKey(scopes[t])]
                        IN  e = NoEntry \/ clock >= e.exp - Leeway
      OBVIOUS
    <2>1. held[t] = latest[svc[t]][CacheKey(scopes[t])]
      BY KeyType DEF LatestInv, TypeOK
    <2>2. held[t] = NoEntry \/ clock >= held[t].exp - Leeway
      BY OnlySendAsks DEF Send, IsExpired
    <2> QED BY <2>1, <2>2
  <1> QED BY <1>1, <1>2, <1>3, TypeCorrect, PTL DEF Spec, ReusedUntilNearExpiry
=============================================================================
