-------------------------- MODULE LmsClients_proofs -------------------------
(***************************************************************************)
(* The clients use the token service as its specification says, so that    *)
(* what is proved of it holds below them; a request meets no token that is *)
(* dead for longer than the timeouts exceed the leeway; and a listing has  *)
(* each topic that stayed in its place, once for each module that held it. *)
(***************************************************************************)
EXTENDS LmsClients, TokenService_proofs, FiniteSetTheorems

\* Every step of a client is a call of get_token, a step of one, or none of the
\* token service's.
LEMMA ClientStep == TypeOK /\ [LmsNext]_lmsVars => [Next]_vars
  <1> SUFFICES ASSUME TypeOK, [LmsNext]_lmsVars PROVE [Next]_vars
    OBVIOUS
  <1>1. ASSUME NEW t \in Threads, NEW s \in Services, NEW l \in ScopeLists,
               NEW what \in {"list", "get"}, Begin(t, s, l, what)
        PROVE  Next
    BY <1>1 DEF Begin, Ask, Next
  <1>2. ASSUME NEW t \in Threads, OpenNext(t) PROVE Next
    <2>1. Call(t, svc[t], scopes[t])
      BY <1>2 DEF OpenNext, Ask
    <2>2. svc[t] \in Services /\ scopes[t] \in ScopeLists
      BY DEF TypeOK
    <2> QED BY <2>1, <2>2 DEF Next
  <1>3. ASSUME NEW t \in Threads, GetsToken(t) PROVE Next
    BY <1>3 DEF GetsToken, Next
  <1>4. ASSUME NEW t \in Threads,
               SendPage(t) \/ NoToken(t) \/ PageFails(t) \/ GetReturns(t) \/ TakePage(t)
               \/ ListingReturns(t) \/ PlatformServes(t) \/ PlatformTurnsDown(t) \/ Edit(t)
        PROVE  UNCHANGED vars
    BY <1>4 DEF SendPage, NoToken, PageFails, GetReturns, TakePage, ListingReturns,
                PlatformServes, PlatformTurnsDown, Edit, Raises, Returns, End
  <1>5. ASSUME NEW t \in Threads, PlatformMints(t) \/ PlatformRefuses(t) PROVE Next
    BY <1>5 DEF Next
  <1>6. CASE LmsTick
    BY <1>6 DEF LmsTick, Next
  <1>7. CASE UNCHANGED lmsVars
    BY <1>7 DEF lmsVars
  <1> QED BY <1>1, <1>2, <1>3, <1>4, <1>5, <1>6, <1>7 DEF LmsNext, Client, Platform

\* The Canvas and Brightspace clients, with their threads, implement TokenService:
\* _headers is the only way they use the service.
THEOREM ClientsUseTheService == LmsSpec => Spec
  <1>1. LmsInit => Init
    BY DEF LmsInit
  <1>2. TypeOK /\ [LmsNext]_lmsVars => TypeOK'
    BY ClientStep, NextType
  <1> QED BY <1>1, <1>2, ClientStep, InitType, PTL DEF LmsSpec, Spec

\* No client sends a request with a token of other scopes or of another platform's
\* registration, if no two services share a cache.
THEOREM ClientsTokensFit ==
  ASSUME \A s, u \in Services : CacheOf[s] = CacheOf[u] => s = u
  PROVE  LmsSpec => []TokenFitsTheCall
  <1> QED BY ClientsUseTheService, FitsTheCall, PTL

-----------------------------------------------------------------------------
(* How long a token can be dead when a request meets it.                      *)

WireTypeOK ==
  /\ call \in [Threads -> Calls]
  /\ pageSent \in [Threads -> 0 .. MaxClock]

\* The platform told how long the token lives, and it lives for longer than the leeway:
\* when get_token returns it, it has not been dead, or will be, for longer than a
\* request for a token takes beyond the leeway.
Long(tok) == tok.says = "told" /\ tok.life > Leeway
Lives(r) == r # NoResult /\ Long(r.tok) => r.at + Leeway < Dies(r.tok) + Timeout

\* No time passes between an answer and get_token's return, nor between that and the
\* request to the platform, which is sent then and open for PageTimeout at most.
Prompt(t) ==
  /\ pc[t] = "fetched" => clock <= held[t].tok.born + Timeout
  /\ call[t] = "token" /\ pc[t] = "idle" /\ returned[t] # NoResult => returned[t].at = clock
  /\ call[t] \in OnTheWire => /\ pc[t] = "idle" /\ returned[t] # NoResult
                              /\ pageSent[t] = returned[t].at
                              /\ clock <= pageSent[t] + PageTimeout
  /\ pc[t] # "idle" => call[t] = "token" /\ returned[t] = NoResult

OutlivesInv == \A t \in Threads : Lives(returned[t]) /\ Prompt(t)

LEMMA LmsNumbers ==
  ASSUME TypeOK
  PROVE  /\ clock \in Nat /\ Timeout \in Nat /\ Leeway \in Nat /\ PageTimeout \in Nat
         /\ \A t \in Threads : returned[t] # NoResult =>
              /\ returned[t].at \in Nat /\ returned[t].tok.born \in Nat /\ returned[t].tok.life \in Nat
              /\ Dies(returned[t].tok) \in Nat
  <1>1. \A x \in 0 .. MaxClock : x \in Nat
    BY TimeType
  <1>2. ASSUME NEW t \in Threads, returned[t] # NoResult
        PROVE  /\ returned[t].at \in Nat /\ returned[t].tok.born \in Nat
               /\ returned[t].tok.life \in Nat /\ Dies(returned[t].tok) \in Nat
    <2>1. returned[t] \in Results
      BY <1>2 DEF TypeOK
    <2>2. returned[t].tok \in Tokens /\ returned[t].at \in 0 .. MaxClock
      BY <2>1 DEF Results
    <2>3. returned[t].tok.born \in Nat /\ returned[t].tok.life \in Nat
      BY <2>2, TimeType DEF Tokens
    <2> QED BY <1>1, <2>2, <2>3 DEF Dies
  <1> QED BY <1>1, <1>2, ParametersOK, LmsParametersOK DEF TypeOK

LEMMA InitOutlives == LmsInit => WireTypeOK /\ OutlivesInv
  <1> SUFFICES ASSUME LmsInit PROVE WireTypeOK /\ OutlivesInv
    OBVIOUS
  <1>1. WireTypeOK
    BY ParametersOK DEF LmsInit, WireTypeOK, Calls, Over
  <1>2. OutlivesInv
    BY DEF LmsInit, Init, OutlivesInv, Lives, Prompt, OnTheWire
  <1> QED BY <1>1, <1>2

LEMMA WireStep == TypeOK /\ WireTypeOK /\ [LmsNext]_lmsVars => WireTypeOK'
  <1> SUFFICES ASSUME TypeOK, WireTypeOK, [LmsNext]_lmsVars PROVE WireTypeOK'
    OBVIOUS
  <1>0. /\ \A c \in {"token", "next", "asked", "answered", "refused", "expired", "done", "raised"} :
             c \in Calls
        /\ clock \in 0 .. MaxClock /\ 0 \in 0 .. MaxClock
    BY ParametersOK DEF Calls, Over, OnTheWire, TypeOK
  <1>1. ASSUME NEW t \in Threads, NEW s \in Services, NEW l \in ScopeLists,
               NEW what \in {"list", "get"}, Begin(t, s, l, what)
        PROVE  WireTypeOK'
    BY <1>0, <1>1 DEF Begin, Ask, WireTypeOK
  <1>2. ASSUME NEW t \in Threads, OpenNext(t) \/ SendPage(t) \/ TakePage(t) PROVE WireTypeOK'
    BY <1>0, <1>2 DEF OpenNext, Ask, SendPage, TakePage, WireTypeOK
  <1>3. ASSUME NEW t \in Threads,
               NoToken(t) \/ PageFails(t) \/ GetReturns(t) \/ ListingReturns(t)
        PROVE  WireTypeOK'
    BY <1>0, <1>3 DEF NoToken, PageFails, GetReturns, ListingReturns, Raises, Returns, End, WireTypeOK
  <1>4. ASSUME NEW t \in Threads, PlatformServes(t) \/ PlatformTurnsDown(t) \/ Edit(t)
        PROVE  WireTypeOK'
    BY <1>0, <1>4 DEF PlatformServes, PlatformTurnsDown, Edit, WireTypeOK
  <1>5. UNCHANGED ownVars => WireTypeOK'
    BY DEF ownVars, WireTypeOK
  <1> QED BY <1>1, <1>2, <1>3, <1>4, <1>5
          DEF LmsNext, Client, Platform, GetsToken, LmsTick, lmsVars

\* get_token's own steps, and the platform's answers to it.
LEMMA TokenStepOutlives ==
  ASSUME TypeOK, HonestInv, WireTypeOK, OutlivesInv, UNCHANGED ownVars,
         NEW t \in Threads, Tool(t) \/ PlatformMints(t) \/ PlatformRefuses(t)
  PROVE  OutlivesInv'
  <1>0. /\ pc \in [Threads -> Phases] /\ held \in [Threads -> Entries \cup {NoEntry}]
        /\ returned \in [Threads -> Results \cup {NoResult}]
    BY DEF TypeOK
  <1>1. pc[t] # "idle" /\ call[t] = "token" /\ call' = call /\ pageSent' = pageSent /\ clock' = clock
    BY DEF OutlivesInv, Prompt, Tool, Serve, Send, Receive, Fail, Store, Return, Done,
           PlatformMints, PlatformRefuses, InFlight, ownVars
  <1>2. ASSUME NEW u \in Threads \ {t} PROVE Lives(returned'[u]) /\ Prompt(u)'
    <2>1. pc'[u] = pc[u] /\ held'[u] = held[u] /\ returned'[u] = returned[u]
      BY <1>0 DEF Tool, Serve, Send, Receive, Fail, Store, Return, Done,
                  PlatformMints, PlatformRefuses
    <2> QED BY <1>1, <2>1 DEF OutlivesInv, Prompt
  <1>3. Lives(returned'[t]) /\ Prompt(t)'
    <2>1. CASE Serve(t)
      <3>1. Honest(held[t]) /\ held[t] # NoEntry
        BY <2>1 DEF HonestInv, Serve
      <3>2. /\ held[t].exp \in Nat /\ Dies(held[t].tok) \in Nat
        BY <3>1, HeldType
      <3>3. held[t].tok.says = "told" => clock + Leeway < Dies(held[t].tok) + Timeout
        BY <2>1, <3>1, <3>2, LmsNumbers DEF Serve, IsExpired, Honest
      <3>4. returned'[t] = [tok |-> held[t].tok, at |-> clock, how |-> "cached"] /\ pc'[t] = "idle"
        BY <1>0, <2>1 DEF Serve, Return, Done
      <3> QED BY <1>1, <3>3, <3>4 DEF Lives, Long, Prompt, OnTheWire, Dies
    <2>2. CASE Store(t)
      <3>1. /\ held[t].tok.born \in Nat /\ held[t].tok.life \in Nat
        BY <2>2, HeldType DEF Store
      <3>2. clock <= held[t].tok.born + Timeout
        BY <2>2 DEF OutlivesInv, Prompt, Store
      <3>3. Long(held[t].tok) => clock + Leeway < Dies(held[t].tok) + Timeout
        BY <3>1, <3>2, LmsNumbers DEF Long, Dies
      <3>4. returned'[t] = [tok |-> held[t].tok, at |-> clock, how |-> "new"] /\ pc'[t] = "idle"
        BY <1>0, <2>2 DEF Store, Return, Done
      <3> QED BY <1>1, <3>3, <3>4 DEF Lives, Long, Prompt, OnTheWire, Dies
    <2>3. CASE Receive(t)
      <3>1. sentAt[t] <= held[t].tok.born /\ clock <= sentAt[t] + Timeout
        BY <2>3 DEF HonestInv, Recent, Timely, InFlight, Receive
      <3>2. held[t].tok.born \in Nat /\ sentAt[t] \in Nat
        BY <2>3, HeldType, TimeType DEF Receive, TypeOK
      <3>3. clock <= held[t].tok.born + Timeout
        BY <3>1, <3>2, LmsNumbers
      <3>4. held'[t].tok = held[t].tok /\ pc'[t] = "fetched" /\ returned' = returned
        BY <1>0, <2>3 DEF Receive
      <3> QED BY <1>1, <3>3, <3>4 DEF OutlivesInv, Prompt, OnTheWire
    <2>4. CASE Fail(t)
      <3>1. returned[t] = NoResult /\ pc'[t] = "idle" /\ returned' = returned
        BY <1>0, <1>1, <2>4 DEF Fail, Done, OutlivesInv, Prompt
      <3> QED BY <1>1, <3>1 DEF OutlivesInv, Prompt, OnTheWire
    <2>5. CASE Send(t) \/ PlatformMints(t) \/ PlatformRefuses(t)
      <3>1. pc'[t] \notin {"idle", "fetched"} /\ returned' = returned
        BY <1>0, <2>5 DEF Send, PlatformMints, PlatformRefuses
      <3> QED BY <1>1, <3>1 DEF OutlivesInv, Prompt, OnTheWire
    <2> QED BY <2>1, <2>2, <2>3, <2>4, <2>5 DEF Tool
  <1> QED BY <1>2, <1>3 DEF OutlivesInv

\* The steps of the clients.
LEMMA ClientStepOutlives ==
  ASSUME TypeOK, WireTypeOK, OutlivesInv, NEW t \in Threads,
         SendPage(t) \/ NoToken(t) \/ PageFails(t) \/ GetReturns(t) \/ TakePage(t)
         \/ ListingReturns(t) \/ PlatformServes(t) \/ PlatformTurnsDown(t) \/ Edit(t)
  PROVE  OutlivesInv'
  <1>0. /\ call \in [Threads -> Calls] /\ pageSent \in [Threads -> 0 .. MaxClock]
        /\ UNCHANGED <<clock, pc, held, returned>>
    BY DEF WireTypeOK, vars, SendPage, NoToken, PageFails, GetReturns, TakePage, ListingReturns,
           PlatformServes, PlatformTurnsDown, Edit, Raises, Returns, End
  <1>1. ASSUME NEW u \in Threads \ {t} PROVE call'[u] = call[u] /\ pageSent'[u] = pageSent[u]
    BY <1>0 DEF SendPage, NoToken, PageFails, GetReturns, TakePage, ListingReturns,
                PlatformServes, PlatformTurnsDown, Edit, Raises, Returns, End
  <1>2. ASSUME NEW u \in Threads PROVE Lives(returned'[u])
    BY <1>0 DEF OutlivesInv
  <1>3. CASE SendPage(t)
    <2>1. /\ pc[t] = "idle" /\ returned[t] # NoResult /\ returned[t].at = clock
          /\ call'[t] = "asked" /\ pageSent'[t] = clock
      BY <1>0, <1>3 DEF SendPage, OutlivesInv, Prompt
    <2>2. Prompt(t)'
      BY <1>0, <2>1, LmsNumbers DEF Prompt
    <2> QED BY <1>0, <1>1, <1>2, <2>1, <2>2 DEF OutlivesInv, Prompt
  <1>4. CASE PlatformTurnsDown(t)
    <2>1. /\ call[t] = "asked" /\ pageSent' = pageSent
          /\ call'[t] = IF clock < Dies(returned[t].tok) THEN "refused" ELSE "expired"
      BY <1>0, <1>4 DEF PlatformTurnsDown
    <2>2. /\ pc[t] = "idle" /\ returned[t] # NoResult /\ pageSent[t] = returned[t].at
          /\ clock <= pageSent[t] + PageTimeout /\ Lives(returned[t])
      BY <2>1 DEF OutlivesInv, Prompt, OnTheWire
    <2>3. Prompt(t)'
      BY <1>0, <2>1, <2>2 DEF Prompt, OnTheWire
    <2> QED BY <1>0, <1>1, <1>2, <2>3 DEF OutlivesInv, Prompt
  <1>5. CASE PlatformServes(t) \/ Edit(t)
    <2>1. /\ pageSent' = pageSent
          /\ \/ call' = call
             \/ call[t] = "asked" /\ call'[t] = "answered"
      BY <1>0, <1>5 DEF PlatformServes, Edit
    <2> QED BY <1>0, <1>1, <1>2, <2>1 DEF OutlivesInv, Prompt, OnTheWire
  <1>6. CASE NoToken(t) \/ PageFails(t) \/ GetReturns(t) \/ TakePage(t) \/ ListingReturns(t)
    <2>1. call'[t] \in {"done", "raised", "next"} /\ pc[t] = "idle"
      BY <1>0, <1>6 DEF NoToken, PageFails, GetReturns, TakePage, ListingReturns, Raises, Returns,
                        End, OutlivesInv, Prompt, OnTheWire
    <2> QED BY <1>0, <1>1, <1>2, <2>1 DEF OutlivesInv, Prompt, OnTheWire
  <1> QED BY <1>3, <1>4, <1>5, <1>6

\* A client enters get_token.
LEMMA AskOutlives ==
  ASSUME TypeOK, WireTypeOK, OutlivesInv, NEW t \in Threads, NEW s, NEW l, NEW place,
         Ask(t, s, l, place), pageSent' = pageSent
  PROVE  OutlivesInv'
  <1>0. /\ call \in [Threads -> Calls] /\ pc \in [Threads -> Phases]
        /\ held \in [Threads -> Entries \cup {NoEntry}]
        /\ returned \in [Threads -> Results \cup {NoResult}]
    BY DEF WireTypeOK, TypeOK
  <1>1. pc'[t] = "looked" /\ returned'[t] = NoResult /\ call'[t] = "token" /\ clock' = clock
    BY <1>0 DEF Ask, Call
  <1>2. ASSUME NEW u \in Threads \ {t}
        PROVE  /\ pc'[u] = pc[u] /\ held'[u] = held[u] /\ returned'[u] = returned[u]
               /\ call'[u] = call[u]
    BY <1>0 DEF Ask, Call
  <1>3. ASSUME NEW u \in Threads PROVE Lives(returned'[u]) /\ Prompt(u)'
    BY <1>1, <1>2 DEF OutlivesInv, Lives, Prompt, OnTheWire
  <1> QED BY <1>3 DEF OutlivesInv

LEMMA OutlivesStep ==
  ASSUME TypeOK, HonestInv, WireTypeOK, OutlivesInv, [LmsNext]_lmsVars
  PROVE  OutlivesInv'
  <1>1. ASSUME NEW t \in Threads, NEW s \in Services, NEW l \in ScopeLists,
               NEW what \in {"list", "get"}, Begin(t, s, l, what)
        PROVE  OutlivesInv'
    BY <1>1, AskOutlives DEF Begin
  <1>2. ASSUME NEW t \in Threads, OpenNext(t) PROVE OutlivesInv'
    BY <1>2, AskOutlives DEF OpenNext
  <1>3. ASSUME NEW t \in Threads,
               SendPage(t) \/ NoToken(t) \/ PageFails(t) \/ GetReturns(t) \/ TakePage(t)
               \/ ListingReturns(t) \/ PlatformServes(t) \/ PlatformTurnsDown(t) \/ Edit(t)
        PROVE  OutlivesInv'
    BY <1>3, ClientStepOutlives
  <1>4. ASSUME NEW t \in Threads, UNCHANGED ownVars,
               Tool(t) \/ PlatformMints(t) \/ PlatformRefuses(t)
        PROVE  OutlivesInv'
    BY <1>4, TokenStepOutlives
  <1>5. CASE LmsTick
    <2>1. /\ UNCHANGED <<pc, held, returned, call, pageSent>> /\ clock' = clock + 1
          /\ \A t \in Threads :
               /\ pc[t] # "fetched" /\ (call[t] = "token" => pc[t] # "idle")
               /\ call[t] \in OnTheWire => clock < pageSent[t] + PageTimeout
      BY <1>5 DEF LmsTick, Tick, ownVars
    <2>2. \A t \in Threads : pageSent[t] \in Nat
      BY TimeType DEF WireTypeOK
    <2>3. ASSUME NEW t \in Threads PROVE Prompt(t)'
      BY <2>1, <2>2, LmsNumbers DEF OutlivesInv, Prompt
    <2> QED BY <2>1, <2>3 DEF OutlivesInv
  <1>6. CASE UNCHANGED lmsVars
    BY <1>6 DEF lmsVars, ownVars, vars, OutlivesInv, Prompt
  <1> QED BY <1>1, <1>2, <1>3, <1>4, <1>5, <1>6
          DEF LmsNext, Client, Platform, GetsToken

\* A request is open for PageTimeout from when get_token returned its token.
LEMMA OutlivesBriefly == TypeOK /\ OutlivesInv => DeadOnlyBriefly
  <1> SUFFICES ASSUME TypeOK, OutlivesInv, NEW t \in Threads, call[t] = "expired",
                      returned[t].tok.says # "untold", ~(returned[t].tok.life <= Leeway)
               PROVE  clock < Dies(returned[t].tok) + Timeout + PageTimeout - Leeway
    BY DEF DeadOnlyBriefly
  <1>1. returned[t] # NoResult /\ Lives(returned[t]) /\ clock <= returned[t].at + PageTimeout
    BY DEF OutlivesInv, Prompt, OnTheWire
  <1>2. returned[t].tok.says \in {"told", "untold"} /\ returned[t].tok.life \in Nat
    BY <1>1, LmsNumbers, ParametersOK DEF TypeOK, Results, Tokens
  <1>3. returned[t].at + Leeway < Dies(returned[t].tok) + Timeout
    BY <1>1, <1>2, LmsNumbers DEF Lives, Long
  <1> QED BY <1>1, <1>3, LmsNumbers

\* However late a page of a listing is turned and whichever request made the token in
\* use, a request meets no token that died longer ago than the two timeouts exceed the
\* leeway: but for tokens that live no longer than the leeway, or whose life was not told.
THEOREM DeathsAreBrief == LmsSpec => []DeadOnlyBriefly
  <1>1. LmsInit => WireTypeOK /\ OutlivesInv
    BY InitOutlives
  <1>2. TypeOK /\ HonestInv /\ (WireTypeOK /\ OutlivesInv) /\ [LmsNext]_lmsVars
        => (WireTypeOK /\ OutlivesInv)'
    BY WireStep, OutlivesStep
  <1>3. TypeOK /\ OutlivesInv => DeadOnlyBriefly
    BY OutlivesBriefly
  <1> QED BY <1>1, <1>2, <1>3, ClientsUseTheService, HonestAlways, PTL DEF LmsSpec

-----------------------------------------------------------------------------
(* The types, and how deep a walk may go.                                    *)

PageOf(c, p) == [items |-> c.items[p], subs |-> c.subs[p]]

\* The functions that LmsTypeOK gives by their values only, and what waits to be
\* opened: nothing between two calls, and no module more than one level too deep.
OwnTyped ==
  /\ course \in [Threads -> Courses] /\ was \in [Threads -> SUBSET Courses]
  /\ \A t \in Threads :
       /\ call[t] \in Over => todo[t] = <<>> /\ seen[t] = {}
       /\ Lms[svc[t]] = "brightspace" => \A i \in DOMAIN todo[t] : todo[t][i].depth <= MaxDepth + 1

LmsTyped == LmsTypeOK /\ OwnTyped

\* What a step is to one thread, in its own variables.
SameWork(t) == todo'[t] = todo[t] /\ seen'[t] = seen[t] /\ open'[t] = open[t]
SameCourse(t) == course'[t] = course[t] /\ was'[t] = was[t]
SameCall(t) == job'[t] = job[t] /\ svc'[t] = svc[t] /\ got'[t] = got[t]
Cleared(t) == /\ job'[t] = job[t] /\ svc'[t] = svc[t]
              /\ todo'[t] = <<>> /\ seen'[t] = {} /\ open'[t] = Nowhere /\ page'[t] = NoPage
              /\ course'[t] = NoCourse

Waits(t) ==
  /\ SameWork(t) /\ SameCourse(t) /\ SameCall(t) /\ page'[t] = page[t]
  /\ \/ call'[t] = call[t]
     \/ call[t] \in {"token", "asked"} /\ call'[t] \in {"asked", "refused", "expired"}

Starts(t) ==
  /\ call[t] \in Over /\ call'[t] = "token"
  /\ svc'[t] \in Services /\ job'[t] \in {"list", "get"}
  /\ \E c \in CoursesOf[svc'[t]] : course'[t] = c /\ was'[t] = {c}
  /\ open'[t] = Nowhere /\ got'[t] = [x \in Topics |-> 0]
  /\ todo'[t] = todo[t] /\ seen'[t] = seen[t] /\ page'[t] = page[t]

IsAnswered(t) ==
  /\ call[t] = "asked" /\ call'[t] = "answered"
  /\ page'[t] = PageOf(course[t], open[t].at)
  /\ SameWork(t) /\ SameCourse(t) /\ SameCall(t)

Counted(t) == got'[t] = [x \in Topics |-> got[t][x] + IF x \in page[t].items THEN 1 ELSE 0]
Below(t) == [i \in DOMAIN page[t].subs |-> [at |-> page[t].subs[i], depth |-> open[t].depth + 1]]

Takes(t) ==
  /\ job[t] = "list" /\ call[t] = "answered" /\ call'[t] = "next"
  /\ \/ Lms[svc[t]] = "canvas" /\ Counted(t) /\ todo'[t] = Below(t)
     \/ /\ Lms[svc[t]] = "brightspace" /\ open[t].depth <= MaxDepth
        /\ Counted(t) /\ todo'[t] = Below(t) \o todo[t]
     \/ /\ Lms[svc[t]] = "brightspace" /\ ~(open[t].depth <= MaxDepth)
        /\ got'[t] = got[t] /\ todo'[t] = todo[t]
  /\ seen'[t] = seen[t] /\ open'[t] = open[t] /\ page'[t] = NoPage
  /\ SameCourse(t) /\ job'[t] = job[t] /\ svc'[t] = svc[t]

Opens(t) ==
  /\ call[t] = "next" /\ call'[t] = "token"
  /\ \E i \in DOMAIN todo[t] :
       /\ MayOpen(t, todo[t][i]) /\ \A j \in 1 .. i - 1 : ~MayOpen(t, todo[t][j])
       /\ open'[t] = todo[t][i] /\ todo'[t] = SubSeq(todo[t], i + 1, Len(todo[t]))
       /\ seen'[t] = IF Lms[svc[t]] = "brightspace" THEN seen[t] \cup {todo[t][i].at} ELSE seen[t]
  /\ SameCourse(t) /\ SameCall(t) /\ page'[t] = page[t]

IsEdited(t) ==
  /\ call[t] \notin Over /\ call'[t] = call[t]
  /\ \E c \in CoursesOf[svc[t]] \ was[t] : course'[t] = c /\ was'[t] = was[t] \cup {c}
  /\ SameWork(t) /\ SameCall(t) /\ page'[t] = page[t]

Ends(t) ==
  /\ Cleared(t) /\ call'[t] = "done" /\ got'[t] = got[t] /\ was'[t] = was[t]
  /\ \/ job[t] = "get"
     \/ call[t] = "next" /\ \A i \in DOMAIN todo[t] : ~MayOpen(t, todo[t][i])

IsRaised(t) ==
  Cleared(t) /\ call'[t] = "raised" /\ got'[t] = [x \in Topics |-> 0] /\ was'[t] = {}

Moves(t) ==
  \/ Waits(t) \/ Starts(t) \/ IsAnswered(t) \/ Takes(t) \/ Opens(t) \/ IsEdited(t)
  \/ Ends(t) \/ IsRaised(t)

LEMMA OwnFunctions ==
  ASSUME LmsTyped
  PROVE  /\ course \in [Threads -> Courses] /\ was \in [Threads -> SUBSET Courses]
         /\ job \in [Threads -> {"list", "get"}] /\ call \in [Threads -> Calls]
         /\ todo \in [Threads -> Seq(Places)] /\ seen \in [Threads -> SUBSET Containers]
         /\ open \in [Threads -> Places] /\ page \in [Threads -> Pages]
         /\ got \in [Threads -> [Topics -> Nat]] /\ svc \in [Threads -> Services]
         /\ pageSent \in [Threads -> 0 .. MaxClock]
         /\ scopes \in [Threads -> ScopeLists \ {<<>>}]
  BY DEF LmsTyped, LmsTypeOK, OwnTyped, TypeOK

\* What a thread does is a move of its own and leaves the others as they are.
LEMMA ThreadMoves ==
  ASSUME LmsTyped, NEW t \in Threads,
         \/ \E s \in Services, l \in ScopeLists, what \in {"list", "get"} : Begin(t, s, l, what)
         \/ Client(t) \/ Platform(t) \/ Edit(t)
  PROVE  Moves(t) /\ \A u \in Threads \ {t} : Waits(u)
  <1>0. /\ course \in [Threads -> Courses] /\ was \in [Threads -> SUBSET Courses]
        /\ job \in [Threads -> {"list", "get"}] /\ call \in [Threads -> Calls]
        /\ todo \in [Threads -> Seq(Places)] /\ seen \in [Threads -> SUBSET Containers]
        /\ open \in [Threads -> Places] /\ page \in [Threads -> Pages]
        /\ got \in [Threads -> [Topics -> Nat]] /\ svc \in [Threads -> Services]
    BY OwnFunctions
  <1>1. ASSUME NEW s \in Services, NEW l \in ScopeLists, NEW what \in {"list", "get"},
               Begin(t, s, l, what)
        PROVE  Starts(t) /\ \A u \in Threads \ {t} : Waits(u)
    BY <1>0, <1>1 DEF Begin, Ask, Call, Starts, Waits, SameWork, SameCourse, SameCall
  <1>2. CASE GetsToken(t) \/ ((PlatformMints(t) \/ PlatformRefuses(t)) /\ UNCHANGED ownVars)
    <2>1. svc' = svc /\ UNCHANGED ownVars
      BY <1>2 DEF GetsToken, Tool, Serve, Send, Receive, Fail, Store, Return, Done,
                  PlatformMints, PlatformRefuses
    <2> QED BY <2>1 DEF ownVars, Moves, Waits, SameWork, SameCourse, SameCall
  <1>3. CASE SendPage(t) \/ PlatformTurnsDown(t)
    BY <1>0, <1>3 DEF SendPage, PlatformTurnsDown, vars, Moves, Waits, SameWork, SameCourse, SameCall
  <1>4. CASE NoToken(t) \/ PageFails(t)
    <2>1. Raises(t)
      BY <1>4 DEF NoToken, PageFails
    <2> QED BY <1>0, <2>1 DEF Raises, End, vars, Moves, IsRaised, Cleared, Waits, SameWork,
                              SameCourse, SameCall
  <1>5. CASE GetReturns(t) \/ ListingReturns(t)
    <2>1. /\ Returns(t)
          /\ \/ job[t] = "get"
             \/ call[t] = "next" /\ \A i \in DOMAIN todo[t] : ~MayOpen(t, todo[t][i])
      BY <1>5 DEF GetReturns, ListingReturns
    <2> QED BY <1>0, <2>1 DEF Returns, End, vars, Moves, Ends, Cleared, Waits, SameWork,
                              SameCourse, SameCall
  <1>6. CASE PlatformServes(t)
    BY <1>0, <1>6 DEF PlatformServes, vars, Moves, IsAnswered, PageOf, Waits, SameWork,
                      SameCourse, SameCall
  <1>7. CASE Edit(t)
    BY <1>0, <1>7 DEF Edit, vars, Moves, IsEdited, Waits, SameWork, SameCourse, SameCall
  <1>8. CASE OpenNext(t)
    <2>1. PICK i \in DOMAIN todo[t] :
            /\ MayOpen(t, todo[t][i]) /\ \A j \in 1 .. i - 1 : ~MayOpen(t, todo[t][j])
            /\ Ask(t, svc[t], scopes[t], todo[t][i])
            /\ todo' = [todo EXCEPT ![t] = SubSeq(todo[t], i + 1, Len(todo[t]))]
            /\ seen' = [seen EXCEPT ![t] = IF Lms[svc[t]] = "brightspace"
                                           THEN @ \cup {todo[t][i].at} ELSE @]
      BY <1>8 DEF OpenNext
    <2>2. /\ open' = [open EXCEPT ![t] = todo[t][i]] /\ call' = [call EXCEPT ![t] = "token"]
          /\ svc' = [svc EXCEPT ![t] = svc[t]]
      BY <2>1 DEF Ask, Call
    <2>3. call[t] = "next" /\ UNCHANGED <<course, job, page, got, was>>
      BY <1>8 DEF OpenNext
    <2>4. svc' = svc
      BY <1>0, <2>2
    <2>5. /\ call'[t] = "token" /\ open'[t] = todo[t][i]
          /\ todo'[t] = SubSeq(todo[t], i + 1, Len(todo[t]))
          /\ seen'[t] = IF Lms[svc[t]] = "brightspace" THEN seen[t] \cup {todo[t][i].at}
                                                       ELSE seen[t]
      BY <1>0, <2>1, <2>2
    <2>6. SameCourse(t) /\ SameCall(t)
      BY <2>3, <2>4 DEF SameCourse, SameCall
    <2>7. Opens(t)
      BY <2>1, <2>3, <2>5, <2>6 DEF Opens
    <2>8. ASSUME NEW u \in Threads \ {t} PROVE Waits(u)
      <3>1. /\ call'[u] = call[u] /\ open'[u] = open[u] /\ todo'[u] = todo[u]
            /\ seen'[u] = seen[u]
        BY <1>0, <2>1, <2>2
      <3> QED BY <2>3, <2>4, <3>1 DEF Waits, SameWork, SameCourse, SameCall
    <2> QED BY <2>7, <2>8 DEF Moves
  <1>9. CASE TakePage(t)
    <2>1. Takes(t)
      BY <1>0, <1>9 DEF TakePage, CanvasTakes, BrightspaceTakes, WithinDepth, Add, vars, Takes,
                        Counted, Below, SameCourse
    <2>2. \A u \in Threads \ {t} : Waits(u)
      BY <1>0, <1>9 DEF TakePage, CanvasTakes, BrightspaceTakes, Add, vars, Waits, SameWork,
                        SameCourse, SameCall
    <2> QED BY <2>1, <2>2 DEF Moves
  <1> QED BY <1>1, <1>2, <1>3, <1>4, <1>5, <1>6, <1>7, <1>8, <1>9 DEF Client, Platform, Moves

LEMMA StepMoves ==
  ASSUME LmsTyped, [LmsNext]_lmsVars, NEW t \in Threads
  PROVE  Moves(t)
  <1>1. UNCHANGED <<svc, ownVars>> => Waits(t)
    BY DEF ownVars, Waits, SameWork, SameCourse, SameCall
  <1>2. LmsTick \/ UNCHANGED lmsVars => UNCHANGED <<svc, ownVars>>
    BY DEF LmsTick, Tick, lmsVars, vars
  <1> QED BY <1>1, <1>2, ThreadMoves DEF LmsNext, Moves

\* The own variables stay functions on the threads.
LEMMA StepFunctions ==
  ASSUME LmsTyped, [LmsNext]_lmsVars
  PROVE  /\ course' = [t \in Threads |-> course'[t]] /\ was' = [t \in Threads |-> was'[t]]
         /\ job' = [t \in Threads |-> job'[t]] /\ todo' = [t \in Threads |-> todo'[t]]
         /\ seen' = [t \in Threads |-> seen'[t]] /\ open' = [t \in Threads |-> open'[t]]
         /\ page' = [t \in Threads |-> page'[t]] /\ got' = [t \in Threads |-> got'[t]]
  <1> DEFINE P == /\ course' = [t \in Threads |-> course'[t]] /\ was' = [t \in Threads |-> was'[t]]
                  /\ job' = [t \in Threads |-> job'[t]] /\ todo' = [t \in Threads |-> todo'[t]]
                  /\ seen' = [t \in Threads |-> seen'[t]] /\ open' = [t \in Threads |-> open'[t]]
                  /\ page' = [t \in Threads |-> page'[t]] /\ got' = [t \in Threads |-> got'[t]]
  <1>0. /\ course \in [Threads -> Courses] /\ was \in [Threads -> SUBSET Courses]
        /\ job \in [Threads -> {"list", "get"}]
        /\ todo \in [Threads -> Seq(Places)] /\ seen \in [Threads -> SUBSET Containers]
        /\ open \in [Threads -> Places] /\ page \in [Threads -> Pages]
        /\ got \in [Threads -> [Topics -> Nat]]
    BY OwnFunctions
  <1>1. UNCHANGED ownVars => P
    BY <1>0 DEF ownVars
  <1>2. ASSUME NEW t \in Threads, NEW s \in Services, NEW l \in ScopeLists,
               NEW what \in {"list", "get"}, Begin(t, s, l, what)
        PROVE  P
    BY <1>0, <1>2 DEF Begin, Ask
  <1>3. ASSUME NEW t \in Threads, Raises(t) \/ Returns(t) PROVE P
    BY <1>0, <1>3 DEF Raises, Returns, End
  <1>4. ASSUME NEW t \in Threads, SendPage(t) \/ PlatformServes(t) \/ PlatformTurnsDown(t) \/ Edit(t)
        PROVE  P
    BY <1>0, <1>4 DEF SendPage, PlatformServes, PlatformTurnsDown, Edit
  <1>5. ASSUME NEW t \in Threads, TakePage(t) PROVE P
    BY <1>0, <1>5 DEF TakePage, CanvasTakes, BrightspaceTakes, Add
  <1>6. ASSUME NEW t \in Threads, OpenNext(t) PROVE P
    BY <1>0, <1>6 DEF OpenNext, Ask
  <1>7. ASSUME NEW t \in Threads, Client(t) \/ Platform(t) PROVE P
    BY <1>1, <1>3, <1>4, <1>5, <1>6, <1>7
       DEF Client, Platform, GetsToken, NoToken, PageFails, GetReturns, ListingReturns
  <1> HIDE DEF P
  <1>8. P
    BY <1>1, <1>2, <1>4, <1>7 DEF LmsNext, LmsTick, lmsVars
  <1> QED BY <1>8 DEF P

LEMMA CourseTypes ==
  /\ NoCourse \in Courses /\ NoPage \in Pages /\ Nowhere \in Places
  /\ \A s \in Services : CoursesOf[s] \subseteq Courses
  /\ \A c \in Courses, p \in Containers : PageOf(c, p) \in Pages
  <1>1. \A s \in Services : CoursesOf[s] \subseteq Courses
    BY LmsParametersOK
  <1>2. \A c \in Courses, p \in Containers : PageOf(c, p) \in Pages
    BY DEF Courses, PageOf, Pages
  <1>3. Root \in Containers
    BY LmsParametersOK
  <1>4. <<>> \in Seq(Containers)
    OBVIOUS
  <1>5. NoCourse \in Courses
    BY <1>4 DEF NoCourse, Courses
  <1>6. NoPage \in Pages
    BY <1>4 DEF NoPage, Pages
  <1>7. Nowhere \in Places
    BY <1>3 DEF Nowhere, Places
  <1> QED BY <1>1, <1>2, <1>5, <1>6, <1>7

\* What a page leads to is a way to go on.
LEMMA BelowPlaces ==
  ASSUME NEW subs \in Seq(Containers), NEW d \in Nat
  PROVE  [i \in DOMAIN subs |-> [at |-> subs[i], depth |-> d + 1]] \in Seq(Places)
  <1>1. \A i \in DOMAIN subs : [at |-> subs[i], depth |-> d + 1] \in Places
    BY DEF Places
  <1>2. DOMAIN subs = 1 .. Len(subs) /\ Len(subs) \in Nat
    OBVIOUS
  <1> QED BY <1>1, <1>2

LEMMA BelowTyped ==
  ASSUME LmsTyped, NEW t \in Threads
  PROVE  /\ Below(t) \in Seq(Places) /\ Len(Below(t)) = Len(page[t].subs)
         /\ DOMAIN Below(t) = DOMAIN page[t].subs
         /\ \A i \in DOMAIN Below(t) : /\ Below(t)[i].at = page[t].subs[i]
                                       /\ Below(t)[i].depth = open[t].depth + 1
  <1>1. page[t].subs \in Seq(Containers) /\ open[t].depth \in Nat
    BY OwnFunctions DEF Pages, Places
  <1>2. Below(t) \in Seq(Places)
    BY <1>1, BelowPlaces DEF Below
  <1>3. DOMAIN Below(t) = DOMAIN page[t].subs
    BY DEF Below
  <1>4. Len(Below(t)) = Len(page[t].subs)
    BY <1>1, <1>2, <1>3
  <1>5. \A i \in DOMAIN Below(t) : /\ Below(t)[i].at = page[t].subs[i]
                                   /\ Below(t)[i].depth = open[t].depth + 1
    BY DEF Below
  <1> QED BY <1>2, <1>3, <1>4, <1>5

\* One thread's types after a move.
LEMMA MoveTyped ==
  ASSUME LmsTyped, NEW t \in Threads, Moves(t)
  PROVE  /\ course'[t] \in Courses /\ was'[t] \in SUBSET Courses
         /\ job'[t] \in {"list", "get"}
         /\ todo'[t] \in Seq(Places) /\ seen'[t] \in SUBSET Containers
         /\ open'[t] \in Places /\ page'[t] \in Pages /\ got'[t] \in [Topics -> Nat]
         /\ course'[t] \in CoursesOf[svc'[t]] \cup {NoCourse}
         /\ was'[t] \subseteq CoursesOf[svc'[t]]
         /\ open'[t].depth <= IF Lms[svc'[t]] = "canvas" THEN MaxPages - 1 ELSE MaxDepth + 1
         /\ call'[t] \in Over => todo'[t] = <<>> /\ seen'[t] = {}
         /\ Lms[svc'[t]] = "brightspace" =>
              \A i \in DOMAIN todo'[t] : todo'[t][i].depth <= MaxDepth + 1
  <1>0. /\ course[t] \in Courses /\ was[t] \in SUBSET Courses
        /\ job[t] \in {"list", "get"} /\ call[t] \in Calls
        /\ todo[t] \in Seq(Places) /\ seen[t] \in SUBSET Containers
        /\ open[t] \in Places /\ page[t] \in Pages /\ got[t] \in [Topics -> Nat]
        /\ svc[t] \in Services
    BY OwnFunctions
  <1>1. /\ course[t] \in CoursesOf[svc[t]] \cup {NoCourse} /\ was[t] \subseteq CoursesOf[svc[t]]
        /\ open[t].depth <= IF Lms[svc[t]] = "canvas" THEN MaxPages - 1 ELSE MaxDepth + 1
        /\ call[t] \in Over => todo[t] = <<>> /\ seen[t] = {}
        /\ Lms[svc[t]] = "brightspace" => \A i \in DOMAIN todo[t] : todo[t][i].depth <= MaxDepth + 1
    BY DEF LmsTyped, LmsTypeOK, OwnTyped
  <1>2. /\ MaxPages \in Nat \ {0} /\ MaxDepth \in Nat
        /\ \A s \in Services : Lms[s] \in {"canvas", "brightspace"}
    BY LmsParametersOK
  <1>3. [x \in Topics |-> 0] \in [Topics -> Nat]
    OBVIOUS
  <1>4. CASE Waits(t)
    <2>1. call'[t] \in Over => call[t] \in Over
      BY <1>4 DEF Waits, Over
    <2> QED BY <1>0, <1>1, <1>4, <2>1 DEF Waits, SameWork, SameCourse, SameCall
  <1>5. CASE Starts(t)
    <2>1. todo'[t] = <<>> /\ seen'[t] = {} /\ page'[t] = page[t]
      BY <1>1, <1>5 DEF Starts
    <2>2. PICK c \in CoursesOf[svc'[t]] : course'[t] = c /\ was'[t] = {c}
      BY <1>5 DEF Starts
    <2>3. c \in Courses /\ svc'[t] \in Services
      BY <1>5, <2>2, CourseTypes DEF Starts
    <2>4. open'[t] = Nowhere /\ Nowhere \in Places /\ Nowhere.depth = 0
      BY <1>5, CourseTypes DEF Starts, Nowhere
    <2>5. got'[t] = [x \in Topics |-> 0] /\ job'[t] \in {"list", "get"}
      BY <1>5 DEF Starts
    <2> QED BY <1>0, <1>2, <1>3, <2>1, <2>2, <2>3, <2>4, <2>5
  <1>6. CASE IsAnswered(t)
    <2>1. page'[t] \in Pages
      <3>1. open[t].at \in Containers
        BY <1>0 DEF Places
      <3> QED BY <1>0, <1>6, <3>1, CourseTypes DEF IsAnswered
    <2>2. call'[t] \notin Over
      BY <1>6 DEF IsAnswered, Over
    <2> QED BY <1>0, <1>1, <1>6, <2>1, <2>2 DEF IsAnswered, SameWork, SameCourse, SameCall
  <1>7. CASE Takes(t)
    <2>1. /\ Below(t) \in Seq(Places)
          /\ \A i \in DOMAIN Below(t) : Below(t)[i].depth = open[t].depth + 1
      BY BelowTyped
    <2>2. page'[t] = NoPage /\ seen'[t] = seen[t] /\ open'[t] = open[t] /\ call'[t] \notin Over
      BY <1>7 DEF Takes, Over
    <2>3. SameCourse(t) /\ job'[t] = job[t] /\ svc'[t] = svc[t]
      BY <1>7 DEF Takes
    <2>4. got'[t] \in [Topics -> Nat]
      <3>1. [x \in Topics |-> got[t][x] + IF x \in page[t].items THEN 1 ELSE 0] \in [Topics -> Nat]
        BY <1>0
      <3> QED BY <1>0, <1>7, <3>1 DEF Takes, Counted
    <2>5. todo'[t] \in Seq(Places)
      <3>1. todo[t] \in Seq(Places) /\ Below(t) \o todo[t] \in Seq(Places)
        BY <1>0, <2>1
      <3>2. todo'[t] \in {todo[t], Below(t), Below(t) \o todo[t]}
        BY <1>7 DEF Takes
      <3> QED BY <2>1, <3>1, <3>2
    <2>6. ASSUME Lms[svc[t]] = "brightspace", NEW i \in DOMAIN todo'[t]
          PROVE  todo'[t][i].depth <= MaxDepth + 1
      <3>1. CASE open[t].depth <= MaxDepth /\ todo'[t] = Below(t) \o todo[t]
        <4>1. CASE i \in DOMAIN Below(t)
          <5>1. todo'[t][i] = Below(t)[i]
            BY <1>0, <2>1, <3>1, <4>1
          <5>2. open[t].depth \in Nat
            BY <1>0 DEF Places
          <5> QED BY <1>2, <2>1, <3>1, <4>1, <5>1, <5>2
        <4>2. CASE i \notin DOMAIN Below(t)
          <5>1. i - Len(Below(t)) \in DOMAIN todo[t] /\ todo'[t][i] = todo[t][i - Len(Below(t))]
            BY <1>0, <2>1, <2>6, <3>1, <4>2
          <5> QED BY <1>1, <2>6, <5>1
        <4> QED BY <4>1, <4>2
      <3>2. CASE todo'[t] = todo[t]
        BY <1>1, <2>6, <3>2
      <3> QED BY <1>7, <2>6, <3>1, <3>2 DEF Takes
    <2> QED BY <1>0, <1>1, <2>2, <2>3, <2>4, <2>5, <2>6, CourseTypes DEF SameCourse
  <1>8. CASE Opens(t)
    <2>1. PICK i \in DOMAIN todo[t] :
            /\ MayOpen(t, todo[t][i])
            /\ open'[t] = todo[t][i] /\ todo'[t] = SubSeq(todo[t], i + 1, Len(todo[t]))
            /\ seen'[t] = IF Lms[svc[t]] = "brightspace" THEN seen[t] \cup {todo[t][i].at} ELSE seen[t]
      BY <1>8 DEF Opens
    <2>2. todo[t][i] \in Places
      BY <1>0
    <2>3. /\ todo'[t] \in Seq(Places)
          /\ \A j \in DOMAIN todo'[t] : i + j \in DOMAIN todo[t] /\ todo'[t][j] = todo[t][i + j]
      BY <1>0, <2>1
    <2>4. open'[t].depth <= IF Lms[svc[t]] = "canvas" THEN MaxPages - 1 ELSE MaxDepth + 1
      <3>1. todo[t][i].depth \in Nat
        BY <2>2 DEF Places
      <3> QED BY <1>0, <1>1, <1>2, <2>1, <3>1 DEF MayOpen
    <2>5. seen'[t] \in SUBSET Containers
      BY <1>0, <2>1, <2>2 DEF Places
    <2>6. call'[t] \notin Over /\ SameCourse(t) /\ SameCall(t) /\ page'[t] = page[t]
      BY <1>8 DEF Opens, Over
    <2> QED BY <1>0, <1>1, <2>1, <2>2, <2>3, <2>4, <2>5, <2>6 DEF SameCourse, SameCall
  <1>9. CASE IsEdited(t)
    <2>1. PICK c \in CoursesOf[svc[t]] : course'[t] = c /\ was'[t] = was[t] \cup {c}
      BY <1>9 DEF IsEdited
    <2>2. c \in Courses
      BY <1>0, <2>1, CourseTypes
    <2> QED BY <1>0, <1>1, <1>9, <2>1, <2>2 DEF IsEdited, SameWork, SameCall
  <1>10. CASE Ends(t) \/ IsRaised(t)
    <2>1. Cleared(t) /\ got'[t] \in [Topics -> Nat] /\ was'[t] \in {was[t], {}}
      BY <1>0, <1>3, <1>10 DEF Ends, IsRaised
    <2>2. Nowhere.depth = 0
      BY DEF Nowhere
    <2> QED BY <1>0, <1>1, <1>2, <2>1, <2>2, CourseTypes DEF Cleared
  <1> QED BY <1>4, <1>5, <1>6, <1>7, <1>8, <1>9, <1>10 DEF Moves

LEMMA InitTyped == LmsInit => LmsTyped
  <1> SUFFICES ASSUME LmsInit PROVE LmsTyped
    OBVIOUS
  <1>1. /\ MaxPages \in Nat \ {0} /\ MaxDepth \in Nat /\ 0 \in 0 .. MaxClock
    BY LmsParametersOK, ParametersOK
  <1>2. Init /\ TypeOK
    BY InitType DEF LmsInit
  <1>3. \A t \in Threads : course[t] = NoCourse /\ was[t] = {} /\ todo[t] = <<>> /\ seen[t] = {}
                           /\ open[t] = Nowhere /\ pc[t] = "idle"
    BY <1>2 DEF LmsInit, Init
  <1>4. Nowhere.depth = 0
    BY DEF Nowhere
  <1>5. OwnTyped
    BY <1>3, CourseTypes DEF LmsInit, OwnTyped
  <1>6. LmsTypeOK
    BY <1>1, <1>2, <1>3, <1>4, CourseTypes DEF LmsInit, LmsTypeOK, Calls, Over
  <1> QED BY <1>5, <1>6 DEF LmsTyped

\* get_token is entered by a request of the thread, and by nothing else.
LEMMA StepInToken ==
  ASSUME LmsTyped, [LmsNext]_lmsVars, NEW u \in Threads, pc'[u] # "idle"
  PROVE  call'[u] = "token"
  <1>0. /\ pc \in [Threads -> Phases] /\ call \in [Threads -> Calls]
        /\ \A t \in Threads : pc[t] # "idle" => call[t] = "token"
    BY OwnFunctions DEF LmsTyped, LmsTypeOK, TypeOK
  <1>1. ASSUME NEW t \in Threads, NEW s \in Services, NEW l \in ScopeLists,
               NEW what \in {"list", "get"}, Begin(t, s, l, what)
        PROVE  call'[u] = "token"
    BY <1>0, <1>1 DEF Begin, Ask, Call
  <1>2. ASSUME NEW t \in Threads, OpenNext(t) PROVE call'[u] = "token"
    BY <1>0, <1>2 DEF OpenNext, Ask, Call
  <1>3. ASSUME NEW t \in Threads, UNCHANGED ownVars,
               Tool(t) \/ PlatformMints(t) \/ PlatformRefuses(t)
        PROVE  call'[u] = "token"
    BY <1>0, <1>3 DEF ownVars, Tool, Serve, Send, Receive, Fail, Store, Return, Done,
                      PlatformMints, PlatformRefuses, InFlight
  <1>4. ASSUME NEW t \in Threads,
               SendPage(t) \/ NoToken(t) \/ PageFails(t) \/ GetReturns(t) \/ TakePage(t)
               \/ ListingReturns(t) \/ PlatformServes(t) \/ PlatformTurnsDown(t) \/ Edit(t)
        PROVE  call'[u] = "token"
    <2>1. pc'[u] = pc[u] /\ (u # t => call'[u] = call[u]) /\ (Edit(t) => call'[u] = call[u])
      BY <1>0, <1>4 DEF vars, SendPage, NoToken, PageFails, GetReturns, TakePage, ListingReturns,
                        PlatformServes, PlatformTurnsDown, Edit, Raises, Returns, End
    <2>2. u = t => pc[u] = "idle" \/ Edit(t)
      BY <1>0, <1>4 DEF SendPage, NoToken, PageFails, GetReturns, TakePage, ListingReturns,
                        PlatformServes, PlatformTurnsDown, OnTheWire
    <2> QED BY <1>0, <2>1, <2>2
  <1>5. CASE LmsTick \/ UNCHANGED lmsVars
    BY <1>0, <1>5 DEF LmsTick, Tick, ownVars, lmsVars, vars
  <1> QED BY <1>1, <1>2, <1>3, <1>4, <1>5 DEF LmsNext, Client, Platform, GetsToken

LEMMA TypedStep == LmsTyped /\ [LmsNext]_lmsVars => LmsTyped'
  <1> SUFFICES ASSUME LmsTyped, [LmsNext]_lmsVars PROVE LmsTyped'
    OBVIOUS
  <1>1. TypeOK'
    BY ClientStep, NextType DEF LmsTyped, LmsTypeOK
  <1>2. WireTypeOK'
    BY WireStep DEF LmsTyped, LmsTypeOK, WireTypeOK
  <1>3. \A t \in Threads : Moves(t)
    BY StepMoves
  <1>4. \A t \in Threads :
          /\ course'[t] \in Courses /\ was'[t] \in SUBSET Courses
          /\ job'[t] \in {"list", "get"}
          /\ todo'[t] \in Seq(Places) /\ seen'[t] \in SUBSET Containers
          /\ open'[t] \in Places /\ page'[t] \in Pages /\ got'[t] \in [Topics -> Nat]
    BY <1>3, MoveTyped
  <1>5. \A t \in Threads :
          /\ course'[t] \in CoursesOf[svc'[t]] \cup {NoCourse}
          /\ was'[t] \subseteq CoursesOf[svc'[t]]
          /\ open'[t].depth <= IF Lms[svc'[t]] = "canvas" THEN MaxPages - 1 ELSE MaxDepth + 1
          /\ call'[t] \in Over => todo'[t] = <<>> /\ seen'[t] = {}
          /\ Lms[svc'[t]] = "brightspace" =>
               \A i \in DOMAIN todo'[t] : todo'[t][i].depth <= MaxDepth + 1
    BY <1>3, MoveTyped
  <1>6. /\ course' \in [Threads -> Courses] /\ was' \in [Threads -> SUBSET Courses]
        /\ job' \in [Threads -> {"list", "get"}]
        /\ todo' \in [Threads -> Seq(Places)] /\ seen' \in [Threads -> SUBSET Containers]
        /\ open' \in [Threads -> Places] /\ page' \in [Threads -> Pages]
        /\ got' \in [Threads -> [Topics -> Nat]]
    BY <1>4, StepFunctions
  <1>7. \A t \in Threads : pc'[t] # "idle" => call'[t] = "token"
    BY StepInToken
  <1>8. OwnTyped'
    BY <1>5, <1>6 DEF OwnTyped
  <1>9. LmsTypeOK'
    BY <1>1, <1>2, <1>5, <1>6, <1>7 DEF LmsTypeOK, WireTypeOK
  <1> QED BY <1>8, <1>9 DEF LmsTyped

LEMMA TypedAlways == LmsSpec => []LmsTyped
  <1> QED BY InitTyped, TypedStep, PTL DEF LmsSpec

\* LmsClients is well typed, no page after the last one allowed is asked for, no module
\* more than one level too deep, and get_token is called by requests only.
THEOREM LmsTypeCorrect == LmsSpec => []LmsTypeOK
  <1>1. LmsTyped => LmsTypeOK
    BY DEF LmsTyped
  <1> QED BY <1>1, TypedAlways, PTL

-----------------------------------------------------------------------------
(* No topic twice for one module.                                            *)

\* The course a call is about is one of those it is judged by, and so is every answer.
CourseInv(t) ==
  /\ IsFiniteSet(was[t])
  /\ call[t] \notin Over => course[t] \in was[t]
  /\ call[t] = "answered" => \E c \in was[t] : page[t] = PageOf(c, open[t].at)

\* The modules, the root among them, whose topics were added or given up.
Opened(t) ==
  IF call[t] \in Over THEN Containers
  ELSE (seen[t] \cup {Root}) \ (IF call[t] = "next" THEN {} ELSE {open[t].at})

\* Those that hold a topic in one of the given courses.
Holding(cs, x, S) == {p \in S : \E c \in cs : x \in c.items[p]}

\* A walk marks a module before it asks for it, and never goes back to the root.
OnceInv(t) ==
  Lms[svc[t]] = "brightspace" =>
    /\ \A i \in DOMAIN todo[t] : todo[t][i].at # Root
    /\ call[t] \notin Over => open[t].at \in seen[t] \cup {Root}
    /\ \A x \in Topics : got[t][x] <= Cardinality(Holding(was[t], x, Opened(t)))

LEMMA CourseStep ==
  ASSUME LmsTyped, NEW t \in Threads, CourseInv(t), Moves(t)
  PROVE  CourseInv(t)'
  <1>1. CASE Waits(t)
    BY <1>1 DEF Waits, SameWork, SameCourse, SameCall, CourseInv, Over
  <1>2. CASE Starts(t)
    <2>1. PICK c \in CoursesOf[svc'[t]] : course'[t] = c /\ was'[t] = {c}
      BY <1>2 DEF Starts
    <2>2. IsFiniteSet({c})
      BY FS_Singleton
    <2> QED BY <1>2, <2>1, <2>2 DEF Starts, CourseInv
  <1>3. CASE IsAnswered(t)
    BY <1>3 DEF IsAnswered, SameWork, SameCourse, SameCall, CourseInv, Over
  <1>4. CASE Takes(t) \/ Opens(t)
    BY <1>4 DEF Takes, Opens, SameCourse, CourseInv, Over
  <1>5. CASE IsEdited(t)
    <2>1. PICK c : course'[t] = c /\ was'[t] = was[t] \cup {c}
      BY <1>5 DEF IsEdited
    <2>2. IsFiniteSet(was'[t])
      BY <2>1, FS_AddElement DEF CourseInv
    <2> QED BY <1>5, <2>1, <2>2 DEF IsEdited, SameWork, CourseInv
  <1>6. CASE Ends(t) \/ IsRaised(t)
    <2>1. IsFiniteSet({})
      BY FS_EmptySet
    <2> QED BY <1>6, <2>1 DEF Ends, IsRaised, CourseInv, Over
  <1> QED BY <1>1, <1>2, <1>3, <1>4, <1>5, <1>6 DEF Moves

\* Sets of containers are finite, and larger ones, or more courses, hold a topic more often.
LEMMA HoldingMore ==
  ASSUME NEW cs, NEW ds, cs \subseteq ds, NEW x,
         NEW S \in SUBSET Containers, NEW T \in SUBSET Containers, S \subseteq T
  PROVE  /\ Cardinality(Holding(cs, x, S)) \in Nat /\ Cardinality(Holding(ds, x, T)) \in Nat
         /\ Cardinality(Holding(cs, x, S)) <= Cardinality(Holding(ds, x, T))
  <1>1. IsFiniteSet(Containers)
    BY LmsParametersOK
  <1>2. Holding(ds, x, T) \subseteq Containers /\ Holding(cs, x, S) \subseteq Holding(ds, x, T)
    BY DEF Holding
  <1>3. IsFiniteSet(Holding(ds, x, T)) /\ IsFiniteSet(Holding(cs, x, S))
    BY <1>1, <1>2, FS_Subset
  <1> QED BY <1>2, <1>3, FS_Subset, FS_CardinalityType

LEMMA HoldingOneMore ==
  ASSUME NEW cs, NEW c \in cs, NEW x, NEW S \in SUBSET Containers, NEW p \in Containers \ S,
         x \in c.items[p]
  PROVE  Cardinality(Holding(cs, x, S \cup {p})) = Cardinality(Holding(cs, x, S)) + 1
  <1>1. IsFiniteSet(Holding(cs, x, S))
    <2>1. IsFiniteSet(Containers) /\ Holding(cs, x, S) \subseteq Containers
      BY LmsParametersOK DEF Holding
    <2> QED BY <2>1, FS_Subset
  <1>2. Holding(cs, x, S \cup {p}) = Holding(cs, x, S) \cup {p} /\ p \notin Holding(cs, x, S)
    BY DEF Holding
  <1>3. Cardinality(Holding(cs, x, S) \cup {p}) = Cardinality(Holding(cs, x, S)) + 1
    BY <1>1, <1>2, FS_AddElement
  <1> QED BY <1>2, <1>3

LEMMA OpenedSets ==
  ASSUME LmsTyped, NEW t \in Threads
  PROVE  Opened(t) \in SUBSET Containers /\ Opened(t)' \in SUBSET (Containers \cup seen'[t])
  BY OwnFunctions, LmsParametersOK DEF Opened

\* A page of a Brightspace course leads to modules, not to the root.
LEMMA BelowIsNoRoot ==
  ASSUME LmsTyped, NEW t \in Threads, CourseInv(t), Lms[svc[t]] = "brightspace", call[t] = "answered"
  PROVE  \A i \in DOMAIN Below(t) : Below(t)[i].at # Root
  <1>1. PICK c \in was[t] : page[t] = PageOf(c, open[t].at)
    BY DEF CourseInv
  <1>2. c \in CoursesOf[svc[t]] /\ open[t].at \in Containers /\ svc[t] \in Services
    BY OwnFunctions DEF LmsTyped, LmsTypeOK, Places
  <1>3. \A i \in DOMAIN c.subs[open[t].at] : c.subs[open[t].at][i] # Root
    BY <1>2, LmsParametersOK
  <1> QED BY <1>1, <1>3, BelowTyped DEF PageOf

LEMMA OnceStep ==
  ASSUME LmsTyped, NEW t \in Threads, CourseInv(t), OnceInv(t), Moves(t)
  PROVE  OnceInv(t)'
  <1>0. /\ todo[t] \in Seq(Places) /\ seen[t] \in SUBSET Containers /\ open[t] \in Places
        /\ got[t] \in [Topics -> Nat] /\ Root \in Containers /\ Opened(t) \in SUBSET Containers
        /\ open[t].at \in Containers /\ "idle" \in Over /\ "done" \in Over /\ "raised" \in Over
        /\ \A c \in {"token", "next", "asked", "answered", "refused", "expired"} : c \notin Over
    BY OwnFunctions, OpenedSets, LmsParametersOK DEF Places, Over
  <1> SUFFICES ASSUME Lms[svc'[t]] = "brightspace"
               PROVE  /\ \A i \in DOMAIN todo'[t] : todo'[t][i].at # Root
                      /\ call'[t] \notin Over => open'[t].at \in seen'[t] \cup {Root}
                      /\ \A x \in Topics :
                           got'[t][x] <= Cardinality(Holding(was'[t], x, Opened(t)'))
    BY DEF OnceInv, Holding
  <1>1. CASE Waits(t)
    <2>1. Opened(t)' = Opened(t)
      BY <1>0, <1>1 DEF Waits, SameWork, Opened
    <2>2. call'[t] \notin Over => call[t] \notin Over
      BY <1>0, <1>1 DEF Waits
    <2> QED BY <1>1, <2>1, <2>2 DEF Waits, SameWork, SameCourse, SameCall, OnceInv
  <1>2. CASE Starts(t)
    <2>1. todo'[t] = <<>> /\ open'[t].at = Root
      BY <1>2 DEF Starts, Nowhere, LmsTyped, OwnTyped
    <2>2. seen'[t] = seen[t] /\ call'[t] = "token" /\ \A x \in Topics : got'[t][x] = 0
      BY <1>2 DEF Starts
    <2>3. Opened(t)' \in SUBSET Containers
      BY <1>0, <2>2, OpenedSets
    <2>4. \A x : Cardinality(Holding(was'[t], x, Opened(t)')) \in Nat
      BY <2>3, HoldingMore
    <2>5. \A n \in Nat : 0 <= n
      OBVIOUS
    <2> QED BY <2>1, <2>2, <2>4, <2>5
  <1>3. CASE IsAnswered(t)
    <2>1. Opened(t)' = Opened(t)
      BY <1>0, <1>3 DEF IsAnswered, SameWork, Opened
    <2> QED BY <1>0, <1>3, <2>1 DEF IsAnswered, SameWork, SameCourse, SameCall, OnceInv
  <1>4. CASE Takes(t)
    <2>1. /\ call[t] = "answered" /\ call'[t] = "next" /\ svc'[t] = svc[t] /\ was'[t] = was[t]
          /\ seen'[t] = seen[t] /\ open'[t] = open[t]
      BY <1>4 DEF Takes, SameCourse
    <2>2. /\ open[t].at \in seen[t] \cup {Root}
          /\ \A i \in DOMAIN todo[t] : todo[t][i].at # Root
          /\ \A x \in Topics : got[t][x] <= Cardinality(Holding(was[t], x, Opened(t)))
      BY <1>0, <2>1 DEF OnceInv
    <2>3. Opened(t)' = Opened(t) \cup {open[t].at} /\ open[t].at \notin Opened(t)
      BY <1>0, <2>1, <2>2 DEF Opened
    <2>4. ASSUME NEW i \in DOMAIN todo'[t] PROVE todo'[t][i].at # Root
      <3>1. Below(t) \in Seq(Places) /\ \A j \in DOMAIN Below(t) : Below(t)[j].at # Root
        BY <2>1, BelowTyped, BelowIsNoRoot
      <3>2. CASE todo'[t] = Below(t) \o todo[t]
        <4>1. CASE i \in DOMAIN Below(t)
          BY <1>0, <3>1, <3>2, <4>1
        <4>2. CASE i \notin DOMAIN Below(t)
          <5>1. i - Len(Below(t)) \in DOMAIN todo[t] /\ todo'[t][i] = todo[t][i - Len(Below(t))]
            BY <1>0, <2>4, <3>1, <3>2, <4>2
          <5> QED BY <2>2, <5>1
        <4> QED BY <4>1, <4>2
      <3>3. CASE todo'[t] = todo[t]
        BY <2>2, <2>4, <3>3
      <3>4. CASE Lms[svc[t]] = "canvas"
        BY <2>1, <3>4
      <3> QED BY <1>4, <3>2, <3>3, <3>4 DEF Takes
    <2>5. ASSUME NEW x \in Topics
          PROVE  got'[t][x] <= Cardinality(Holding(was'[t], x, Opened(t)'))
      <3>0. PICK c \in was[t] : page[t] = PageOf(c, open[t].at)
        BY <2>1 DEF CourseInv
      <3>1. page[t].items = c.items[open[t].at]
        BY <3>0 DEF PageOf
      <3>2. /\ Cardinality(Holding(was[t], x, Opened(t))) \in Nat
            /\ Cardinality(Holding(was[t], x, Opened(t)')) \in Nat
            /\ Cardinality(Holding(was[t], x, Opened(t))) <= Cardinality(Holding(was[t], x, Opened(t)'))
        BY <1>0, <2>3, HoldingMore
      <3>3. x \in page[t].items =>
              Cardinality(Holding(was[t], x, Opened(t)')) =
                Cardinality(Holding(was[t], x, Opened(t))) + 1
        <4>1. x \in c.items[open[t].at] =>
                Cardinality(Holding(was[t], x, Opened(t) \cup {open[t].at})) =
                  Cardinality(Holding(was[t], x, Opened(t))) + 1
          BY <1>0, <2>3, HoldingOneMore
        <4> QED BY <2>3, <3>1, <4>1
      <3>4. got'[t][x] = got[t][x] \/ got'[t][x] = got[t][x] + IF x \in page[t].items THEN 1 ELSE 0
        BY <1>4 DEF Takes, Counted
      <3>5. got[t][x] \in Nat /\ got[t][x] <= Cardinality(Holding(was[t], x, Opened(t)))
        BY <1>0, <2>2
      <3> QED BY <2>1, <3>2, <3>3, <3>4, <3>5
    <2> QED BY <2>1, <2>2, <2>4, <2>5
  <1>5. CASE Opens(t)
    <2>1. PICK i \in DOMAIN todo[t] :
            /\ MayOpen(t, todo[t][i])
            /\ open'[t] = todo[t][i] /\ todo'[t] = SubSeq(todo[t], i + 1, Len(todo[t]))
            /\ seen'[t] = IF Lms[svc[t]] = "brightspace" THEN seen[t] \cup {todo[t][i].at} ELSE seen[t]
      BY <1>5 DEF Opens
    <2>2. /\ call[t] = "next" /\ call'[t] = "token" /\ svc'[t] = svc[t] /\ was'[t] = was[t]
          /\ got'[t] = got[t]
      BY <1>5 DEF Opens, SameCourse, SameCall
    <2>3. todo[t][i].at # Root /\ todo[t][i].at \notin seen[t]
      BY <2>1, <2>2 DEF OnceInv, MayOpen
    <2>4. \A j \in DOMAIN todo'[t] : i + j \in DOMAIN todo[t] /\ todo'[t][j] = todo[t][i + j]
      BY <1>0, <2>1
    <2>5. Opened(t)' = Opened(t)
      BY <1>0, <2>1, <2>2, <2>3 DEF Opened
    <2> QED BY <2>1, <2>2, <2>3, <2>4, <2>5 DEF OnceInv
  <1>6. CASE IsEdited(t)
    <2>1. /\ was[t] \subseteq was'[t] /\ call[t] \notin Over /\ call'[t] = call[t]
          /\ todo'[t] = todo[t] /\ open'[t] = open[t] /\ seen'[t] = seen[t]
          /\ got'[t] = got[t] /\ svc'[t] = svc[t]
      BY <1>6 DEF IsEdited, SameWork, SameCall
    <2>2. Opened(t)' = Opened(t)
      BY <2>1 DEF Opened
    <2>3. ASSUME NEW x \in Topics
          PROVE  got'[t][x] <= Cardinality(Holding(was'[t], x, Opened(t)'))
      <3>1. /\ Cardinality(Holding(was[t], x, Opened(t))) \in Nat
            /\ Cardinality(Holding(was'[t], x, Opened(t))) \in Nat
            /\ Cardinality(Holding(was[t], x, Opened(t))) <= Cardinality(Holding(was'[t], x, Opened(t)))
        BY <1>0, <2>1, HoldingMore
      <3>2. got[t][x] \in Nat /\ got[t][x] <= Cardinality(Holding(was[t], x, Opened(t)))
        BY <1>0, <2>1 DEF OnceInv
      <3> QED BY <2>1, <2>2, <3>1, <3>2
    <2> QED BY <2>1, <2>3 DEF OnceInv
  <1>7. CASE Ends(t)
    <2>1. Opened(t)' = Containers /\ todo'[t] = <<>> /\ call'[t] \in Over
      BY <1>0, <1>7 DEF Ends, Cleared, Opened
    <2>2. ASSUME NEW x \in Topics
          PROVE  got[t][x] <= Cardinality(Holding(was[t], x, Containers))
      <3>1. got[t][x] <= Cardinality(Holding(was[t], x, Opened(t)))
        BY <1>7 DEF OnceInv, Ends, Cleared
      <3>2. /\ Cardinality(Holding(was[t], x, Opened(t))) \in Nat
            /\ Cardinality(Holding(was[t], x, Containers)) \in Nat
            /\ Cardinality(Holding(was[t], x, Opened(t))) <= Cardinality(Holding(was[t], x, Containers))
        BY <1>0, HoldingMore
      <3>3. got[t][x] \in Nat
        BY <1>0
      <3> QED BY <3>1, <3>2, <3>3
    <2> QED BY <1>7, <2>1, <2>2 DEF Ends
  <1>8. CASE IsRaised(t)
    <2>1. was'[t] = {} /\ todo'[t] = <<>> /\ call'[t] \in Over /\ \A x \in Topics : got'[t][x] = 0
      BY <1>0, <1>8 DEF IsRaised, Cleared
    <2>2. \A x : Cardinality(Holding(was'[t], x, Opened(t)')) = 0
      BY <2>1, FS_EmptySet DEF Holding
    <2> QED BY <2>1, <2>2
  <1> QED BY <1>1, <1>2, <1>3, <1>4, <1>5, <1>6, <1>7, <1>8 DEF Moves

WalksOnce == \A t \in Threads : CourseInv(t) /\ OnceInv(t)

LEMMA OnceAlways == LmsSpec => []WalksOnce
  <1>1. LmsInit => WalksOnce
    <2> SUFFICES ASSUME LmsInit, NEW t \in Threads PROVE CourseInv(t) /\ OnceInv(t)
      BY DEF WalksOnce
    <2>1. call[t] = "idle" /\ was[t] = {} /\ todo[t] = <<>>
      BY DEF LmsInit
    <2>2. \A x : Cardinality(Holding(was[t], x, Opened(t))) = 0
      BY <2>1, FS_EmptySet DEF Holding
    <2>3. \A x \in Topics : got[t][x] = 0
      BY DEF LmsInit
    <2> QED BY <2>1, <2>2, <2>3, FS_EmptySet DEF CourseInv, OnceInv, Over
  <1>2. LmsTyped /\ WalksOnce /\ [LmsNext]_lmsVars => WalksOnce'
    BY StepMoves, CourseStep, OnceStep DEF WalksOnce
  <1> QED BY <1>1, <1>2, TypedAlways, PTL DEF LmsSpec

\* list_course_topics returns a topic at most once for each module that held it at some
\* time during the call, however many ways lead to a module, even in circles, and
\* however the course is edited meanwhile.
THEOREM EachModuleOnce == LmsSpec => []NoModuleTwice
  <1>1. LmsTyped /\ WalksOnce => NoModuleTwice
    <2> SUFFICES ASSUME LmsTyped, WalksOnce, NEW t \in Threads, Lms[svc[t]] = "brightspace",
                        NEW x \in Topics
                 PROVE  got[t][x] <= Cardinality({p \in Containers : \E c \in was[t] : x \in c.items[p]})
      BY DEF NoModuleTwice
    <2>1. got[t][x] <= Cardinality(Holding(was[t], x, Opened(t)))
      BY DEF WalksOnce, OnceInv
    <2>2. Opened(t) \in SUBSET Containers
      BY OpenedSets
    <2>3. /\ Cardinality(Holding(was[t], x, Opened(t))) \in Nat
          /\ Cardinality(Holding(was[t], x, Containers)) \in Nat
          /\ Cardinality(Holding(was[t], x, Opened(t))) <= Cardinality(Holding(was[t], x, Containers))
      BY <2>2, HoldingMore
    <2>4. got[t][x] \in Nat
      BY OwnFunctions
    <2>5. got[t][x] <= Cardinality(Holding(was[t], x, Containers))
      BY <2>1, <2>3, <2>4
    <2> QED BY <2>5 DEF Holding
  <1> QED BY <1>1, TypedAlways, OnceAlways, PTL

-----------------------------------------------------------------------------
(* Listings are complete.                                                    *)

\* In every course there was since the call began, p holds x.
Stays(t, x, p) == \A c \in was[t] : x \in c.items[p]

IsWay(n, edges, w) ==
  w[0] = Root /\ \A i \in 1 .. n : <<w[i - 1], w[i]>> \in edges

\* Canvas: along a way of pages that stayed, those before the one at hand are added,
\* and what comes next is the next one of the way.
PagesInv(t) ==
  Lms[svc[t]] = "canvas" /\ job[t] = "list" /\ call[t] \notin Over =>
    \A n \in Nat : \A w \in [0 .. n -> Containers] : IsWay(n, KeptEdges(t), w) =>
      LET k == open[t].depth
      IN  /\ k <= n => open[t].at = w[k]
          /\ \A j \in 0 .. n : j < k \/ (j = k /\ call[t] = "next") =>
               \A x \in Topics : Stays(t, x, w[j]) => got[t][x] > 0
          /\ call[t] = "next" =>
               /\ k < n => todo[t] # <<>>
               /\ \A i \in DOMAIN todo[t] : /\ todo[t][i].depth = k + 1
                                            /\ k < n => todo[t][i].at = w[k + 1]

\* Brightspace: a way of n modules that were all marked, none of them twice.
Tree(n, edges, marked, x) ==
  \E w \in [0 .. n -> Containers] :
    /\ w[0] = Root /\ w[n] = x
    /\ \A i \in 1 .. n : <<w[i - 1], w[i]>> \in edges /\ w[i] \in marked
    /\ \A i, j \in 1 .. n : w[i] = w[j] => i = j

\* What waits was found in a module that such a way leads to.
Awaited(place, edges, marked) ==
  \E n \in Nat, y \in Containers :
    place.depth = n + 1 /\ Tree(n, edges, marked, y) /\ <<y, place.at>> \in edges

\* Module m was given up because a way to it is too long, or its topics were added
\* and its submodules were or will be opened.
Walked(t, m) ==
  \/ WayOf(MaxDepth + 1, SomeEdges(t), m, TRUE)
  \/ /\ \A q \in Containers : <<m, q>> \in KeptEdges(t) =>
          q \in seen[t] \/ \E i \in DOMAIN todo[t] : todo[t][i].at = q
     /\ \A x \in Topics : Stays(t, x, m) => got[t][x] > 0

WalkInv(t) ==
  Lms[svc[t]] = "brightspace" /\ job[t] = "list" /\ call[t] \notin Over =>
    /\ Tree(open[t].depth, SomeEdges(t), seen[t], open[t].at)
    /\ \A i \in DOMAIN todo[t] : Awaited(todo[t][i], SomeEdges(t), seen[t])
    /\ \A m \in Opened(t) : Walked(t, m)

Complete(t) ==
  job[t] = "list" /\ call[t] = "done" =>
    \A p \in Containers : \A x \in Topics :
      /\ Reaches(KeptEdges(t), Root, p) /\ (\A c \in was[t] : x \in c.items[p])
      /\ IF Lms[svc[t]] = "canvas"
         THEN \E n \in 0 .. MaxPages - 1 : WayOf(n, KeptEdges(t), p, FALSE)
         ELSE ~\E d \in Containers :
                 Reaches(KeptEdges(t), d, p) /\ WayOf(MaxDepth + 1, SomeEdges(t), d, TRUE)
      => got[t][x] > 0

CompleteInv(t) == PagesInv(t) /\ WalkInv(t) /\ Complete(t)

\* Courses that are added to those a call is judged by take edges and topics from what
\* stayed, and add edges to what there was.
LEMMA MoreCourses ==
  ASSUME NEW t \in Threads, was[t] \subseteq was'[t]
  PROVE  /\ KeptEdges(t)' \subseteq KeptEdges(t) /\ SomeEdges(t) \subseteq SomeEdges(t)'
         /\ \A x, p : Stays(t, x, p)' => Stays(t, x, p)
  BY DEF KeptEdges, SomeEdges, Stays, LeadsTo

LEMMA SameCourses ==
  ASSUME NEW t \in Threads, was'[t] = was[t]
  PROVE  /\ KeptEdges(t)' = KeptEdges(t) /\ SomeEdges(t)' = SomeEdges(t)
         /\ \A x, p : Stays(t, x, p)' = Stays(t, x, p)
  BY DEF KeptEdges, SomeEdges, Stays, LeadsTo

\* An answer leads where what stayed leads, nowhere that nothing ever led, and has the
\* topics that stayed.
LEMMA AnswerLeads ==
  ASSUME LmsTyped, NEW t \in Threads, CourseInv(t), call[t] = "answered"
  PROVE  /\ \A q \in Containers : <<open[t].at, q>> \in KeptEdges(t) =>
              \E i \in DOMAIN Below(t) : Below(t)[i].at = q
         /\ \A i \in DOMAIN Below(t) : /\ Below(t)[i].at \in Containers
                                       /\ <<open[t].at, Below(t)[i].at>> \in SomeEdges(t)
         /\ \A x \in Topics : Stays(t, x, open[t].at) => x \in page[t].items
         /\ Lms[svc[t]] = "canvas" => Len(Below(t)) <= 1
  <1>1. PICK c \in was[t] : page[t] = PageOf(c, open[t].at)
    BY DEF CourseInv
  <1>2. c \in CoursesOf[svc[t]] /\ open[t].at \in Containers /\ svc[t] \in Services /\ c \in Courses
    BY OwnFunctions, CourseTypes DEF LmsTyped, LmsTypeOK, Places
  <1>3. page[t].subs = c.subs[open[t].at] /\ page[t].items = c.items[open[t].at]
    BY <1>1 DEF PageOf
  <1>4. /\ DOMAIN Below(t) = DOMAIN c.subs[open[t].at] /\ Len(Below(t)) = Len(c.subs[open[t].at])
        /\ \A i \in DOMAIN Below(t) : Below(t)[i].at = c.subs[open[t].at][i]
    BY <1>3, BelowTyped
  <1>5. \A i \in DOMAIN c.subs[open[t].at] : c.subs[open[t].at][i] \in Containers
    BY <1>2 DEF Courses
  <1>6. \A q : LeadsTo(c, open[t].at, q) <=> \E i \in DOMAIN Below(t) : Below(t)[i].at = q
    BY <1>4 DEF LeadsTo
  <1>7. ASSUME NEW q \in Containers, <<open[t].at, q>> \in KeptEdges(t)
        PROVE  \E i \in DOMAIN Below(t) : Below(t)[i].at = q
    BY <1>1, <1>6, <1>7 DEF KeptEdges
  <1>8. ASSUME NEW i \in DOMAIN Below(t)
        PROVE  /\ Below(t)[i].at \in Containers
               /\ <<open[t].at, Below(t)[i].at>> \in SomeEdges(t)
    <2>1. Below(t)[i].at \in Containers /\ LeadsTo(c, open[t].at, Below(t)[i].at)
      BY <1>4, <1>5, <1>6
    <2> QED BY <1>1, <1>2, <2>1 DEF SomeEdges
  <1>9. \A x \in Topics : Stays(t, x, open[t].at) => x \in page[t].items
    BY <1>1, <1>3 DEF Stays
  <1>10. Lms[svc[t]] = "canvas" => Len(Below(t)) <= 1
    BY <1>2, <1>4, LmsParametersOK
  <1> QED BY <1>7, <1>8, <1>9, <1>10

\* What an answer holds is counted, and no count goes down.
LEMMA CountedCounts ==
  ASSUME LmsTyped, NEW t \in Threads, Counted(t), NEW x \in Topics
  PROVE  /\ got[t][x] > 0 => got'[t][x] > 0
         /\ x \in page[t].items => got'[t][x] > 0
  <1>1. got[t][x] \in Nat
    BY OwnFunctions
  <1>2. got'[t][x] = got[t][x] + IF x \in page[t].items THEN 1 ELSE 0
    BY DEF Counted
  <1> QED BY <1>1, <1>2

-----------------------------------------------------------------------------
(* Canvas.                                                                   *)

LEMMA PagesStep ==
  ASSUME LmsTyped, NEW t \in Threads, CourseInv(t), PagesInv(t), Moves(t)
  PROVE  PagesInv(t)'
  <1>0. /\ todo[t] \in Seq(Places) /\ open[t] \in Places /\ open[t].depth \in Nat
        /\ \A c \in {"token", "next", "asked", "answered", "refused", "expired"} : c \notin Over
        /\ "done" \in Over /\ "raised" \in Over
    BY OwnFunctions DEF Places, Over
  <1> SUFFICES ASSUME Lms[svc'[t]] = "canvas", job'[t] = "list", call'[t] \notin Over,
                      NEW n \in Nat, NEW w \in [0 .. n -> Containers], IsWay(n, KeptEdges(t)', w)
               PROVE  LET k == open'[t].depth
                      IN  /\ k <= n => open'[t].at = w[k]
                          /\ \A j \in 0 .. n : j < k \/ (j = k /\ call'[t] = "next") =>
                               \A x \in Topics : Stays(t, x, w[j])' => got'[t][x] > 0
                          /\ call'[t] = "next" =>
                               /\ k < n => todo'[t] # <<>>
                               /\ \A i \in DOMAIN todo'[t] :
                                    /\ todo'[t][i].depth = k + 1
                                    /\ k < n => todo'[t][i].at = w[k + 1]
    BY DEF PagesInv, IsWay
  <1>1. ASSUME svc'[t] = svc[t], job'[t] = job[t], call[t] \notin Over, was[t] \subseteq was'[t]
        PROVE  LET k == open[t].depth
               IN  /\ IsWay(n, KeptEdges(t), w)
                   /\ k <= n => open[t].at = w[k]
                   /\ \A j \in 0 .. n : j < k \/ (j = k /\ call[t] = "next") =>
                        \A x \in Topics : Stays(t, x, w[j])' => got[t][x] > 0
                   /\ call[t] = "next" =>
                        /\ k < n => todo[t] # <<>>
                        /\ \A i \in DOMAIN todo[t] : /\ todo[t][i].depth = k + 1
                                                     /\ k < n => todo[t][i].at = w[k + 1]
    <2>1. IsWay(n, KeptEdges(t), w)
      BY <1>1, MoreCourses DEF IsWay
    <2>2. LET k == open[t].depth
          IN  /\ k <= n => open[t].at = w[k]
              /\ \A j \in 0 .. n : j < k \/ (j = k /\ call[t] = "next") =>
                   \A x \in Topics : Stays(t, x, w[j]) => got[t][x] > 0
              /\ call[t] = "next" =>
                   /\ k < n => todo[t] # <<>>
                   /\ \A i \in DOMAIN todo[t] : /\ todo[t][i].depth = k + 1
                                                /\ k < n => todo[t][i].at = w[k + 1]
      BY <1>1, <2>1 DEF PagesInv
    <2>3. \A x, p : Stays(t, x, p)' => Stays(t, x, p)
      BY <1>1, MoreCourses
    <2> QED BY <2>1, <2>2, <2>3
  <1>2. CASE Waits(t) \/ IsEdited(t)
    <2>1. /\ svc'[t] = svc[t] /\ job'[t] = job[t] /\ call[t] \notin Over /\ was[t] \subseteq was'[t]
          /\ open'[t] = open[t] /\ got'[t] = got[t] /\ todo'[t] = todo[t]
          /\ call'[t] = "next" => call[t] = "next"
      BY <1>0, <1>2 DEF Waits, IsEdited, SameWork, SameCourse, SameCall
    <2> QED BY <1>1, <2>1
  <1>3. CASE Starts(t)
    <2>1. open'[t].at = Root /\ open'[t].depth = 0 /\ call'[t] = "token"
      BY <1>3 DEF Starts, Nowhere
    <2> QED BY <2>1 DEF IsWay
  <1>4. CASE IsAnswered(t)
    <2>1. /\ svc'[t] = svc[t] /\ job'[t] = job[t] /\ call[t] \notin Over /\ was'[t] = was[t]
          /\ open'[t] = open[t] /\ got'[t] = got[t] /\ call'[t] # "next"
      BY <1>0, <1>4 DEF IsAnswered, SameWork, SameCourse, SameCall
    <2> QED BY <1>1, <2>1
  <1>5. CASE Takes(t)
    <2>1. /\ svc'[t] = svc[t] /\ job'[t] = job[t] /\ call[t] = "answered" /\ call'[t] = "next"
          /\ was'[t] = was[t] /\ open'[t] = open[t] /\ Counted(t) /\ todo'[t] = Below(t)
      BY <1>5 DEF Takes, SameCourse
    <2> DEFINE k == open[t].depth
    <2>2. /\ IsWay(n, KeptEdges(t), w)
          /\ k <= n => open[t].at = w[k]
          /\ \A j \in 0 .. n : j < k => \A x \in Topics : Stays(t, x, w[j])' => got[t][x] > 0
      BY <1>0, <1>1, <2>1
    <2>3. /\ Below(t) \in Seq(Places)
          /\ \A i \in DOMAIN Below(t) : Below(t)[i].depth = k + 1
      BY BelowTyped
    <2>4. ASSUME k < n
          PROVE  Below(t) # <<>> /\ \A i \in DOMAIN Below(t) : Below(t)[i].at = w[k + 1]
      <3>1. <<w[k], w[k + 1]>> \in KeptEdges(t) /\ w[k] = open[t].at /\ w[k + 1] \in Containers
        <4>1. k + 1 \in 1 .. n /\ (k + 1) - 1 = k
          BY <1>0, <2>4
        <4> QED BY <2>2, <2>4, <4>1 DEF IsWay
      <3>2. PICK i \in DOMAIN Below(t) : Below(t)[i].at = w[k + 1]
        BY <2>1, <3>1, AnswerLeads
      <3>3. Len(Below(t)) <= 1
        BY <2>1, AnswerLeads
      <3>4. \A j \in DOMAIN Below(t) : j = i
        BY <2>3, <3>3
      <3> QED BY <3>2, <3>4
    <2>5. ASSUME NEW j \in 0 .. n, j < k \/ j = k, NEW x \in Topics, Stays(t, x, w[j])'
          PROVE  got'[t][x] > 0
      <3>1. CASE j < k
        BY <2>1, <2>2, <2>5, <3>1, CountedCounts
      <3>2. CASE j = k
        <4>1. w[j] = open[t].at
          BY <2>2, <2>5, <3>2
        <4>2. Stays(t, x, open[t].at)
          BY <2>1, <2>5, <4>1, SameCourses
        <4> QED BY <2>1, <4>2, AnswerLeads, CountedCounts
      <3> QED BY <2>5, <3>1, <3>2
    <2> QED BY <2>1, <2>2, <2>3, <2>4, <2>5
  <1>6. CASE Opens(t)
    <2>1. PICK i \in DOMAIN todo[t] : open'[t] = todo[t][i]
      BY <1>6 DEF Opens
    <2>2. /\ svc'[t] = svc[t] /\ job'[t] = job[t] /\ call[t] = "next" /\ call'[t] = "token"
          /\ was'[t] = was[t] /\ got'[t] = got[t]
      BY <1>6 DEF Opens, SameCourse, SameCall
    <2> DEFINE k == open[t].depth
    <2>3. k \in Nat /\ n \in Nat
      BY <1>0
    <2>4. call[t] \notin Over /\ was[t] \subseteq was'[t]
      BY <2>2 DEF Over
    <2>5. /\ \A j \in 0 .. n : j < k \/ (j = k /\ call[t] = "next") =>
               \A x \in Topics : Stays(t, x, w[j])' => got[t][x] > 0
          /\ call[t] = "next" =>
               \A l \in DOMAIN todo[t] : /\ todo[t][l].depth = k + 1
                                         /\ k < n => todo[t][l].at = w[k + 1]
      BY <1>1, <2>2, <2>4
    <2>6. \A j \in 0 .. n : j <= k => j < k \/ j = k
      BY <2>3
    <2>7. \A j \in 0 .. n : j <= k => \A x \in Topics : Stays(t, x, w[j])' => got[t][x] > 0
      BY <2>2, <2>5, <2>6
    <2>8. todo[t][i].depth = k + 1 /\ (k < n => todo[t][i].at = w[k + 1])
      BY <2>2, <2>5
    <2> HIDE DEF k
    <2>9. open'[t].depth = k + 1 /\ (k + 1 <= n => open'[t].at = w[k + 1])
      BY <2>1, <2>3, <2>8
    <2>10. \A j \in 0 .. n : j < k + 1 => j <= k
      BY <2>3
    <2> QED BY <2>2, <2>7, <2>9, <2>10
  <1>7. CASE Ends(t) \/ IsRaised(t)
    BY <1>0, <1>7 DEF Ends, IsRaised
  <1> QED BY <1>2, <1>3, <1>4, <1>5, <1>6, <1>7 DEF Moves

\* A listing of pages ends where the way ends, or after the last page allowed.
LEMMA PagesEnd ==
  ASSUME LmsTyped, NEW t \in Threads, PagesInv(t), Lms[svc[t]] = "canvas", job[t] = "list",
         call[t] = "next", \A i \in DOMAIN todo[t] : ~MayOpen(t, todo[t][i]),
         NEW n \in 0 .. MaxPages - 1, NEW p \in Containers, WayOf(n, KeptEdges(t), p, FALSE),
         NEW x \in Topics, Stays(t, x, p)
  PROVE  got[t][x] > 0
  <1>0. /\ todo[t] \in Seq(Places) /\ open[t].depth \in Nat /\ call[t] \notin Over
        /\ MaxPages \in Nat
    BY OwnFunctions, LmsParametersOK DEF Places, Over
  <1>1. PICK w \in [0 .. n -> Containers] : IsWay(n, KeptEdges(t), w) /\ w[n] = p
    BY DEF WayOf, IsWay
  <1> DEFINE k == open[t].depth
  <1>2. /\ \A j \in 0 .. n : j < k \/ j = k => \A y \in Topics : Stays(t, y, w[j]) => got[t][y] > 0
        /\ k < n => todo[t] # <<>>
        /\ \A i \in DOMAIN todo[t] : todo[t][i].depth = k + 1
    <2>1. n \in Nat
      OBVIOUS
    <2> QED BY <1>0, <1>1, <2>1 DEF PagesInv
  <1>3. ~(k < n)
    <2> SUFFICES ASSUME k < n PROVE FALSE
      OBVIOUS
    <2>1. 1 \in DOMAIN todo[t]
      BY <1>0, <1>2
    <2>2. todo[t][1].depth = k + 1 /\ ~MayOpen(t, todo[t][1])
      BY <1>2, <2>1
    <2>3. k + 1 < MaxPages
      BY <1>0
    <2> QED BY <2>2, <2>3 DEF MayOpen
  <1>4. n \in 0 .. n /\ (n < k \/ n = k)
    BY <1>0, <1>3
  <1> QED BY <1>1, <1>2, <1>4

-----------------------------------------------------------------------------
(* Brightspace.                                                              *)

LEMMA TreeMore ==
  ASSUME NEW n \in Nat, NEW E, NEW F, NEW M, NEW N, NEW x, E \subseteq F, M \subseteq N,
         Tree(n, E, M, x)
  PROVE  Tree(n, F, N, x)
  BY DEF Tree

LEMMA AwaitedMore ==
  ASSUME NEW place, NEW E, NEW F, NEW M, NEW N, E \subseteq F, M \subseteq N,
         Awaited(place, E, M)
  PROVE  Awaited(place, F, N)
  <1>1. PICK n \in Nat, y \in Containers :
          place.depth = n + 1 /\ Tree(n, E, M, y) /\ <<y, place.at>> \in E
    BY DEF Awaited
  <1>2. Tree(n, F, N, y)
    BY <1>1, TreeMore
  <1> QED BY <1>1, <1>2 DEF Awaited

\* The root is where every way begins.
LEMMA TreeOfRoot == ASSUME NEW E, NEW M PROVE Tree(0, E, M, Root)
  <1> DEFINE w == [i \in 0 .. 0 |-> Root]
  <1>1. w \in [0 .. 0 -> Containers] /\ w[0] = Root
    BY LmsParametersOK
  <1>2. 1 .. 0 = {}
    OBVIOUS
  <1> HIDE DEF w
  <1> QED BY <1>1, <1>2 DEF Tree

\* What waits and is not marked can be marked, and a way of marked modules leads to it.
LEMMA TreeGrows ==
  ASSUME NEW place \in Places, NEW E, NEW M, Awaited(place, E, M), place.at \notin M
  PROVE  Tree(place.depth, E, M \cup {place.at}, place.at)
  <1>1. PICK n \in Nat, y \in Containers :
          place.depth = n + 1 /\ Tree(n, E, M, y) /\ <<y, place.at>> \in E
    BY DEF Awaited
  <1>2. PICK w \in [0 .. n -> Containers] :
          /\ w[0] = Root /\ w[n] = y
          /\ \A i \in 1 .. n : <<w[i - 1], w[i]>> \in E /\ w[i] \in M
          /\ \A i, j \in 1 .. n : w[i] = w[j] => i = j
    BY <1>1 DEF Tree
  <1>3. PICK q : q = place.at
    OBVIOUS
  <1>4. q \in Containers /\ q \notin M
    BY <1>3 DEF Places
  <1> DEFINE v == [i \in 0 .. n + 1 |-> IF i = n + 1 THEN q ELSE w[i]]
  <1>5. /\ v \in [0 .. n + 1 -> Containers] /\ v[0] = Root /\ v[n + 1] = q
        /\ \A i \in 0 .. n : v[i] = w[i]
    BY <1>2, <1>4
  <1> HIDE DEF v
  <1>6. ASSUME NEW i \in 1 .. n + 1
        PROVE  <<v[i - 1], v[i]>> \in E /\ v[i] \in M \cup {q}
    <2>1. CASE i \in 1 .. n
      <3>1. v[i] = w[i] /\ v[i - 1] = w[i - 1]
        BY <1>5, <2>1
      <3> QED BY <1>2, <2>1, <3>1
    <2>2. CASE i = n + 1
      <3>1. v[i - 1] = y
        BY <1>2, <1>5, <2>2
      <3> QED BY <1>1, <1>3, <1>5, <2>2, <3>1
    <2> QED BY <2>1, <2>2
  <1>7. ASSUME NEW i \in 1 .. n + 1, NEW j \in 1 .. n + 1, v[i] = v[j] PROVE i = j
    <2>1. ASSUME NEW k \in 1 .. n PROVE v[k] = w[k] /\ v[k] # q
      <3>1. w[k] \in M
        BY <1>2
      <3>2. k \in 0 .. n
        OBVIOUS
      <3> QED BY <1>4, <1>5, <3>1, <3>2
    <2>2. i \in 1 .. n \/ i = n + 1
      OBVIOUS
    <2>3. j \in 1 .. n \/ j = n + 1
      OBVIOUS
    <2> QED BY <1>2, <1>5, <1>7, <2>1, <2>2, <2>3
  <1>8. Tree(n + 1, E, M \cup {q}, q)
    BY <1>5, <1>6, <1>7 DEF Tree
  <1> QED BY <1>1, <1>3, <1>8

LEMMA TreeIsWay ==
  ASSUME NEW n \in Nat, NEW E, NEW M, NEW x, Tree(n, E, M, x)
  PROVE  WayOf(n, E, x, TRUE)
  BY DEF Tree, WayOf

\* Nothing that counts for an opened module is lost.
LEMMA WalkedKept ==
  ASSUME LmsTyped, NEW t \in Threads, NEW m, Walked(t, m),
         was[t] \subseteq was'[t], seen[t] \subseteq seen'[t],
         \A x \in Topics : got[t][x] > 0 => got'[t][x] > 0,
         \A i \in DOMAIN todo[t] :
           \/ todo[t][i].at \in seen'[t]
           \/ \E j \in DOMAIN todo'[t] : todo'[t][j].at = todo[t][i].at
  PROVE  Walked(t, m)'
  <1>1. /\ KeptEdges(t)' \subseteq KeptEdges(t) /\ SomeEdges(t) \subseteq SomeEdges(t)'
        /\ \A x, p : Stays(t, x, p)' => Stays(t, x, p)
    BY MoreCourses
  <1>2. ASSUME WayOf(MaxDepth + 1, SomeEdges(t), m, TRUE)
        PROVE  WayOf(MaxDepth + 1, SomeEdges(t)', m, TRUE)
    BY <1>1, <1>2 DEF WayOf
  <1>3. ASSUME NEW q \in Containers, <<m, q>> \in KeptEdges(t)',
               q \in seen[t] \/ \E i \in DOMAIN todo[t] : todo[t][i].at = q
        PROVE  q \in seen'[t] \/ \E i \in DOMAIN todo'[t] : todo'[t][i].at = q
    BY <1>3
  <1>4. CASE WayOf(MaxDepth + 1, SomeEdges(t), m, TRUE)
    BY <1>2, <1>4 DEF Walked, WayOf
  <1>5. CASE /\ \A q \in Containers : <<m, q>> \in KeptEdges(t) =>
                  q \in seen[t] \/ \E i \in DOMAIN todo[t] : todo[t][i].at = q
             /\ \A x \in Topics : Stays(t, x, m) => got[t][x] > 0
    <2>1. \A q \in Containers : <<m, q>> \in KeptEdges(t)' =>
            q \in seen'[t] \/ \E i \in DOMAIN todo'[t] : todo'[t][i].at = q
      BY <1>1, <1>3, <1>5
    <2>2. ASSUME NEW x \in Topics, Stays(t, x, m)' PROVE got'[t][x] > 0
      BY <1>1, <1>5, <2>2
    <2> QED BY <2>1, <2>2 DEF Walked, Stays
  <1> QED BY <1>4, <1>5 DEF Walked

\* Where the walk is after a step that takes nothing from it.
LEMMA WalkKept ==
  ASSUME LmsTyped, NEW t \in Threads, WalkInv(t),
         Lms[svc[t]] = "brightspace", job[t] = "list", call[t] \notin Over,
         was[t] \subseteq was'[t], todo'[t] = todo[t], seen'[t] = seen[t], open'[t] = open[t],
         got'[t] = got[t], Opened(t)' = Opened(t)
  PROVE  WalkInv(t)'
  <1>1. SomeEdges(t) \subseteq SomeEdges(t)'
    BY MoreCourses
  <1>2. /\ Tree(open[t].depth, SomeEdges(t), seen[t], open[t].at)
        /\ \A i \in DOMAIN todo[t] : Awaited(todo[t][i], SomeEdges(t), seen[t])
        /\ \A m \in Opened(t) : Walked(t, m)
    BY DEF WalkInv
  <1>3. open[t].depth \in Nat
    BY OwnFunctions DEF Places
  <1>4. Tree(open'[t].depth, SomeEdges(t)', seen'[t], open'[t].at)
    BY <1>1, <1>2, <1>3, TreeMore
  <1>5. \A i \in DOMAIN todo'[t] : Awaited(todo'[t][i], SomeEdges(t)', seen'[t])
    BY <1>1, <1>2, AwaitedMore
  <1>6. \A m \in Opened(t)' : Walked(t, m)'
    BY <1>2, WalkedKept
  <1> QED BY <1>4, <1>5, <1>6 DEF WalkInv, Tree, Awaited

\* The answer of the open module is added, and what it leads to waits; or it lies too deep.
LEMMA TakesWalks ==
  ASSUME LmsTyped, NEW t \in Threads, CourseInv(t), OnceInv(t), WalkInv(t),
         Takes(t), Lms[svc[t]] = "brightspace"
  PROVE  WalkInv(t)'
  <1>0. /\ todo[t] \in Seq(Places) /\ open[t].depth \in Nat /\ open[t].at \in Containers
        /\ MaxDepth \in Nat
        /\ open[t].depth <= MaxDepth + 1 /\ call[t] \notin Over
    BY OwnFunctions, LmsParametersOK DEF LmsTyped, LmsTypeOK, Places, Takes, Over
  <1>1. /\ job[t] = "list" /\ call[t] = "answered" /\ call'[t] = "next"
        /\ seen'[t] = seen[t] /\ open'[t] = open[t] /\ was'[t] = was[t]
    BY DEF Takes, SameCourse
  <1>2. /\ Tree(open[t].depth, SomeEdges(t), seen[t], open[t].at)
        /\ \A i \in DOMAIN todo[t] : Awaited(todo[t][i], SomeEdges(t), seen[t])
        /\ \A m \in Opened(t) : Walked(t, m)
    BY <1>0, <1>1 DEF WalkInv
  <1>3. SomeEdges(t)' = SomeEdges(t) /\ KeptEdges(t)' = KeptEdges(t)
    BY <1>1, SameCourses
  <1>4. Opened(t)' = Opened(t) \cup {open[t].at}
    BY <1>0, <1>1 DEF Opened, OnceInv, Over
  <1>5. /\ Below(t) \in Seq(Places)
        /\ \A i \in DOMAIN Below(t) : Below(t)[i].depth = open[t].depth + 1
    BY BelowTyped
  <1>6. \A i \in DOMAIN Below(t) : Awaited(Below(t)[i], SomeEdges(t), seen[t])
    BY <1>0, <1>1, <1>2, <1>5, AnswerLeads DEF Awaited
  <1>7. CASE open[t].depth <= MaxDepth
    <2>1. Counted(t) /\ todo'[t] = Below(t) \o todo[t]
      BY <1>7 DEF Takes
    <2>2. /\ \A i \in DOMAIN Below(t) : i \in DOMAIN todo'[t] /\ todo'[t][i] = Below(t)[i]
          /\ \A i \in DOMAIN todo[t] : /\ i + Len(Below(t)) \in DOMAIN todo'[t]
                                       /\ todo'[t][i + Len(Below(t))] = todo[t][i]
          /\ \A i \in DOMAIN todo'[t] :
               \/ i \in DOMAIN Below(t)
               \/ i - Len(Below(t)) \in DOMAIN todo[t] /\ todo'[t][i] = todo[t][i - Len(Below(t))]
      BY <1>0, <1>5, <2>1
    <2>3. \A i \in DOMAIN todo'[t] : Awaited(todo'[t][i], SomeEdges(t)', seen'[t])
      BY <1>1, <1>2, <1>3, <1>6, <2>2
    <2>4. ASSUME NEW m \in Opened(t) PROVE Walked(t, m)'
      <3>1. \A x \in Topics : got[t][x] > 0 => got'[t][x] > 0
        BY <2>1, CountedCounts
      <3>2. \A i \in DOMAIN todo[t] : \E j \in DOMAIN todo'[t] : todo'[t][j].at = todo[t][i].at
        BY <2>2
      <3> QED BY <1>1, <1>2, <3>1, <3>2, WalkedKept
    <2>5. Walked(t, open[t].at)'
      <3>1. ASSUME NEW q \in Containers, <<open[t].at, q>> \in KeptEdges(t)
            PROVE  \E i \in DOMAIN todo'[t] : todo'[t][i].at = q
        <4>1. PICK i \in DOMAIN Below(t) : Below(t)[i].at = q
          BY <1>1, <3>1, AnswerLeads
        <4> QED BY <2>2, <4>1
      <3>2. ASSUME NEW x \in Topics, Stays(t, x, open[t].at) PROVE got'[t][x] > 0
        BY <1>1, <2>1, <3>2, AnswerLeads, CountedCounts
      <3>3. \A x, p : Stays(t, x, p)' => Stays(t, x, p)
        BY <1>1, MoreCourses
      <3>4. PICK m : m = open[t].at
        OBVIOUS
      <3>5. Walked(t, m)'
        BY <1>3, <3>1, <3>2, <3>3, <3>4 DEF Walked, Stays
      <3> QED BY <1>1, <3>4, <3>5
    <2>6. \A m \in Opened(t)' : Walked(t, m)'
      <3>1. PICK p : p = open[t].at
        OBVIOUS
      <3>2. Walked(t, p)'
        BY <1>1, <2>5, <3>1
      <3> QED BY <1>4, <2>4, <3>1, <3>2
    <2>7. Tree(open'[t].depth, SomeEdges(t)', seen'[t], open'[t].at)
      BY <1>1, <1>2, <1>3
    <2> QED BY <2>3, <2>6, <2>7 DEF WalkInv, Tree, Awaited
  <1>8. CASE ~(open[t].depth <= MaxDepth)
    <2>1. got'[t] = got[t] /\ todo'[t] = todo[t]
      BY <1>8 DEF Takes
    <2>2. open[t].depth = MaxDepth + 1
      BY <1>0, <1>8
    <2>3. WayOf(MaxDepth + 1, SomeEdges(t), open[t].at, TRUE)
      BY <1>0, <1>2, <2>2, TreeIsWay
    <2>4. ASSUME NEW m \in Opened(t) \cup {open[t].at} PROVE Walked(t, m)'
      <3>1. Walked(t, m)
        BY <1>2, <2>3 DEF Walked
      <3> QED BY <1>1, <2>1, <3>1, WalkedKept
    <2>5. \A m \in Opened(t)' : Walked(t, m)'
      BY <1>4, <2>4
    <2>6. \A i \in DOMAIN todo'[t] : Awaited(todo'[t][i], SomeEdges(t)', seen'[t])
      BY <1>1, <1>2, <1>3, <2>1
    <2>7. Tree(open'[t].depth, SomeEdges(t)', seen'[t], open'[t].at)
      BY <1>1, <1>2, <1>3
    <2> QED BY <2>5, <2>6, <2>7 DEF WalkInv, Tree, Awaited
  <1> QED BY <1>7, <1>8

LEMMA OpensWalks ==
  ASSUME LmsTyped, NEW t \in Threads, OnceInv(t), WalkInv(t), Opens(t),
         Lms[svc[t]] = "brightspace", job[t] = "list"
  PROVE  WalkInv(t)'
  <1>0. /\ todo[t] \in Seq(Places) /\ open[t].depth \in Nat /\ open[t].at \in Containers
        /\ seen[t] \in SUBSET Containers
    BY OwnFunctions DEF Places
  <1>1. PICK i \in DOMAIN todo[t] :
          /\ MayOpen(t, todo[t][i]) /\ \A j \in 1 .. i - 1 : ~MayOpen(t, todo[t][j])
          /\ open'[t] = todo[t][i] /\ todo'[t] = SubSeq(todo[t], i + 1, Len(todo[t]))
          /\ seen'[t] = seen[t] \cup {todo[t][i].at}
    BY DEF Opens
  <1>2. call[t] = "next" /\ call'[t] = "token" /\ was'[t] = was[t] /\ got'[t] = got[t]
    BY DEF Opens, SameCourse, SameCall
  <1>3. /\ \A j \in DOMAIN todo[t] : Awaited(todo[t][j], SomeEdges(t), seen[t])
        /\ \A m \in Opened(t) : Walked(t, m)
    BY <1>2 DEF WalkInv, Over
  <1>4. SomeEdges(t)' = SomeEdges(t)
    BY <1>2, SameCourses
  <1>5. todo[t][i] \in Places /\ todo[t][i].at \notin seen[t] /\ todo[t][i].at # Root
    BY <1>0, <1>1 DEF MayOpen, OnceInv
  <1>6. Opened(t)' = Opened(t)
    BY <1>0, <1>1, <1>2, <1>5 DEF Opened, Over
  <1>7. Tree(open'[t].depth, SomeEdges(t)', seen'[t], open'[t].at)
    <2>1. Awaited(todo[t][i], SomeEdges(t), seen[t])
      BY <1>3
    <2>2. Tree(todo[t][i].depth, SomeEdges(t), seen[t] \cup {todo[t][i].at}, todo[t][i].at)
      BY <1>5, <2>1, TreeGrows
    <2> QED BY <1>1, <1>4, <2>2
  <1>8. \A j \in DOMAIN todo'[t] : i + j \in DOMAIN todo[t] /\ todo'[t][j] = todo[t][i + j]
    BY <1>0, <1>1
  <1>9. ASSUME NEW j \in DOMAIN todo'[t]
        PROVE  Awaited(todo'[t][j], SomeEdges(t)', seen'[t])
    <2>1. Awaited(todo[t][i + j], SomeEdges(t), seen[t]) /\ seen[t] \subseteq seen'[t]
      BY <1>1, <1>3, <1>8
    <2>2. Awaited(todo[t][i + j], SomeEdges(t), seen'[t])
      BY <2>1, AwaitedMore
    <2> QED BY <1>4, <1>8, <2>2
  <1>10. ASSUME NEW j \in DOMAIN todo[t]
         PROVE  \/ todo[t][j].at \in seen'[t]
                \/ \E k \in DOMAIN todo'[t] : todo'[t][k].at = todo[t][j].at
    <2>1. CASE j < i
      <3>1. j \in 1 .. i - 1
        BY <1>0, <2>1
      <3>2. ~MayOpen(t, todo[t][j])
        BY <1>1, <3>1
      <3> QED BY <1>1, <3>2 DEF MayOpen
    <2>2. CASE j = i
      BY <1>1, <2>2
    <2>3. CASE j > i
      <3>1. j - i \in DOMAIN todo'[t] /\ todo'[t][j - i] = todo[t][j]
        BY <1>0, <1>1, <2>3
      <3> QED BY <3>1
    <2> QED BY <1>0, <2>1, <2>2, <2>3
  <1>11. \A m \in Opened(t)' : Walked(t, m)'
    BY <1>1, <1>2, <1>3, <1>6, <1>10, WalkedKept
  <1> QED BY <1>7, <1>9, <1>11 DEF WalkInv, Tree, Awaited

LEMMA WalkStep ==
  ASSUME LmsTyped, NEW t \in Threads, CourseInv(t), OnceInv(t), WalkInv(t), Moves(t)
  PROVE  WalkInv(t)'
  <1>0. /\ \A c \in {"token", "next", "asked", "answered", "refused", "expired"} : c \notin Over
        /\ "done" \in Over /\ "raised" \in Over
    BY DEF Over
  <1> SUFFICES ASSUME Lms[svc'[t]] = "brightspace", job'[t] = "list", call'[t] \notin Over
               PROVE  WalkInv(t)'
    BY DEF WalkInv
  <1>1. CASE Waits(t) \/ IsAnswered(t) \/ IsEdited(t)
    <2>1. /\ svc'[t] = svc[t] /\ job'[t] = job[t] /\ call[t] \notin Over /\ was[t] \subseteq was'[t]
          /\ open'[t] = open[t] /\ got'[t] = got[t] /\ todo'[t] = todo[t] /\ seen'[t] = seen[t]
          /\ call'[t] = "next" <=> call[t] = "next"
      BY <1>0, <1>1 DEF Waits, IsAnswered, IsEdited, SameWork, SameCourse, SameCall
    <2>2. Opened(t)' = Opened(t)
      BY <2>1 DEF Opened
    <2> QED BY <2>1, <2>2, WalkKept
  <1>2. CASE Starts(t)
    <2>1. /\ todo'[t] = <<>> /\ seen'[t] = {} /\ open'[t].at = Root /\ open'[t].depth = 0
          /\ call'[t] = "token"
      BY <1>2 DEF Starts, Nowhere, LmsTyped, OwnTyped
    <2>2. Opened(t)' = {}
      BY <1>0, <2>1 DEF Opened
    <2>3. Tree(0, SomeEdges(t)', seen'[t], Root)
      BY TreeOfRoot
    <2> QED BY <2>1, <2>2, <2>3 DEF WalkInv, Tree
  <1>3. CASE Takes(t)
    BY <1>3, TakesWalks DEF Takes
  <1>4. CASE Opens(t)
    BY <1>4, OpensWalks DEF Opens, SameCall
  <1>5. CASE Ends(t) \/ IsRaised(t)
    BY <1>0, <1>5 DEF Ends, IsRaised
  <1> QED BY <1>1, <1>2, <1>3, <1>4, <1>5 DEF Moves

\* A walk that has nothing left to open was everywhere it was to go: the modules it has
\* opened, but for those too deep, lead to no other one.
LEMMA WalkEnds ==
  ASSUME LmsTyped, NEW t \in Threads, WalkInv(t), Lms[svc[t]] = "brightspace", job[t] = "list",
         call[t] = "next", \A i \in DOMAIN todo[t] : ~MayOpen(t, todo[t][i]),
         NEW p \in Containers, Reaches(KeptEdges(t), Root, p),
         ~\E d \in Containers :
            Reaches(KeptEdges(t), d, p) /\ WayOf(MaxDepth + 1, SomeEdges(t), d, TRUE),
         NEW x \in Topics, Stays(t, x, p)
  PROVE  got[t][x] > 0
  <1> DEFINE kept == KeptEdges(t)
             Within == {q \in Containers : Reaches(kept, q, p) => q \in Opened(t)}
  <1>1. Opened(t) = seen[t] \cup {Root} /\ \A m \in Opened(t) : Walked(t, m)
    BY DEF Opened, WalkInv, Over
  <1>2. \A i \in DOMAIN todo[t] : todo[t][i].at \in seen[t]
    BY DEF MayOpen
  <1>3. ASSUME NEW m \in Opened(t), m \in Containers, Reaches(kept, m, p)
        PROVE  /\ \A q \in Containers : <<m, q>> \in kept => q \in seen[t]
               /\ \A y \in Topics : Stays(t, y, m) => got[t][y] > 0
    <2>1. ~WayOf(MaxDepth + 1, SomeEdges(t), m, TRUE)
      BY <1>3
    <2>2. Walked(t, m)
      BY <1>1, <1>3
    <2> QED BY <1>2, <2>1, <2>2 DEF Walked
  <1>4. ASSUME NEW e \in kept, Reaches(kept, e[2], p) PROVE Reaches(kept, e[1], p)
    BY <1>4 DEF Reaches
  <1>5. \A e \in kept : e[1] \in Containers /\ e[2] \in Containers /\ e = <<e[1], e[2]>>
    BY DEF KeptEdges
  <1> HIDE DEF kept
  <1>6. ASSUME NEW e \in kept, e[1] \in Within PROVE e[2] \in Within
    <2> SUFFICES ASSUME Reaches(kept, e[2], p) PROVE e[2] \in Opened(t)
      BY <1>5
    <2>1. Reaches(kept, e[1], p)
      BY <1>4
    <2>2. e[1] \in Opened(t) /\ e[1] \in Containers
      BY <1>5, <1>6, <2>1
    <2>3. e[2] \in seen[t]
      <3>1. e[2] \in Containers /\ <<e[1], e[2]>> \in kept
        BY <1>5
      <3> QED BY <1>3, <2>1, <2>2, <3>1
    <2> QED BY <1>1, <2>3
  <1>7. Root \in Within /\ Within \in SUBSET Containers
    BY <1>1, LmsParametersOK
  <1>8. p \in Within
    <2>1. Reaches(kept, Root, p)
      BY DEF kept
    <2> HIDE DEF Within
    <2> QED BY <1>6, <1>7, <2>1 DEF Reaches
  <1>9. Reaches(kept, p, p)
    BY DEF Reaches
  <1> QED BY <1>3, <1>8, <1>9

-----------------------------------------------------------------------------
LEMMA CompleteStep ==
  ASSUME LmsTyped, NEW t \in Threads, CourseInv(t), OnceInv(t), CompleteInv(t), Moves(t)
  PROVE  Complete(t)'
  <1> SUFFICES ASSUME job'[t] = "list", call'[t] = "done"
               PROVE  Complete(t)'
    BY DEF Complete
  <1>1. CASE Waits(t)
    <2>1. /\ svc'[t] = svc[t] /\ job[t] = "list" /\ call[t] = "done" /\ was'[t] = was[t]
          /\ got'[t] = got[t]
      BY <1>1 DEF Waits, SameCourse, SameCall
    <2>2. KeptEdges(t)' = KeptEdges(t) /\ SomeEdges(t)' = SomeEdges(t)
      BY <2>1, SameCourses
    <2>3. Complete(t)
      BY DEF CompleteInv
    <2>4. /\ \A d, p : Reaches(KeptEdges(t), d, p)' <=> Reaches(KeptEdges(t), d, p)
          /\ \A m, p : WayOf(m, KeptEdges(t), p, FALSE)' <=> WayOf(m, KeptEdges(t), p, FALSE)
          /\ \A m, d : WayOf(m, SomeEdges(t), d, TRUE)' <=> WayOf(m, SomeEdges(t), d, TRUE)
      BY <2>2 DEF Reaches, WayOf
    <2> QED BY <2>1, <2>3, <2>4 DEF Complete
  <1>2. CASE Ends(t)
    <2>1. /\ svc'[t] = svc[t] /\ job[t] = "list" /\ was'[t] = was[t] /\ got'[t] = got[t]
          /\ call[t] = "next" /\ \A i \in DOMAIN todo[t] : ~MayOpen(t, todo[t][i])
      BY <1>2 DEF Ends, Cleared
    <2>2. KeptEdges(t)' = KeptEdges(t) /\ SomeEdges(t)' = SomeEdges(t)
      BY <2>1, SameCourses
    <2>3. Lms[svc[t]] \in {"canvas", "brightspace"}
      BY OwnFunctions, LmsParametersOK
    <2>4. ASSUME NEW p \in Containers, NEW x \in Topics,
                 Reaches(KeptEdges(t), Root, p), \A c \in was[t] : x \in c.items[p],
                 IF Lms[svc[t]] = "canvas"
                 THEN \E n \in 0 .. MaxPages - 1 : WayOf(n, KeptEdges(t), p, FALSE)
                 ELSE ~\E d \in Containers :
                         Reaches(KeptEdges(t), d, p) /\ WayOf(MaxDepth + 1, SomeEdges(t), d, TRUE)
          PROVE  got[t][x] > 0
      <3>1. Stays(t, x, p)
        BY <2>4 DEF Stays
      <3>2. CASE Lms[svc[t]] = "canvas"
        <4>1. PICK n \in 0 .. MaxPages - 1 : WayOf(n, KeptEdges(t), p, FALSE)
          BY <2>4, <3>2
        <4> QED BY <2>1, <3>1, <3>2, <4>1, PagesEnd DEF CompleteInv
      <3>3. CASE Lms[svc[t]] = "brightspace"
        <4>1. ~\E d \in Containers :
                 Reaches(KeptEdges(t), d, p) /\ WayOf(MaxDepth + 1, SomeEdges(t), d, TRUE)
          BY <2>4, <3>3
        <4> QED BY <2>1, <2>4, <3>1, <3>3, <4>1, WalkEnds DEF CompleteInv
      <3> QED BY <2>3, <3>2, <3>3
    <2> QED BY <2>1, <2>2, <2>4 DEF Complete, Reaches, WayOf
  <1>3. ~Starts(t) /\ ~IsAnswered(t) /\ ~Takes(t) /\ ~Opens(t) /\ ~IsRaised(t)
    BY DEF Starts, IsAnswered, Takes, Opens, IsRaised
  <1>4. ~IsEdited(t)
    BY DEF IsEdited, Over
  <1> QED BY <1>1, <1>2, <1>3, <1>4 DEF Moves

ListingsComplete == \A t \in Threads : CompleteInv(t)

LEMMA CompleteAlways == LmsSpec => []ListingsComplete
  <1>1. LmsInit => ListingsComplete
    <2> SUFFICES ASSUME LmsInit, NEW t \in Threads PROVE CompleteInv(t)
      BY DEF ListingsComplete
    <2>1. call[t] = "idle"
      BY DEF LmsInit
    <2> QED BY <2>1 DEF CompleteInv, PagesInv, WalkInv, Complete, Over
  <1>2. LmsTyped /\ WalksOnce /\ ListingsComplete /\ [LmsNext]_lmsVars => ListingsComplete'
    <2> SUFFICES ASSUME LmsTyped, WalksOnce, ListingsComplete, [LmsNext]_lmsVars, NEW t \in Threads
                 PROVE  PagesInv(t)' /\ WalkInv(t)' /\ Complete(t)'
      BY DEF ListingsComplete, CompleteInv
    <2>1. Moves(t) /\ CourseInv(t) /\ OnceInv(t) /\ CompleteInv(t)
      BY StepMoves DEF WalksOnce, ListingsComplete
    <2> QED BY <2>1, PagesStep, WalkStep, CompleteStep DEF CompleteInv
  <1> QED BY <1>1, <1>2, TypedAlways, OnceAlways, PTL DEF LmsSpec

\* A listing that returns has every topic that stayed where it was while the course was
\* edited, for any courses, circles and edits: a Canvas listing within its limit of pages,
\* a Brightspace one but for what lies in and below modules that a way longer than the
\* limit of depth leads to.
THEOREM NothingStayedOut == LmsSpec => []ListingIsComplete
  <1>1. ListingsComplete => ListingIsComplete
    BY DEF ListingsComplete, CompleteInv, Complete, ListingIsComplete
  <1> QED BY <1>1, CompleteAlways, PTL

-----------------------------------------------------------------------------
(* What a call leaves to do.                                                 *)

\* The requests a listing may still go on to: pages up to the limit, or modules that are
\* not marked.
RequestsLeft(t) ==
  IF Lms[svc[t]] = "canvas" THEN MaxPages - 1 - open[t].depth ELSE Cardinality(Containers \ seen[t])

\* How far the one at hand is: in get_token, on the wire, or taken.
TokenStage == [looked |-> 8, asked |-> 7, answered |-> 6, refused |-> 6, outdated |-> 6,
               fetched |-> 5, idle |-> 4]
CallStage == [asked |-> 3, answered |-> 2, refused |-> 2, expired |-> 2, next |-> 1,
              idle |-> 0, done |-> 0, raised |-> 0]
Stage(t) == IF call[t] = "token" THEN TokenStage[pc[t]] ELSE CallStage[call[t]]

\* The call comes nearer to its end, or stays where it is.
Nearer(t) ==
  \/ RequestsLeft(t)' \in 0 .. RequestsLeft(t) - 1
  \/ RequestsLeft(t)' = RequestsLeft(t) /\ Stage(t)' < Stage(t)
  \/ UNCHANGED <<svc[t], call[t], pc[t], todo[t], seen[t], open[t]>>

\* A page leads to pages behind it.
DeeperInv(t) ==
  Lms[svc[t]] = "canvas" /\ call[t] = "next" =>
    \A i \in DOMAIN todo[t] : todo[t][i].depth = open[t].depth + 1

LEMMA DeeperStep ==
  ASSUME LmsTyped, NEW t \in Threads, Moves(t), DeeperInv(t)
  PROVE  DeeperInv(t)'
  <1>1. SUFFICES ASSUME Lms[svc'[t]] = "canvas", call'[t] = "next", NEW i \in DOMAIN todo'[t]
                 PROVE  todo'[t][i].depth = open'[t].depth + 1
    BY DEF DeeperInv
  <1>2. CASE Waits(t) \/ IsEdited(t)
    BY <1>1, <1>2 DEF Waits, IsEdited, SameWork, SameCall, DeeperInv
  <1>3. CASE Takes(t)
    <2>1. todo'[t] = Below(t) /\ open'[t] = open[t]
      BY <1>1, <1>3 DEF Takes
    <2>2. i \in DOMAIN page[t].subs
      BY <1>1, <2>1 DEF Below
    <2> QED BY <2>1, <2>2 DEF Below
  <1>4. CASE Starts(t) \/ IsAnswered(t) \/ Opens(t) \/ Ends(t) \/ IsRaised(t)
    BY <1>1, <1>4 DEF Starts, IsAnswered, Opens, Ends, IsRaised
  <1> QED BY <1>2, <1>3, <1>4 DEF Moves

\* Where the next request is made there is one less to make.
LEMMA OpensCount ==
  ASSUME LmsTyped, NEW t \in Threads, DeeperInv(t), Opens(t)
  PROVE  RequestsLeft(t)' \in 0 .. RequestsLeft(t) - 1
  <1>0. /\ todo[t] \in Seq(Places) /\ seen[t] \in SUBSET Containers /\ open[t] \in Places
        /\ Lms[svc[t]] \in {"canvas", "brightspace"} /\ IsFiniteSet(Containers)
        /\ MaxPages \in Nat \ {0}
    BY OwnFunctions, LmsParametersOK
  <1>1. PICK i \in DOMAIN todo[t] :
          /\ MayOpen(t, todo[t][i]) /\ open'[t] = todo[t][i]
          /\ seen'[t] = IF Lms[svc[t]] = "brightspace" THEN seen[t] \cup {todo[t][i].at} ELSE seen[t]
    BY DEF Opens
  <1>2. call[t] = "next" /\ svc'[t] = svc[t] /\ todo[t][i] \in Places
    BY <1>0 DEF Opens, SameCall
  <1>3. CASE Lms[svc[t]] = "canvas"
    <2>1. open'[t].depth = open[t].depth + 1 /\ open'[t].depth < MaxPages
      BY <1>1, <1>2, <1>3 DEF DeeperInv, MayOpen
    <2>2. open[t].depth \in Nat
      BY <1>0 DEF Places
    <2> QED BY <1>0, <1>2, <1>3, <2>1, <2>2 DEF RequestsLeft
  <1>4. CASE Lms[svc[t]] = "brightspace"
    <2> DEFINE S == Containers \ seen[t]
               S2 == Containers \ seen'[t]
    <2>1. todo[t][i].at \in S /\ S2 \subseteq S /\ todo[t][i].at \notin S2
      BY <1>1, <1>2, <1>4 DEF MayOpen, Places
    <2>2. IsFiniteSet(S)
      BY <1>0, FS_Subset
    <2> HIDE DEF S, S2
    <2>3. /\ IsFiniteSet(S2) /\ Cardinality(S2) <= Cardinality(S)
          /\ Cardinality(S) = Cardinality(S2) => S = S2
      BY <2>1, <2>2, FS_Subset
    <2>4. Cardinality(S) \in Nat /\ Cardinality(S2) \in Nat
      BY <2>2, <2>3, FS_CardinalityType
    <2>5. Cardinality(S2) \in 0 .. Cardinality(S) - 1
      BY <2>1, <2>3, <2>4
    <2>6. RequestsLeft(t) = Cardinality(S) /\ RequestsLeft(t)' = Cardinality(S2)
      BY <1>2, <1>4 DEF RequestsLeft, S, S2
    <2> QED BY <2>5, <2>6
  <1> QED BY <1>0, <1>3, <1>4

LEMMA MovesCount ==
  ASSUME LmsTyped, NEW t \in Threads, Moves(t), DeeperInv(t),
         call[t] \notin Over, call'[t] \notin Over
  PROVE  RequestsLeft(t)' \in 0 .. RequestsLeft(t) - 1 \/ RequestsLeft(t)' = RequestsLeft(t)
  <1>1. CASE Opens(t)
    BY <1>1, OpensCount
  <1>2. CASE Waits(t) \/ IsAnswered(t) \/ Takes(t) \/ IsEdited(t)
    <2>1. svc'[t] = svc[t] /\ seen'[t] = seen[t] /\ open'[t] = open[t]
      BY <1>2 DEF Waits, IsAnswered, Takes, IsEdited, SameWork, SameCall
    <2> QED BY <2>1 DEF RequestsLeft
  <1>3. ~(Starts(t) \/ Ends(t) \/ IsRaised(t))
    BY DEF Starts, Ends, IsRaised, Over
  <1> QED BY <1>1, <1>2, <1>3 DEF Moves

\* A step of thread t brings the request at hand on; only OpenNext begins another.
LEMMA ThreadStage ==
  ASSUME LmsTyped, NEW t \in Threads,
         \/ \E s \in Services, l \in ScopeLists, what \in {"list", "get"} : Begin(t, s, l, what)
         \/ Client(t) \/ Platform(t) \/ Edit(t)
  PROVE  /\ \A u \in Threads \ {t} : UNCHANGED <<svc[u], call[u], pc[u], todo[u], seen[u], open[u]>>
         /\ call[t] \notin Over /\ call'[t] \notin Over =>
              \/ Opens(t)
              \/ Stage(t)' < Stage(t)
              \/ UNCHANGED <<svc[t], call[t], pc[t], todo[t], seen[t], open[t]>>
  <1> DEFINE Rest == \A u \in Threads \ {t} : pc'[u] = pc[u] /\ call'[u] = call[u]
  <1>0. /\ call \in [Threads -> Calls] /\ pc \in [Threads -> Phases]
        /\ todo \in [Threads -> Seq(Places)] /\ seen \in [Threads -> SUBSET Containers]
        /\ open \in [Threads -> Places] /\ svc \in [Threads -> Services]
        /\ (pc[t] # "idle" => call[t] = "token")
    BY OwnFunctions DEF LmsTyped, LmsTypeOK, TypeOK
  <1>1. \A u \in Threads \ {t} : Waits(u)
    BY ThreadMoves
  <1>2. ASSUME NEW s \in Services, NEW l \in ScopeLists, NEW what \in {"list", "get"},
               Begin(t, s, l, what)
        PROVE  Rest /\ call[t] \in Over
    BY <1>0, <1>2 DEF Begin, Ask, Call
  <1>3. CASE GetsToken(t) \/ ((PlatformMints(t) \/ PlatformRefuses(t)) /\ UNCHANGED ownVars)
    <2>1. call' = call
      BY <1>3 DEF GetsToken, ownVars
    <2>2. \/ pc[t] = "looked" /\ pc' = [pc EXCEPT ![t] = "idle"]
          \/ pc[t] = "looked" /\ pc' = [pc EXCEPT ![t] = "asked"]
          \/ pc[t] = "asked" /\ pc' = [pc EXCEPT ![t] = "answered"]
          \/ pc[t] = "asked" /\ pc' = [pc EXCEPT ![t] = "refused"]
          \/ pc[t] = "asked" /\ pc' = [pc EXCEPT ![t] = "outdated"]
          \/ pc[t] = "answered" /\ pc' = [pc EXCEPT ![t] = "fetched"]
          \/ pc[t] \in InFlight /\ pc' = [pc EXCEPT ![t] = "idle"]
          \/ pc[t] = "fetched" /\ pc' = [pc EXCEPT ![t] = "idle"]
      BY <1>3 DEF GetsToken, Tool, Serve, Send, Receive, Fail, Store, Return, Done,
                  PlatformMints, PlatformRefuses
    <2>3. Rest /\ call[t] = "token"
      BY <1>0, <2>1, <2>2 DEF InFlight
    <2>4. TokenStage[pc'[t]] < TokenStage[pc[t]]
      BY <1>0, <2>2 DEF InFlight, TokenStage
    <2> QED BY <1>1, <2>1, <2>3, <2>4 DEF Stage, Waits, SameWork, SameCall
  <1>4. CASE SendPage(t) \/ PlatformServes(t) \/ PlatformTurnsDown(t) \/ TakePage(t)
    <2>1. pc' = pc /\ Rest
      BY <1>0, <1>4 DEF SendPage, PlatformServes, PlatformTurnsDown, TakePage, vars
    <2>2. \/ call[t] = "token" /\ pc[t] = "idle" /\ call'[t] = "asked"
          \/ call[t] = "asked" /\ call'[t] \in {"answered", "refused", "expired"}
          \/ call[t] = "answered" /\ call'[t] = "next"
      BY <1>0, <1>4 DEF SendPage, PlatformServes, PlatformTurnsDown, TakePage
    <2>3. Stage(t)' < Stage(t)
      BY <2>2 DEF Stage, TokenStage, CallStage
    <2> QED BY <1>1, <2>1, <2>3 DEF Waits, SameWork, SameCall
  <1>5. CASE NoToken(t) \/ PageFails(t) \/ GetReturns(t) \/ ListingReturns(t)
    <2>1. pc' = pc /\ \E how \in {"done", "raised"} : call' = [call EXCEPT ![t] = how]
      BY <1>5 DEF NoToken, PageFails, GetReturns, ListingReturns, Raises, Returns, End, vars
    <2>2. Rest /\ call'[t] \in Over
      BY <1>0, <2>1 DEF Over
    <2> QED BY <1>1, <2>2 DEF Waits, SameWork, SameCall
  <1>6. CASE OpenNext(t)
    <2>1. Rest
      BY <1>0, <1>6 DEF OpenNext, Ask, Call
    <2>2. Opens(t)
      <3>1. Moves(t)
        BY <1>6, ThreadMoves DEF Client
      <3>2. call[t] = "next" /\ call'[t] = "token"
        BY <1>0, <1>6 DEF OpenNext, Ask
      <3> QED BY <3>1, <3>2 DEF Moves, Waits, Starts, IsAnswered, Takes, IsEdited, Ends, IsRaised, Over
    <2> QED BY <1>1, <2>1, <2>2 DEF Waits, SameWork, SameCall
  <1>7. CASE Edit(t)
    <2>1. pc' = pc /\ UNCHANGED <<svc, call, todo, seen, open>>
      BY <1>7 DEF Edit, vars
    <2> QED BY <2>1
  <1> QED BY <1>1, <1>2, <1>3, <1>4, <1>5, <1>6, <1>7 DEF Client, Platform, Waits, SameWork, SameCall

\* A call that goes on comes nearer to its end with every step of its own, whatever the
\* platform shows and however the course is edited: _get_paginated has a page less to turn
\* and walk() a module less to open with every request, and within a request nothing is
\* done again.  ListingsEnd rests on this.
THEOREM ListingsCountDown ==
  LmsSpec =>
    [][\A t \in Threads : call[t] \notin Over /\ call'[t] \notin Over => Nearer(t)]_lmsVars
  <1> DEFINE Deeper == \A t \in Threads : DeeperInv(t)
  <1>1. LmsInit => Deeper
    BY DEF LmsInit, DeeperInv
  <1>2. LmsTyped /\ Deeper /\ [LmsNext]_lmsVars => Deeper'
    BY DeeperStep, StepMoves
  <1>3. LmsTyped /\ Deeper /\ [LmsNext]_lmsVars =>
          \A t \in Threads : call[t] \notin Over /\ call'[t] \notin Over => Nearer(t)
    <2> SUFFICES ASSUME LmsTyped, Deeper, [LmsNext]_lmsVars, NEW u \in Threads,
                        call[u] \notin Over, call'[u] \notin Over
                 PROVE  Nearer(u)
      OBVIOUS
    <2> DEFINE Still == UNCHANGED <<svc[u], call[u], pc[u], todo[u], seen[u], open[u]>>
    <2>1. RequestsLeft(u)' \in 0 .. RequestsLeft(u) - 1 \/ RequestsLeft(u)' = RequestsLeft(u)
      BY StepMoves, MovesCount
    <2>2. Opens(u) \/ Stage(u)' < Stage(u) \/ Still
      <3>1. CASE LmsTick \/ UNCHANGED lmsVars
        BY <3>1 DEF LmsTick, Tick, lmsVars, vars, ownVars
      <3>2. ASSUME NEW t \in Threads,
                   \/ \E s \in Services, l \in ScopeLists, what \in {"list", "get"} :
                        Begin(t, s, l, what)
                   \/ Client(t) \/ Platform(t) \/ Edit(t)
            PROVE  Opens(u) \/ Stage(u)' < Stage(u) \/ Still
        <4>1. CASE u = t
          BY <3>2, <4>1, ThreadStage
        <4>2. CASE u # t
          BY <3>2, <4>2, ThreadStage
        <4> QED BY <4>1, <4>2
      <3> QED BY <3>1, <3>2 DEF LmsNext
    <2> QED BY <2>1, <2>2, OpensCount DEF Nearer
  <1> QED BY <1>1, <1>2, <1>3, TypedAlways, PTL DEF LmsSpec
=============================================================================
