----------------------------- MODULE LmsClients -----------------------------
(***************************************************************************)
(* The Canvas and Brightspace clients on top of TokenService.  A call is   *)
(* one request or a listing: Canvas pages, or a walk of Brightspace's tree *)
(* of modules.  Each request asks the token service anew, so the token of  *)
(* a later page may be another one, and the course may be edited between   *)
(* two requests.                                                           *)
(*                                                                         *)
(* What a platform serves is one shape for both: a container has items and *)
(* leads to others, a page to the next one, a module to its submodules.    *)
(***************************************************************************)
EXTENDS TokenService

CONSTANTS
  Lms,           \* of each service the clients that use it: "canvas" or "brightspace"
  ClientScopes,  \* and the scopes such clients are built with
  Containers, Root, Topics,
  CoursesOf,     \* of each service the courses its platform may show
  MaxPages,      \* _MAX_PAGES
  MaxDepth,      \* _MAX_MODULE_DEPTH
  PageTimeout,   \* the longest a request to the platform's API is open
  MaxEdits

Courses == [items : [Containers -> SUBSET Topics], subs : [Containers -> Seq(Containers)]]

ASSUME LmsParametersOK ==
  /\ Lms \in [Services -> {"canvas", "brightspace"}]
  /\ ClientScopes \in [Services -> SUBSET (ScopeLists \ {<<>>})]
  /\ Root \in Containers /\ IsFiniteSet(Containers)
  /\ DOMAIN CoursesOf = Services
  /\ \A s \in Services : \A c \in CoursesOf[s] :
       /\ c \in Courses
       \* A page has one next page.
       /\ Lms[s] = "canvas" => \A p \in Containers : Len(c.subs[p]) <= 1
       \* The root of a course has no id: no module leads to it.
       /\ Lms[s] = "brightspace" =>
            \A p \in Containers : \A i \in DOMAIN c.subs[p] : c.subs[p][i] # Root
  /\ MaxPages \in Nat \ {0} /\ MaxDepth \in Nat /\ PageTimeout \in Nat /\ MaxEdits \in Nat

VARIABLES
  course,    \* the course each thread's call is about, as it is now
  job,       \* what each thread called: "list", or "get" for a single request
  call,      \* what that call is at
  todo,      \* the containers to open, in the order of the walk, with their depth
  seen,      \* the modules the walk has opened
  open,      \* the container asked for, with its depth
  pageSent,  \* when that request left
  page,      \* the answer to it
  got,       \* how often each topic was added to the listing
  was        \* history: the courses there were since the call began

ownVars == <<course, job, call, todo, seen, open, pageSent, page, got, was>>
lmsVars == <<vars, ownVars>>

-----------------------------------------------------------------------------
\* Mutant: the walk stops one level early.
WithinDepthStrict(depth) == depth < MaxDepth
\* walk() returns at once below the limit.
WithinDepth(depth) == depth <= MaxDepth

Places == [at : Containers, depth : Nat]
Nowhere == [at |-> Root, depth |-> 0]
Pages == [items : SUBSET Topics, subs : Seq(Containers)]
NoPage == [items |-> {}, subs |-> <<>>]
NoCourse == [items |-> [p \in Containers |-> {}], subs |-> [p \in Containers |-> <<>>]]

\* "token" is inside get_token, "next" between two requests; "expired" is the
\* platform's answer to a token that is dead.
OnTheWire == {"asked", "answered", "refused", "expired"}
Over == {"idle", "done", "raised"}
Calls == Over \cup {"token", "next"} \cup OnTheWire

LmsTypeOK ==
  /\ TypeOK
  /\ \A t \in Threads : course[t] \in CoursesOf[svc[t]] \cup {NoCourse}
  /\ job \in [Threads -> {"list", "get"}]
  /\ call \in [Threads -> Calls]
  /\ todo \in [Threads -> Seq(Places)]
  /\ seen \in [Threads -> SUBSET Containers]
  /\ open \in [Threads -> Places]
  /\ pageSent \in [Threads -> 0 .. MaxClock]
  /\ page \in [Threads -> Pages]
  /\ got \in [Threads -> [Topics -> Nat]]
  /\ \A t \in Threads : was[t] \subseteq CoursesOf[svc[t]]
  \* No page beyond the limit is asked for, no module more than one level below it.
  /\ \A t \in Threads : open[t].depth <= IF Lms[svc[t]] = "canvas" THEN MaxPages - 1 ELSE MaxDepth + 1
  \* get_token is only entered from a client's request.
  /\ \A t \in Threads : pc[t] # "idle" => call[t] = "token"

LmsInit ==
  /\ Init
  /\ course = [t \in Threads |-> NoCourse]
  /\ job = [t \in Threads |-> "list"]
  /\ call = [t \in Threads |-> "idle"]
  /\ todo = [t \in Threads |-> <<>>]
  /\ seen = [t \in Threads |-> {}]
  /\ open = [t \in Threads |-> Nowhere]
  /\ pageSent = [t \in Threads |-> 0]
  /\ page = [t \in Threads |-> NoPage]
  /\ got = [t \in Threads |-> [x \in Topics |-> 0]]
  /\ was = [t \in Threads |-> {}]

-----------------------------------------------------------------------------
\* A request asks the client's service for a token before it leaves (_headers).
Ask(t, s, l, place) ==
  /\ Call(t, s, l)
  /\ open' = [open EXCEPT ![t] = place]
  /\ call' = [call EXCEPT ![t] = "token"]

\* A call about a course begins: a listing asks for the first page, or the root;
\* get_file, get_file_public_url, get_topic, download_topic_file for one object.
Begin(t, s, l, what) ==
  /\ call[t] \in Over
  /\ \E c \in CoursesOf[s] : /\ course' = [course EXCEPT ![t] = c]
                             /\ was' = [was EXCEPT ![t] = {c}]
  /\ job' = [job EXCEPT ![t] = what]
  /\ l \in ClientScopes[s] /\ Ask(t, s, l, Nowhere)
  /\ got' = [got EXCEPT ![t] = [x \in Topics |-> 0]]
  /\ UNCHANGED <<todo, seen, pageSent, page>>

\* The call ends, and what it worked with is gone.
End(t, how) ==
  /\ call' = [call EXCEPT ![t] = how]
  /\ course' = [course EXCEPT ![t] = NoCourse]
  /\ todo' = [todo EXCEPT ![t] = <<>>]
  /\ seen' = [seen EXCEPT ![t] = {}]
  /\ open' = [open EXCEPT ![t] = Nowhere]
  /\ pageSent' = [pageSent EXCEPT ![t] = 0]
  /\ page' = [page EXCEPT ![t] = NoPage]
  /\ UNCHANGED <<vars, job>>

\* What was added to the listing is returned; was keeps what it is judged by.
Returns(t) == End(t, "done") /\ UNCHANGED <<got, was>>

Raises(t) ==
  /\ End(t, "raised")
  /\ got' = [got EXCEPT ![t] = [x \in Topics |-> 0]]
  /\ was' = [was EXCEPT ![t] = {}]

\* The request leaves with the token get_token returned.
SendPage(t) ==
  /\ call[t] = "token" /\ pc[t] = "idle" /\ returned[t] # NoResult
  /\ call' = [call EXCEPT ![t] = "asked"]
  /\ pageSent' = [pageSent EXCEPT ![t] = clock]
  /\ UNCHANGED <<vars, course, job, todo, seen, open, page, got, was>>

\* get_token raised, and the call does not catch it.
NoToken(t) ==
  /\ call[t] = "token" /\ pc[t] = "idle" /\ returned[t] = NoResult
  /\ Raises(t)

\* The platform answers with what the container holds now, to a token that is alive.
PlatformServes(t) ==
  /\ call[t] = "asked" /\ clock < Dies(returned[t].tok)
  /\ page' = [page EXCEPT ![t] = [items |-> course[t].items[open[t].at],
                                  subs |-> course[t].subs[open[t].at]]]
  /\ call' = [call EXCEPT ![t] = "answered"]
  /\ UNCHANGED <<vars, course, job, todo, seen, open, pageSent, got, was>>

PlatformTurnsDown(t) ==
  /\ call[t] = "asked"
  /\ call' = [call EXCEPT ![t] = IF clock < Dies(returned[t].tok) THEN "refused" ELSE "expired"]
  /\ UNCHANGED <<vars, course, job, todo, seen, open, pageSent, page, got, was>>

\* Mutant: a session without a timeout.
PageFailsAnswered(t) ==
  /\ call[t] \in OnTheWire \ {"asked"}
  /\ Raises(t)

\* ExternalRequestError: an error status, a broken connection, an answer that is
\* not a list or has no public_url, or, at the latest after PageTimeout, none at all.
PageFails(t) ==
  /\ call[t] \in OnTheWire
  /\ Raises(t)

\* The answer to a single request is the result.
GetReturns(t) ==
  /\ job[t] = "get" /\ call[t] = "answered"
  /\ Returns(t)

Add(t) == got' = [got EXCEPT ![t] = [x \in Topics |-> got[t][x] + IF x \in page[t].items THEN 1 ELSE 0]]

\* _get_paginated: the page is added, and its next page, if any, comes next.
CanvasTakes(t) ==
  /\ Lms[svc[t]] = "canvas" /\ Add(t)
  /\ todo' = [todo EXCEPT ![t] = [i \in DOMAIN page[t].subs |->
                                    [at |-> page[t].subs[i], depth |-> open[t].depth + 1]]]

\* walk(): the topics are added, and the submodules come before what is left of
\* the levels above.
BrightspaceTakes(t) ==
  /\ Lms[svc[t]] = "brightspace"
  /\ IF WithinDepth(open[t].depth)
     THEN /\ Add(t)
          /\ todo' = [todo EXCEPT ![t] =
                        [i \in DOMAIN page[t].subs |->
                           [at |-> page[t].subs[i], depth |-> open[t].depth + 1]] \o todo[t]]
     ELSE UNCHANGED <<got, todo>>

TakePage(t) ==
  /\ job[t] = "list" /\ call[t] = "answered"
  /\ CanvasTakes(t) \/ BrightspaceTakes(t)
  /\ call' = [call EXCEPT ![t] = "next"]
  /\ pageSent' = [pageSent EXCEPT ![t] = 0]
  /\ page' = [page EXCEPT ![t] = NoPage]
  /\ UNCHANGED <<vars, course, job, seen, open, was>>

\* Mutant: one page too many.
MayOpenOneMore(t, place) ==
  \/ Lms[svc[t]] = "canvas" /\ place.depth <= MaxPages
  \/ Lms[svc[t]] = "brightspace" /\ place.at \notin seen[t]
\* Mutant: modules are not marked as seen.
MayOpenAgain(t, place) == Lms[svc[t]] = "canvas" => place.depth < MaxPages
\* The loop of _get_paginated counts its pages, walk() skips modules it has seen.
MayOpen(t, place) ==
  \/ Lms[svc[t]] = "canvas" /\ place.depth < MaxPages
  \/ Lms[svc[t]] = "brightspace" /\ place.at \notin seen[t]

\* What the listing goes on to: the first that may be opened.
OpenNext(t) ==
  /\ call[t] = "next"
  /\ \E i \in DOMAIN todo[t] :
       /\ MayOpen(t, todo[t][i]) /\ \A j \in 1 .. i - 1 : ~MayOpen(t, todo[t][j])
       /\ Ask(t, svc[t], scopes[t], todo[t][i])
       /\ todo' = [todo EXCEPT ![t] = SubSeq(todo[t], i + 1, Len(todo[t]))]
       /\ seen' = [seen EXCEPT ![t] = IF Lms[svc[t]] = "brightspace"
                                      THEN @ \cup {todo[t][i].at} ELSE @]
  /\ UNCHANGED <<course, job, pageSent, page, got, was>>

ListingReturns(t) ==
  /\ call[t] = "next" /\ \A i \in DOMAIN todo[t] : ~MayOpen(t, todo[t][i])
  /\ Returns(t)

\* Somebody edits the course while a call about it goes on.
Edit(t) ==
  /\ call[t] \notin Over /\ Cardinality(was[t]) <= MaxEdits
  /\ \E c \in CoursesOf[svc[t]] \ was[t] : /\ course' = [course EXCEPT ![t] = c]
                                           /\ was' = [was EXCEPT ![t] = @ \cup {c}]
  /\ UNCHANGED <<vars, job, call, todo, seen, open, pageSent, page, got>>

\* Time passes while requests are open, not while the tool computes.
LmsTick ==
  /\ \A t \in Threads :
       /\ pc[t] # "fetched" /\ (call[t] = "token" => pc[t] # "idle")
       /\ call[t] \in OnTheWire => clock < pageSent[t] + PageTimeout
  /\ Tick
  /\ UNCHANGED ownVars

GetsToken(t) == Tool(t) /\ UNCHANGED ownVars

Client(t) ==
  \/ GetsToken(t) \/ SendPage(t) \/ NoToken(t) \/ PageFails(t) \/ GetReturns(t)
  \/ TakePage(t) \/ OpenNext(t) \/ ListingReturns(t)

Platform(t) ==
  \/ (PlatformMints(t) \/ PlatformRefuses(t)) /\ UNCHANGED ownVars
  \/ PlatformServes(t) \/ PlatformTurnsDown(t)

LmsNext ==
  \/ \E t \in Threads : \/ \E s \in Services, l \in ScopeLists, what \in {"list", "get"} : Begin(t, s, l, what)
                        \/ Client(t) \/ Platform(t) \/ Edit(t)
  \/ LmsTick

LmsSpec == LmsInit /\ [][LmsNext]_lmsVars

\* A thread goes on, and an open request ends.  Nothing is asked of the platform.
LmsFairSpec == LmsSpec /\ \A t \in Threads : WF_lmsVars(Client(t))

-----------------------------------------------------------------------------
(* Properties.                                                               *)

\* What stayed as it was during a thread's call, and what there was at some time.
LeadsTo(c, p, q) == \E i \in DOMAIN c.subs[p] : c.subs[p][i] = q
KeptEdges(t) == {e \in Containers \X Containers : \A c \in was[t] : LeadsTo(c, e[1], e[2])}
SomeEdges(t) == {e \in Containers \X Containers : \E c \in was[t] : LeadsTo(c, e[1], e[2])}

\* b is in every set that a is in and that no edge leads out of.
Reaches(edges, a, b) ==
  \A S \in SUBSET Containers :
    a \in S /\ (\A e \in edges : e[1] \in S => e[2] \in S) => b \in S

\* There is a way of n steps from the root to a container; for modules, one that
\* enters none twice.
WayOf(n, edges, x, once) ==
  \E w \in [0 .. n -> Containers] :
    /\ w[0] = Root /\ w[n] = x
    /\ \A i \in 1 .. n : <<w[i - 1], w[i]>> \in edges
    /\ once => \A i, j \in 1 .. n : w[i] = w[j] => i = j

\* A listing misses no topic that stayed in its place while the course was edited,
\* in a container that stayed in reach: except, with Canvas, on a page after the
\* hundredth, and, with Brightspace, in and below a module that a way of more than
\* MaxDepth modules leads to, which is given up on every way once it was met there.
ListingIsComplete ==
  \A t \in Threads : job[t] = "list" /\ call[t] = "done" =>
    LET kept == KeptEdges(t)
    IN  \A p \in Containers : \A x \in Topics :
          /\ Reaches(kept, Root, p) /\ (\A c \in was[t] : x \in c.items[p])
          /\ IF Lms[svc[t]] = "canvas"
             THEN \E n \in 0 .. MaxPages - 1 : WayOf(n, kept, p, FALSE)
             ELSE ~\E d \in Containers : Reaches(kept, d, p) /\ WayOf(MaxDepth + 1, SomeEdges(t), d, TRUE)
          => got[t][x] > 0

\* However many ways lead to a module, even in circles, and however the course is
\* edited meanwhile: a Brightspace listing has no topic more often than there are
\* modules that held it at some time during the call.
NoModuleTwice ==
  \A t \in Threads : Lms[svc[t]] = "brightspace" =>
    \A x \in Topics :
      got[t][x] <= Cardinality({p \in Containers : \E c \in was[t] : x \in c.items[p]})

\* A request meets no token that died longer ago than the timeouts of the request for
\* the token and of its own exceed the leeway: with the defaults, 40 s + 40 s - 60 s.
\* It does not matter how many pages the token was reused for.  Excepted are tokens
\* that live no longer than the leeway, and those whose life the platform did not tell.
DeadOnlyBriefly ==
  \A t \in Threads : call[t] = "expired" =>
    LET tok == returned[t].tok
    IN  \/ tok.says = "untold" \/ tok.life <= Leeway
        \/ clock < Dies(tok) + Timeout + PageTimeout - Leeway

\* "Return a valid access token", "minus a safety leeway" (token/service.py:64,
\* token/cache.py:24): no request is refused because its token has died, if the token
\* lives longer than two requests may take.  The default leeway is too short for that.
TokenOutlivesThePage ==
  \A t \in Threads : call[t] = "expired" =>
    LET tok == returned[t].tok IN tok.says = "untold" \/ tok.life <= Timeout + PageTimeout

\* Every call returns or raises, also where pages or modules lead in a circle, and
\* whatever the token endpoint or the platform's API does.
ListingsEnd == \A t \in Threads : call[t] \notin Over ~> call[t] \in Over
=============================================================================
