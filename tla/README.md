# Formal models of ltitoolkit

ltitoolkit lets a web application (the *tool*) be launched from a learning platform by LTI 1.3, and
then call the platform's services. This directory holds TLA+ models of it, the TLC
configurations that check them and theorems about them that TLAPS proves. `PROJECT.json` lists, for
every definition, the lines of the source it stands for.

1. [The system](#1-the-system): components, state, interactions, what makes each correct
2. [The modules](#2-the-modules): how state and actions correspond to the code
3. [The runs](#3-the-runs): what is checked, bounds and why they are enough, fairness
4. [The proofs](#4-the-proofs)
5. [Disagreements found](#5-disagreements-found)
6. [What is not modelled](#6-what-is-not-modelled), and [the plan](#7-the-plan)

Paths below are under `src/src/ltitoolkit/`.

## 1. The system

| Component | State | Operations | Hard part | Correct when |
|---|---|---|---|---|
| OIDC login `core/oidc_login.py` | state cookie, session-id cookie, nonce and parameters in the launch data storage | validate the request, find the registration, save the nonce, redirect | logins overlap in a browser; cookies get lost or run out | the launch that answers a login finds its nonce, and only in the browser that began it |
| Message launch `core/message_launch.py` | a `MessageLaunch` per request; launch data and "state is valid" marks in the storage | `validate` (state, format, nonce, registration, signature, deployment, message, save), `from_cache`, re-validation by readers | requests of a browser overlap; reloads after the state cookie ran out; the cache fails between two writes | nothing is stored or handed out that did not pass every check |
| Launch data storage `core/launch_data_storage/`, `core/session.py` | web session (one copy per request) or cache with keys that carry the session id | get, set, prepare key | copies of the session overwrite each other; entries expire | as above |
| Access token service `token/` | cache of tokens by scopes | `get_token` | threads without a lock; the platform's clock and delays; a cache shared by services | a token that is served is alive and is the caller's own |
| Service connector `core/service_connector.py` | one access token for ever | token request, service request, next page | expired token, lost answers | every page is reachable |
| AGS, NRPS, groups `core/assignments_grades.py`, `core/names_roles.py`, `core/course_groups.py`, `advantage/service.py` | local to a call | paged reads, `put_grade`, `find_or_create_lineitem`, `get_sets` | the platform's lists change while pages are turned; a call is many requests and may stop between two of them | reads miss nothing; a grade is at the right line item; calling again does not make a second one |
| HTTP session `http.py` | retries left | timeout, retries of idempotent requests | a POST that was carried out although its answer was lost | effects are not repeated, calls end |
| Tool configuration in memory `core/tool_config/` | relation types per issuer (of the *class*), keys | build from a document, lookups of logins and launches, key set | several objects share the relation types; a document that is rejected half way | lookups follow the object's own document |
| Django tool configuration `core/contrib/django/lti1p3_tool_config/` | table of tools; what an object fetched | lookups, the administrator's edits | a launch looks twice and the table changes in between; one dict, two shapes | a launch is judged by one stored tool |
| Dynamic registration `dynamic_registration/`, `fastapi/dynamic_registration.py` | store of registrations | fetch the configuration, post, save, complete; lookups | the platform creates a client and the answer is lost; workers stop | what the administrator was told holds |
| Public key cache `core/message_launch.py` | key set by URL in the storage, for all sessions | `fetch_public_key`, `get_public_key`, `DisableSessionId` | keys rotate; launches fetch at once; a fetch fails while the session id is put aside | retired keys are dropped and new ones found soon; launches stay in their sessions |
| Message validators `core/message_validators/` | none | checks on the claims of a message | missing claims | an accepted message can be worked with |
| Roles, deep linking `core/roles.py`, `core/deep_link.py` | none | tables of roles, building a response | – | – |
| Canvas and Brightspace adapters `adapters/` | local to a call | single requests, paged lists, walk of the module tree, a token for each request | limits on pages and depth, circles, courses edited meanwhile, tokens that run out between pages | everything in reach is listed; no request is refused for its token; calls end |
| Framework adapters | cookies, sessions, redirects | – | mirrors of each other | they carry what the core gives them |

How they interact. The platform sends the browser to the *login*, which asks the *tool
configuration* for a registration, saves a nonce in the *storage*, and redirects. The platform posts an
id_token through the browser to the *launch*, which checks it against storage, configuration and the
platform's keys, and saves the launch. Later requests restore it from the storage and call the *services* through
a *connector*, or an LMS adapter through the *access token service*. *Dynamic registration* fills the
configuration from the platform. All of them run in threads and processes of a web server, share the storage, the
caches, the tool configuration and the store, and hold no locks.

## 2. The modules

| Module | Stands for | Kind |
|---|---|---|
| `LaunchFlow`, `LaunchFlow_proofs` | login, launch, storage, session, cookies | state machine, proofs |
| `LaunchContract` | what an application may rely on of a launch | abstract specification |
| `TokenService`, `TokenService_proofs` | access token service and cache | state machine, proofs |
| `ToolConf`, `ToolConf_proofs` | configuration objects in memory | state machine with pure lookup operators, proofs |
| `DynamicRegistration`, `DynamicRegistration_proofs` | registration, store, stored configuration | state machine, proofs |
| `ServiceCalls`, `ServiceCalls_proofs` | connector, AGS, NRPS, groups, HTTP session | state machine, proofs |
| `DjangoToolConf`, `DjangoToolConf_proofs` | the configuration in a database | state machine, proofs |
| `LmsClients`, `LmsClients_proofs` | Canvas and Brightspace clients, composed with `TokenService` | state machine, proofs |
| `MessageValidators` | what messages must hold, and what is taken from them | sets and pure operators |
| `VerificationContract` | what verifying a launch may rely on and leads to | abstract specification |
| `TokenVerification`, `TokenVerification_proofs` | key set, its cache, signature, message, with `MessageValidators` | state machine, proofs |
| `MC*` | instances of the above for TLC | constants only |

**LaunchFlow.** `jar[b]` holds the cookies of browser `b`: the signed session as it last arrived, the
session id, and the state cookies with their expiry. `store` is the cache. Each login and each posted
launch is a request with its own copy of what the browser sent: `LoginArrives`/`PostArrives` take the copy,
`LoginHandled`, `CheckState`, `CheckFormat`, `CheckNonce`, `Verify`, `Save` are the calls of
`_prepare_redirect_url` and `validate`, and `LoginResponds`/`LaunchResponds` deliver the response, which
replaces the browser's session by the request's copy. `Storage = "session"` or `"cache"` chooses the
storage, `Secure` whether keys carry the session id. Claims, signature and deployment, which depend on the token
alone, are the one step `Verify`, and `TokenVerification` is what happens inside it; `FetchFails` and `SaveFails` are the failures from outside. Values:
a login is its state and its nonce; a token is the number of the post that brought it first. The browser posts the state and the token of one login together, as the platform's form has them;
the code checks the two apart (`message_launch.py:627-638` and `664-670`), and a post made up of two logins is not among the model's.

**LaunchContract** keeps only which browser began a login, which launches passed, and what was handed out.
`LaunchFlow` implements it under the mapping in `Contract`.

**TokenService.** A call of `get_token` is `Call` (lookup), `Serve` or `Send`, `Receive`, `Store`; between them
other threads run. Time is an integer; `PlatformMints` dates a token when the platform makes it,
`Expiry` when the tool reads the answer. `expires_in` may be missing (`says = "untold"`). `Timeout`
is the longest a request stays open. The code gives `requests` a connect and a read timeout of 10 and 30
seconds; the read timeout is for each read, so that a total bound is an assumption on the
platform's server, and the default leeway of 60 seconds covers it. `CacheOf` says which services share a cache.

**LmsClients** EXTENDS `TokenService`: a client's request first runs `get_token` (`call = "token"` while the token service's `pc` moves),
then `SendPage`, the platform's answer, and `TakePage` or `GetReturns`. One shape serves both platforms: a container has
topics and leads to others, a page to the next one, a module to its submodules (`course[t]`); `Root` is the first page, or the course itself, which has no id, so that no module leads to it. `todo` is what is left to open: the next link, or
the entries that `walk()`'s recursion has still to look at, in its order, each with its depth; `seen` is `walk()`'s set. `MayOpen` is the test before a
request, `WithinDepth` the one at `walk()`'s start. `Edit` changes the course during a call, and `was` (history) keeps the courses there were.

**MessageValidators, TokenVerification.** A message is its type and the set of claims it has. `Required` and `Forbidden` are the validators',
`Used` is what the readers of a launch take without asking. `keySets` is what the storage holds under the key set's name, by session id, so that a
name with the wrong session id would show. `sid` and `aside` are `_session_id` of the launch's storage object and the one `DisableSessionId`
keeps; `PutAside` and `PutBack` enter and leave it. `UseStored` or `AskForKeys`, `PlatformAnswers`, `Receive`, `FetchFails` are `fetch_public_key`;
an answer that is JSON and false (`json = "empty"`) is stored like any other and asked for again by every launch (`Usable`).
`MissKey` and `CheckSignature` are `get_public_key` and `validate_jwt_signature`; `ValidateMessage` ends in `save_launch_data`. `Publish`, `SignWithNext` and
`Retire` are the platform's rotation. `given`, `heldAt`, `publishedAt`, `retiredAt` and `lacks` are history. The module has one issuer's key set, by URL and with
`set_public_key_caching`: a registration that brings its key set needs no fetch, and without caching each launch fetches. Every request has a storage
object of its own, as the web adapters make it; one object shared by requests at once would mix their session ids, which nothing in the library does. A stored entry ends at its `exp`, as `CacheDataStorage` has it; `SessionDataStorage` pays no heed to `exp` (`session.py:19-22`), and a key set kept in a
session would never be fetched anew.

**VerificationContract** hides the stored key sets, the requests and the session id put aside: a launch that asks is judged by the keys that the platform had at one moment less than
`Staleness` ago, or by an answer without keys, or fails; one that is trusted is refused, or accepted and saved for its own session. `TokenVerification` implements it
under the mapping in `Contract`, where a launch is judged when it gets a key set in hand. This is what `LaunchFlow` takes verification to be: its `Verify` is `Trust` and then `Accept` or
`Refuse`, its `FetchFails` is `Fail` or `Miss`.

**ToolConf.** `relation` is `ToolConfAbstract.issuers_relation_types`, a class attribute: one variable for all
objects. Building an object goes entry by entry (`ValidateEntry`, `ReadKeys`), so other threads see a relation map
that is half written. A document is a JSON object, so an issuer occurs in it once. `FirstOf` is the loops' `break` at the first entry that will do; `GetIssConfig`, `GetKey`, `Jwks` are the lookups.

**DynamicRegistration.** `platform[p]` are the clients platform `p` has, `store[s]` the records in the order of their first save, `saves` (history) the requests that saved.
A request fetches a document (`doc`) and believes it: issuer and endpoints are the document's, whoever serves it, and the client and deployment are the answer's, which may name a client that
is there already. So two platforms can register under one issuer, and a registration can replace the record of another, in its place (`Saved`). `PlatformCreates` happens at the platform, `Fail` at the tool, in any order. `Crash` stops a
worker with its requests, and loses a store that is in memory.

**ServiceCalls.** `lists` are the platform's lists. A call has one request out at a time (`req`, `pc = "out"`),
whose answer comes `"back"`; `tries` are the retries left to it. `Serve…` are the platform's endpoints,
`TurnPage`, `ReadGroups`, `ReadEnds`, `Found`, `SearchOn`, `CreateIt`, `ScoreIt`, `Scored` what the code does
with an answer, and `Resend`, `Fail` what the session does when there is none. The address of a page is a position
in the list and whether it went through the lower-casing in `make_service_request` (`as`): the platform may refuse such an address (`Refuse`), know it, or, with
`Misreads`, take it for another page (`Meant`). The next link of a page leads to the page behind it or back (`Links`); the code follows either. A service asks for its token with the
launch's one list of scopes, so that the dict by scopes in `ServiceConnector` holds one token (`token`), which the platform may refuse to give (`Deny`). An object is used by one thread. `Grow` is the
platform's own side, which inserts at any position; it never removes an entry during a read, as no paging by
position survives that. `late` holds POSTs that timed out and still arrive, and remembers the line items that those made. A line item's results come in an order of the platform's own, and 0, which
stands for "no line item", is the id of none.

**DjangoToolConf.** `tools` is the table, `cache[w]` what a configuration object keeps: per issuer a tool or a dict
of tools, as the code has it. `Login`, `Registration` and `Deployment` are one `get_lti_tool` each; the
administrator's `Edit` comes between. `seen` (history) is what the table held since the object was made.

## 3. The runs

A property's comment in its module says in words what it states. `MaxClock`, `MaxLaunches`, `MaxEntries`, `MaxRead`,
`MaxEdits` and `MaxCrashes` are the bounds in guards; everything else is bounded by the sets a configuration gives the constants.

| Run | Question | Bounds |
|---|---|---|
| LaunchCache | With a cache: are launches accepted, stored and restored only where they were begun, after every check, without cookie only as a repetition? Does LaunchFlow implement LaunchContract? | two logins, two browsers, two launches, two posts per login, cookies may be withheld, clock to 1 |
| LaunchSequential | With the session, one request at a time: does a nonce survive the round trip, a reload the end of the state cookie, and does a redirected login come to an accepted launch? | one browser, two logins, three launches |
| LaunchOverlap | violated: nonces survive overlapping logins | two logins in one browser |
| TokenThreads | Is a token from the cache alive, and is one that was made used until the leeway? | two threads, lifetimes 0 and 3, leeway 1, timeout 1, clock to 6 |
| LmsListings | Are listings complete within the limits, without repetitions, whatever is edited? Does a request meet a token that died only as long ago as the two timeouts exceed the leeway, and none of another call's? Are assertions never out of date? Does every call end? | one thread, a Canvas and a Brightspace service, two scope lists that begin alike, three courses each with pages in a circle, modules on two ways, in circles and too deep, two pages, depth two, one edit, the platform's clock one behind, both timeouts and the leeway 1, clock to 3 |
| LmsLeeway | violated: no request is refused for a token that died, with the defaults | units of 20 s: timeouts 2 and 2, leeway 3, lifetime 5 |
| KeyRotation | For how long is a retired key accepted, and a new one missed? Who fetches? Can accepted messages be worked with? Does TokenVerification implement VerificationContract, so that launches are saved in their sessions also after failed fetches? | two launches in two sessions, two keys, lifetime 2, requests of at most 1, clock to 3; answers with keys, with JSON that has none, and with JSON that is false; full messages, each without one claim of its type, one without each common claim, and some with one too many |
| ToolConfAgree | Do lookups, logins without client and the key set follow the document? | two objects, five documents, two rejected half way, clients without a public key file |
| ToolConfShapes | violated: the same with documents that give an issuer different shapes | |
| Registration | Does what was told hold? What may be unknown? Is the fallback stable? Does every registration end? | two registrations, two platforms, one of them also with a document under the other's issuer, two clients that answers may name again, two workers, two crashes |
| ServiceCalls | Do paged reads return everything that was there? Do groups come under their sets? Does a grade land right, how many line items does a tag get, and does a call without a scope leave anything behind, while late POSTs arrive? Does every call end? | one caller that uses every operation, three choices of scopes, lists of one, pages of one, two additions anywhere, one retry, links that lead back: for a read until it has an entry, for a search for ever |
| DjangoKept | Is a launch judged by one stored tool, with an object that is kept or made anew? | two clients, two deployments, four edits |

Why the bounds are enough. The launch hazards need two requests of one browser, or two browsers and one login; the
second post of a login is needed for reloads and repeated tokens; a clock of two separates "state cookie gone, data
there" from "both gone". A race on the token cache needs two threads, the leeway needs lifetimes on both
sides of it. In LmsListings two pages are enough for the limit to cut a third off, and depth two for a module that lies too deep on one way and not on
another; the token of a page runs out within lifetime 3 when it was served at the leeway. KeyRotation lets two launches fetch at once and store in either
order, a key be published and the other retired in between, and a set expire and be fetched again. Paging is interesting from the second page on, and with an insertion before the position reached,
which shifts what was read into the next page; two additions make a set appear twice. In ServiceCalls links lead back until a read has `MaxRead` entries, which is enough for a page to be read twice; what comes after is a read like any other. A second line item for a tag needs
a caller that repeats its call, a retry, or a late POST, which the run has; callers that overlap have one each by `OnePerCaller`, for any number of them, and the run has one. Registrations interfere by pairs. One edit between the two lookups of a launch is enough to mix two tools, the second and third switch it
off and on.

Deadlock is checked except in the launch, the registration and the configuration runs whose numbers of requests are bounded: there
every login and post was used, every registration has ended, or every object is built and idle, and the system stops. The
token, key, client and service runs, and the Django one, go on for ever. There is no property that only says a variable of `ToolConf` or `DjangoToolConf` has its
type: what their states are is in the comments of the variables, and the lookups' properties read every part of them.

Fairness, and why the code justifies it:

* `LaunchFlow`: a request that reached the server is handled and answered (a thread runs it to its end), and, for
  `GoodLoginSucceeds`, the browser follows the platform's form. A handler may read a failed launch again and again
  (`Revalidate`), but not for ever: its response is owed under strong fairness. `FetchFails`, `SaveFails` and `LoginRefused` are never owed to
  happen. That a handler cannot wait for the key set for ever presumes a session with a timeout (see section 5).
* `LmsClients` (with `TokenService` in it), `DynamicRegistration`: a thread goes on, and an open request ends, by its timeout if not
  otherwise: the token service passes one to every request, and the clients' session is `http.build_session`'s. Nothing is owed by the platform. In `LmsClients` time passes
  only while a request is open (`LmsTick`): what the tool computes between two requests takes no time.
* `ServiceCalls`: a caller takes up an answer that is there (`Receives`); an open request is given up at the latest by the timeout of
  `http.build_session`'s session (`SessionTimeouts`), for an application that hands one in: the session the core makes for itself has none, and without that condition a call that is not answered stays open for ever (section 5). Nothing is owed by the platform. Nothing bounds the links that lead back, so `CallsEnd` says of a call that it ends or is led back again and again; `MaxRead`
  ends that for reads, as a bound on what they gather, and not for the search of `put_grade`, which gathers nothing: the run has searches that are led back for ever.

## 4. The proofs

All proofs are checked by tlapm with Z3, Zenon and LS4, in a module `*_proofs` for each state machine. Every safety property and action property
of the passing runs is a theorem, the two refinements among them. A theorem holds for every value of the constants under the assumptions that the module names on them (`ConstantsOK`,
`ParametersOK`, `LmsParametersOK`, `VerificationParametersOK`, `NamesOK` and `DocumentsOK`, `RowsOK`, `StoresOK` and `NoRecordIsNone`, `CourseOK` and `CourseHolds`): types, that the value
for "none" is none of the others, and what the format of an input excludes. What the *code* needs of
its surroundings is a hypothesis of the theorem and is given here with the reason. Each invariant below holds on the instance of the component's run, too, by TLC (`OwnInv` of `ServiceCalls_proofs`, which only has domains, apart; and
with the lengths of ways in `PagesInv` and `WalkInv` cut to those the instance has).

**LaunchFlow_proofs**, for any number of browsers, logins and posts.

* `TypeCorrect`: `Spec => []TypeOK`.
* `StoredIsVetted`, both storages. The property speaks of the cache and of the browsers' cookies only; it is not inductive because a session also lives in the copies
  that requests carry. `VettedInv` adds that every copy holds trusted entries, that a launch past `Verify` is vetted, and that a vetted launch
  keeps its token and has no fault. `Save` is then the only step that adds marks, from a vetted launch.
* `NoCookieWasRepeated`. `SeenInv`: a "state is valid" mark, in whatever copy, names a login and the token of an accepted launch that had the login's cookie;
  and a launch past `CheckState` has the cookie or met such a mark.
* `AcceptedInItsBrowser`, `RestoredWasVetted` and `Implements`: a launch is accepted, and handed out, only in the browser it was begun in, and `LaunchFlow` implements
  `LaunchContract`. Hypothesis `Apart`: the storage is the session, or its keys carry the session id. Over http
  `CacheDataStorage` has no session id, and then one cache key serves all browsers, as its comment concedes (`cache.py:18`). `HomeInv`: a session id is made for one login and lies only in that login's
  browser and in its requests; what is stored under it, or in a session, is a nonce of that browser's logins or a
  launch that was vetted there. The refinement is a step simulation: an arriving login, `Verify` and `Restore` map to the contract's three actions, and every other step stutters.
* `RoundTrip` and `ReloadIsAccepted`. Hypothesis `Sequential`: a browser has one request open at a time, and keeps its cookies. Both are needed: with overlapping requests the session
  storage loses entries (the run LaunchOverlap), and a browser that withholds its session id finds nothing. `KeptInv`: as long as a nonce is
  not due to expire, the browser's session, or the cache under the session id in its jar, holds it, wherever the open request's copy is on its way; a mark
  and an accepted launch's data likewise. `RefusedInv`: a launch that was refused for its state met the mark of another token.

**TokenService_proofs**, for any threads, services, lifetimes and clock bound.

* `TypeCorrect`: `Spec => []TypeOK`.
* `ServedIsValid`: `Timeout <= Leeway` implies `Spec => []ServedTokenIsValid`. `HonestInv`: an entry that says how long it lives expires, for the tool, at most `Timeout` after it does at the
  platform, in every cache and in every thread's hand; and a request in flight is at most `Timeout` old, and its token no
  older than the request. The hypothesis is needed: the mutation that adds the timeout to the expiry breaks the run.
* `TimesHold`: if `-Skew <= Backdate` and `Skew + Timeout < AssertionLife`, `Spec => []AssertionIsTimely`: the 5 seconds iat is put back cover a platform whose clock is
  behind, and the assertion's life the longest request to one that is ahead.
* `FitsTheCall`: if no two services share a cache, `Spec => []TokenFitsTheCall`. `FitsInv`: what a cache holds under a key has the scopes of
  the key and the service of the cache. The hypothesis is needed, see section 5.
* `ReusedUntilDue`, under the same hypothesis: `LatestInv`, a cache holds under each key what its service made last. Another service's token
  would hide it.

**LmsClients_proofs**, for any courses, edits and limits.

* `ClientsUseTheService`: `LmsSpec => Spec`. Every step of a client is a step of the token service or leaves it alone, so what is proved
  of the service holds below the clients: `ClientsTokensFit` is `FitsTheCall` for them.
* `DeathsAreBrief`: `LmsSpec => []DeadOnlyBriefly`, for any timeouts and leeway, the defaults included: a request that meets a dead token meets it less than `Timeout + PageTimeout - Leeway` after its death. The invariant builds on that of the token service: when `get_token`
  returns a token that lives for longer than the leeway, be it new or cached, the time is before its death plus `Timeout - Leeway`; and the request
  leaves at that moment, and is open for `PageTimeout` at most. With the defaults the difference is 20 seconds, and the run LmsLeeway shows one of them.
* `LmsTypeCorrect`: types, and the two limits. `LmsTyped` adds the types of the history, that no place waits in a walk
  more than one level below the limit, and that a call that is over leaves nothing waiting.
* `EachModuleOnce`: also for courses that are edited during the walk. `CourseInv` ties a call to the courses it is judged by; `OnceInv`: what waits and what is open is marked or the root, and a topic was
  added at most once for each module that is done and held it in some course there was. Induction failed at first on a module that leads back to the course's root, which `seen` would not hold;
  the root has no id at Brightspace, so no module leads to it, and `LmsParametersOK` says so.
* `NothingStayedOut`: a listing that returns has everything that stayed in reach. `PagesInv` (Canvas): along a way of pages that stayed, those before the
  one at hand are added and the next one is the way's. `WalkInv` (Brightspace): each marked module lies at the end of a way of marked modules, none twice, as long as
  its depth says; and each marked module is walked, that is, too deep on some way, or its topics are added and its submodules marked
  or waiting. When nothing waits, the walked modules are closed under the edges that stayed, hence hold everything in reach.

* `ListingsCountDown`: whatever is edited and answered meanwhile, a step that leaves a listing open brings it nearer to its end or leaves it where it was. With each request
  `RequestsLeft` falls, the pages up to the limit or the modules not yet seen; within a request `Stage` falls. `DeeperInv`: what a Canvas page leads to is the page
  behind it. That is the part of `ListingsEnd` that is safety.

**TokenVerification_proofs**, for any number of launches, sessions, keys and any lifetimes.

* `VerificationTypeCorrect`: types, and that a session id is put aside exactly while its launch is inside `fetch_public_key`.
* `RetiredIsDropped`, `MissedBriefly`. `KeysInv`: what was recorded lies in the past; every key set, stored or in a launch's hand, holds all the keys that were
  published when it was given, and no others, or none; a stored one expires at most `CacheLifetime + FetchTime` after it was given, as a request is open no longer than
  `FetchTime` and its answer was given after it left; and what a launch has in hand was no older when the launch got it. That answers
  overtake each other, so that the older one is stored last, is covered by the age being counted from the platform's answer.
* `FetchedWhenDue`: all sessions use one name for the key set, since none has its session id while it does. An empty answer is the exception: it is stored and nobody uses it.
* `SavedInItsSession`: launches are saved under their own session ids, by induction with the first theorem.
* `VerificationImplements`: `TokenVerification` implements `VerificationContract`, from the same invariant. The moment by which a launch is judged is the one at which the
  platform gave the set it gets in hand, stored or fresh (`JudgedByRecent`); the other steps of a launch map to their namesakes or stutter (`DecidedSteps`,
  `HiddenSteps`), and a launch is saved for its own session as its id is back by then.
* `AcceptedCanBeUsed`: for any message at all, whatever `lacks` records is the return URL. It rests on `PassesIsUsable`, by the four message types: what a validator lets through has
  all that the readers take.

**ToolConf_proofs**, for any number of objects and any documents.

* `LaunchFollows`, `LoginTakesDefault`, `NamedKeysArePublished`. Hypotheses: `Agree`, the documents agree on which issuers have one client and which several, as the relation types are
  kept once for all objects (the run ToolConfShapes shows what happens otherwise); and `EachClientOnce`, no issuer lists a client twice, as
  the keys of an issuer and client are kept once for each object, and the second entry's would overwrite the first's.
  `_validate_iss_config_item` looks at one entry at a time and does not check the second. `RelationInv`: what the relation map
  says of an issuer is what some document said, hence by `Agree` every document that has the issuer; and it says so of each issuer an object has passed, though other objects are being built or were
  rejected half way. `KeysInv`: an object holds the keys of the entries it has passed, public ones where the entry names a file. `LookupInv`: a lookup that is asking, or was answered, was judged by the object's document.

**DynamicRegistration_proofs**, for any number of attempts, platforms, workers, stores and crashes.

* `TypeCorrect`. `RegInv`: also, every client of a platform is what some attempt came to, a store has one record of a key, and an attempt is among `saves` once it has saved.
* `CompletionIsAPromise`: hypotheses `Durable` (stores survive their workers) and `OneForAll` (all workers read one store). `StoreOf` and the volatile stores exist
  in the model because `InMemoryRegistrationStore` meets neither; `store.py:5-6` says that it is for one worker and tests, and `store.py:28` asks for a database in production. Nothing is assumed of the documents or the
  answers: issuers, endpoints and clients may be anyone's. `LastInv`: the record of the last attempt to save under a key is in the store, whole, and as keys are there once, it is the one that a lookup finds.
* `UnknownHasFailed`, `FirstStaysFirst`: hypothesis `Durable`, and the order of the records that the model gives every store; `RegistrationStore` promises none to `find_by_issuer`. `KeptInv`: what was saved under a key has a record in its store. A store that forgets leaves clients unknown, and its first record changes.

**ServiceCalls_proofs**, for any lists, page size, number of callers and retries, and wherever links lead back.

* `NothingMissed`, `GroupsFollowSets` (hypothesis `~Misreads`: the platform takes no lower-cased address for another page, see section 5), `ScoreLands`, `MadeToBeScored`, from one invariant `CallsInv`: what there was when a read began
  is among the pages read, or in the list from the position on at which the next page begins (`ToCome`), which an
  insertion before that position only moves further, and of which a link that leads back takes nothing away; all sets are read before the first page of groups is, and all groups are to come until then; the line item a
  call scores is in the platform's list with the tag asked for, and once the score is posted the result is too; a call makes a line item only with the scope to score it. It says of each request and answer
  in flight what the operation may have asked.
* `OnePerCaller`: hypothesis `Alone`: no address is taken for another page, the callers are finitely many, and the course begins
  without line items of the tool's tags. The first is needed, the others are where counting begins. `OnceInv`: the line items of a tag, besides those of late POSTs, can be put down to different callers (an injection into those that put grades), each of whom, if it is in a
  call, will meet a line item of that tag before its search ends. So a caller that finds none and makes one has not been put down for another.
* `TypeCorrect`: types, that a request is out exactly while a call is under way, and that a score is posted only for a line item. `Numbered` is what the last part needs: no line item has the
  id 0, a call that scores a given line item was given one, and a call that is about to make a line item has made none. A
  line item's results are taken from the list as a set (`SetToSeq`), so that no induction over a filtered sequence is needed; `CourseHolds` says that 0 is no line item's id.
* `CallsCountDown`: a step that leaves a call open brings it nearer to its end or leaves it where it was, or the platform's last link led the call back: the stages of `get_sets` and `put_grade` are counted down (`Left`), a page
  that is asked for otherwise begins behind the one before and inside the list, and a request is sent again with a retry less. `NextInv` says so of the link in an answer. As positions grow within
  a list that may grow, the count is bounded when the list stops growing: `CallsEnd` needs `MaxEntries`, and this is the part of it that is safety. No line of the code bounds the links
  that lead back (`names_roles.py:83`, `assignments_grades.py:151`, `course_groups.py:85`), so the theorem leaves them open, as `CallsEnd` does.

**DjangoToolConf_proofs**, for any tools, workers and saves, whether or not objects are kept.

* `JudgedAsStored`. `DjangoInv`: what an object has in its dict was in the table, under its issuer and client, since the object was made; a launch between its two lookups has
  its tool still in the dict; one that ended was judged by a single such row.

Only model-checked: liveness (`GoodLoginSucceeds`, `CallsEnd`, `RegistrationEnds`, `ListingsEnd`), as leads-to under fairness and ENABLED are out of the prover's
reach. The two count-down theorems are what it rests on for `CallsEnd` and `ListingsEnd`; that a count that falls reaches its end, by the fairness of section 3, is left to TLC.

## 5. Disagreements found

Three are runs that TLC ends with a counterexample; `findings` in `PROJECT.json` quotes the line that says otherwise.

* **LaunchOverlap** – overlapping logins in one browser with the session storage: the later response drops the
  earlier nonce, although the storage is to persist data across the round trip.
* **LmsLeeway** – the default leeway of 60 seconds covers one request of 10 + 30 seconds, not the request for a token and the one for a page one after the
  other, so a page can be refused for a token that died on the way, up to 20 seconds before (`DeathsAreBrief`).
* **ToolConfShapes** – `issuers_relation_types` is shared by all configuration objects, so a second document changes what the first
  object finds.

Others came up while modelling. The models have the code's behaviour; what the documentation says instead is not among the properties.

* `token/service.py:81` – the key of a cached token has no registration in it, so a cache that several services share, as
  `token/cache.py:4-6` invites, mixes their tokens. `CacheOf` can say so; the runs, and `FitsTheCall`, have services with a cache each.
* `http.py:3-6` says that the session with a timeout is passed to the core's services. Nothing does so (`core/message_launch.py:232`, `core/service_connector.py:40`), and a stalled
  platform holds a worker: `SessionTimeouts` is a condition of `CallsEnd`.
* `core/service_connector.py:135` – the next page's URL is lower-cased with its header. A platform that minds capitals refuses it, and the call fails (`Refuse`), or takes it for another
  page (`Misreads`), and `get_members` returns less than `advantage/service.py:53`'s "every page".
* `core/assignments_grades.py:283` – `get_grades` asks for one page and returns it as "all grades" (line 266): `ReadEnds`. `ReadIsComplete` does not speak of it.
* `core/names_roles.py:83` and the other loops over pages follow any link without a limit: a platform whose links lead in a circle holds the caller. `Links` has them.
* `core/tool_config/json_file.py:94-100` – a client whose item names no public key file is accepted, and its key is published nowhere, so that a platform that fetches the tool's key set
  refuses the tool. `PublishesNamedKeys` speaks of the files that are named.
* `dynamic_registration/models.py:101-107` – issuer, endpoints and client are taken as the document and the answer name them, and `store.py:34` replaces a record of the same key: a later
  registration, of whatever platform, that names the issuer and client of an earlier one takes its record. `CompletedResolves` says what is left.
* `core/contrib/django/lti1p3_tool_config/__init__.py:31` – the object's dict holds two shapes under one key, and a lookup of the other kind
  raises `AttributeError`: `Crash` in `Cached`.
* `core/contrib/django/lti1p3_tool_config/__init__.py:41` – tools are ordered by `use_by_default`, ascending, so a login without a client gets the one that is
  *not* marked, although `models.py:70` says of the mark "This iss config will be used in case if client-id was not passed": `Queried`.
* `adapters/canvas/client.py:130` – a listing ends after 100 pages, silently, where the methods promise "(all pages)". `ListingIsComplete` excepts them.
* `adapters/brightspace/client.py:122` – a module that is first met one level below the depth limit is marked as seen, its request is made and its topics are dropped, and a
  shorter way to it met later is not walked. `ListingIsComplete` excepts it and what lies below it.
* `core/message_launch.py:575` – the answer of the key set's URL is stored for its whole lifetime whatever its status, if it is JSON: a page of an error is looked up for keys (and
  raises `KeyError`) until it expires. An answer that is JSON and false is stored and asked for again by every launch (`core/message_launch.py:565`). `PlatformAnswers` has both.
* `core/message_validators/deep_link.py:17` – "Missing Deep Linking Return URL" is raised when the settings are empty; a launch without a return URL is accepted, and its response has nowhere to go.
  `AcceptedIsUsable` excepts the return URL.

What holds and yet deserves a word: `OneLineItemPerCaller` says that two callers that overlap may make two line items of one
tag, and that one more comes of each creation that timed out and is carried out after the caller searched again (`Stray`); `find_or_create_lineitem` cannot exclude either. A score that straggles may also be
the last to arrive, and nothing in the code prevents it. A list that moved while its
pages were turned may show an entry twice. A kept `DjangoDbToolConf` goes on with what it fetched first: `LaunchAsStored` allows old answers, not mixed ones.

## 6. What is not modelled

Cryptography (a token is genuine or not), HTML and JavaScript of the pages, the wording of errors, the formatting and parsing of URLs,
headers and JSON apart from the Link header's case. The setters of `LineItem` and `Grade`, `get_context`, the filters of reads (they are part of a URL), the
searches for line items by other properties (they differ in the property only). `clean` and `get_jwks` of the Django models. The fields of what Canvas and
Brightspace list, and the content of the files they serve.
The Flask and Django adapters repeat the FastAPI ones. `core/roles.py` looks the roles claim up in tables, and `core/deep_link.py` formats and signs a response: neither has state or
order. The cookies-check page (`core/cookies_allowed_check.py`) is HTML and JavaScript; the tool sees of it a second login request.

## 7. The plan

Done, in this order: LaunchFlow with LaunchContract (the toolkit's main promise), its first proofs, TokenService and its proofs, ToolConf,
DynamicRegistration, ServiceCalls, DjangoToolConf, LmsClients on top of TokenService, MessageValidators and TokenVerification, the proofs of all state machines
with the refinement of LaunchContract, what liveness rests on as far as it is safety (the two count-down theorems), and VerificationContract with its refinement. Left is one theorem
for `LaunchFlow` and `TokenVerification` together. They keep their storages and clocks each for itself (the launch's entries here, the key set there), and the
contract between them is proved from below only: that `Verify` and `FetchFails` are steps of it is by inspection of two actions. Two liveness properties have no count-down theorem:
a registration goes through its stages once and in order, so that `RegistrationEnds` rests on fairness alone, and a launch may be validated again any number of times, so that there is
nothing to count in `GoodLoginSucceeds`.
