----------------------------- MODULE LaunchFlow -----------------------------
(***************************************************************************)
(* An LTI 1.3 launch as the toolkit's web adapters run it: a browser is    *)
(* sent through the tool's OIDC login, through the platform, and back to   *)
(* the tool with an id_token that MessageLaunch.validate checks against    *)
(* what the login left behind.                                             *)
(*                                                                         *)
(* What the login leaves behind lives in two places that several requests  *)
(* of a browser share: cookies (the state cookie, the session-id cookie)   *)
(* and the launch data storage.  The storage is either the web session, of *)
(* which each request holds a copy that replaces the browser's when the    *)
(* response arrives, or a server-side cache whose keys carry the session   *)
(* id when the request is https.                                           *)
(***************************************************************************)
EXTENDS Integers, FiniteSets

CONSTANTS
  Logins,               \* the OIDC logins; a login also names its state and its nonce
  Browsers,
  MaxPosts,             \* launch requests a login may lead to (reloads, new tokens)
  MaxLaunches,          \* bound on the launch requests altogether
  Faults,               \* what may be wrong with an id_token
  Storage,              \* "session" or "cache"
  Secure,               \* requests are https
  StateTtl,             \* lifetime of the state cookie
  DataTtl,              \* _launch_data_lifetime
  MaxClock,             \* bound on time
  Overlap,              \* requests of one browser may overlap
  CookiesMayBeDropped,  \* the browser may withhold its cookies from a request
  NoSid, NoBrowser

Posts == Logins \X (1 .. MaxPosts)
Sids == Logins \cup {NoSid}

ASSUME ConstantsOK ==
  /\ NoSid \notin Logins /\ NoBrowser \notin Browsers
  /\ MaxPosts \in Nat /\ MaxLaunches \in Nat /\ MaxClock \in Nat
  /\ StateTtl \in Nat \ {0} /\ DataTtl \in Nat \ {0}
  /\ Storage \in {"session", "cache"}
  /\ Secure \in BOOLEAN /\ Overlap \in BOOLEAN /\ CookiesMayBeDropped \in BOOLEAN
  /\ "none" \notin Faults

VARIABLES
  jar,       \* jar[b]: the cookies of browser b
  store,     \* the server-side cache
  login,     \* login[f]: the login request f
  launch,    \* launch[p]: the launch request p and its MessageLaunch object
  vetted,    \* the launches that have passed every check
  accepted,  \* the launches for which validate has returned
  restored,  \* what MessageLaunch.from_cache has handed out
  clock

vars == <<jar, store, login, launch, vetted, accepted, restored, clock>>

-----------------------------------------------------------------------------
(* The launch data storage.  An entry is stored under a session id (NoSid   *)
(* when the storage uses none) and a key.                                    *)

NonceKey(f)  == [kind |-> "nonce", of |-> f]
ParamsKey(f) == [kind |-> "params", of |-> f]
HashKey(f)   == [kind |-> "id-token-hash", of |-> f]
\* Mutant: the launch id names the login, not the launch.
LaunchKeyOfLogin(p) == [kind |-> "launch", of |-> <<p[1], 1>>]
LaunchKey(p) == [kind |-> "launch", of |-> p]

Keys == [kind : {"nonce", "params", "id-token-hash"}, of : Logins]
          \cup [kind : {"launch"}, of : Posts]
Entries == [sid : Sids, key : Keys, val : 0 .. MaxPosts, exp : 0 .. MaxClock + DataTtl]

\* CacheDataStorage.get_session_cookie_name: only a cache over https has one.
UsesSessionId == Storage = "cache" /\ Secure

\* Mutant: keys without the session id.
PrepareKeyShared(sid, key) == <<NoSid, key>>
\* _prepare_key: the session id is part of the key when there is one.
PrepareKey(sid, key) == <<sid, key>>

\* Mutant: the lifetimes of cookie and data added up.
EntryTooLong(sid, key, val) ==
  LET k == PrepareKey(sid, key)
  IN  [sid |-> k[1], key |-> k[2], val |-> val, exp |-> clock + StateTtl + DataTtl]

Entry(sid, key, val) ==
  LET k == PrepareKey(sid, key)
  IN  [sid |-> k[1], key |-> k[2], val |-> val, exp |-> clock + DataTtl]

\* SessionDataStorage ignores the lifetime of a value, a cache honours it.
Live(e) == Storage = "session" \/ clock < e.exp

\* Mutant: saving replaces what was there.
PutOnly(view, new) == new

Put(view, new) ==
  {e \in view : \A n \in new : <<e.sid, e.key>> # <<n.sid, n.key>>} \cup new

\* The entries that request r reads: its copy of the session, or the cache.
View(r) == IF Storage = "session" THEN r.session ELSE store

\* Mutant: the stored value is not compared.
HoldsAny(r, key, val) ==
  \E e \in View(r) : <<e.sid, e.key>> = PrepareKey(r.sid, key) /\ Live(e)

Holds(r, key, val) ==
  \E e \in View(r) :
    <<e.sid, e.key>> = PrepareKey(r.sid, key) /\ e.val = val /\ Live(e)

\* The copy of the session that r goes on with after saving the entries new.
SessionAfter(r, new) == IF Storage = "session" THEN Put(r.session, new) ELSE r.session
StoreAfter(new) == IF Storage = "session" THEN store ELSE Put(store, new)

-----------------------------------------------------------------------------
(* Browsers.  A cookie reaches the tool only if the browser sends it.        *)

Carried(b, sent) ==
  [session |-> IF sent /\ Storage = "session" THEN jar[b].session ELSE {},
   sid     |-> IF sent /\ UsesSessionId THEN jar[b].sid ELSE NoSid,
   states  |-> IF sent THEN {f \in Logins : clock < jar[b].state[f]} ELSE {}]

Sending == IF CookiesMayBeDropped THEN BOOLEAN ELSE {TRUE}

\* No request of browser b is on its way or being handled.
Quiet(b) ==
  /\ \A f \in Logins : login[f].browser = b => login[f].pc \notin {"arrived", "handled"}
  /\ \A p \in Posts : launch[p].browser = b => launch[p].pc \in {"idle", "done"}

MayRequest(b) == Overlap \/ Quiet(b)

Cookies == [session : SUBSET Entries, sid : Sids,
            state : [Logins -> 0 .. MaxClock + StateTtl]]

LoginRequest == [pc : {"idle", "arrived", "handled", "redirected", "refused"},
                 browser : Browsers \cup {NoBrowser},
                 session : SUBSET Entries, sid : Sids]

Phases == {"idle", "arrived", "state", "nonce", "verified", "saved", "rejected", "done"}
Reasons == {"", "no_session_id", "state", "format", "nonce", "claims", "fetch", "storage"}

LaunchRequest ==
  [pc : Phases, browser : Browsers \cup {NoBrowser}, session : SUBSET Entries, sid : Sids,
   states : SUBSET Logins, tok : 0 .. MaxPosts, fault : Faults \cup {"none"},
   why : Reasons]

Restorations == [browser : Browsers, post : Posts, tok : 0 .. MaxPosts]

TypeOK ==
  /\ jar \in [Browsers -> Cookies]
  /\ store \subseteq Entries
  /\ login \in [Logins -> LoginRequest]
  /\ launch \in [Posts -> LaunchRequest]
  /\ vetted \subseteq Posts /\ accepted \subseteq Posts
  /\ restored \subseteq Restorations
  /\ clock \in 0 .. MaxClock

Init ==
  /\ jar = [b \in Browsers |-> [session |-> {}, sid |-> NoSid, state |-> [f \in Logins |-> 0]]]
  /\ store = {}
  /\ login = [f \in Logins |-> [pc |-> "idle", browser |-> NoBrowser,
                                session |-> {}, sid |-> NoSid]]
  /\ launch = [p \in Posts |->
                 [pc |-> "idle", browser |-> NoBrowser, session |-> {}, sid |-> NoSid,
                  states |-> {}, tok |-> 0, fault |-> "none", why |-> ""]]
  /\ vetted = {} /\ accepted = {}
  /\ restored = {}
  /\ clock = 0

-----------------------------------------------------------------------------
(* OIDC login.                                                               *)

\* The platform starts login f in browser b; the tool receives the request
\* with the browser's cookies and its copy of the session.
LoginArrives(f, b) ==
  /\ login[f].pc = "idle" /\ MayRequest(b)
  /\ \E sent \in Sending :
       login' = [login EXCEPT ![f] =
                  [pc |-> "arrived", browser |-> b,
                   session |-> Carried(b, sent).session, sid |-> Carried(b, sent).sid]]
  /\ UNCHANGED <<jar, store, launch, vetted, accepted, restored, clock>>

\* Mutant: the nonce is not saved.
LoginHandledNoNonce(f) ==
  /\ login[f].pc = "arrived"
  /\ LET sid == IF UsesSessionId /\ login[f].sid = NoSid THEN f ELSE login[f].sid
         new == {Entry(sid, ParamsKey(f), 0)}
     IN  /\ login' = [login EXCEPT ![f] =
                         [pc |-> "handled", browser |-> login[f].browser,
                          session |-> SessionAfter(login[f], new), sid |-> sid]]
         /\ store' = StoreAfter(new)
  /\ UNCHANGED <<jar, launch, vetted, accepted, restored, clock>>

\* OIDCLogin._prepare_redirect_url: adopt or mint the session id, then save
\* nonce and parameters.  The cookies wait for the response.
LoginHandled(f) ==
  /\ login[f].pc = "arrived"
  /\ LET sid == IF UsesSessionId /\ login[f].sid = NoSid THEN f ELSE login[f].sid
         new == {Entry(sid, NonceKey(f), 0), Entry(sid, ParamsKey(f), 0)}
     IN  /\ login' = [login EXCEPT ![f] =
                         [pc |-> "handled", browser |-> login[f].browser,
                          session |-> SessionAfter(login[f], new), sid |-> sid]]
         /\ store' = StoreAfter(new)
  /\ UNCHANGED <<jar, launch, vetted, accepted, restored, clock>>

\* validate_oidc_login finds no issuer, login hint or registration: nothing is
\* saved and the cookies that were queued are lost with the response.
LoginRefused(f) ==
  /\ login[f].pc = "arrived"
  /\ login' = [login EXCEPT ![f].pc = "refused"]
  /\ UNCHANGED <<jar, store, launch, vetted, accepted, restored, clock>>

\* The redirect reaches the browser, with the state cookie, the session id if
\* this request minted it, and the session as this request left it.
LoginResponds(f) ==
  /\ login[f].pc = "handled"
  /\ LET b == login[f].browser
     IN  jar' = [jar EXCEPT ![b] =
                  [session |-> login[f].session,
                   sid |-> IF login[f].sid = f THEN f ELSE jar[b].sid,
                   state |-> [jar[b].state EXCEPT ![f] = clock + StateTtl]]]
  /\ login' = [login EXCEPT ![f].pc = "redirected"]
  /\ UNCHANGED <<store, launch, vetted, accepted, restored, clock>>

-----------------------------------------------------------------------------
(* The launch: the platform's form posts an id_token for login f.            *)

\* The token of post p: a new one, or that of an earlier post sent again.  The platform
\* puts the state and the nonce of one login into the form; that they belong together
\* the tool does not check: validate_state and validate_nonce look at one each.
PostedTokens(p) ==
  {[tok |-> p[2], fault |-> x] : x \in Faults \cup {"none"}}
    \cup {[tok |-> launch[<<p[1], i>>].tok, fault |-> launch[<<p[1], i>>].fault] :
            i \in 1 .. p[2] - 1}

\* The request arrives.  The user may have moved the login to another browser.
\* MessageLaunch.set_launch_data_storage raises when the session id is missing.
PostArrives(p, b) ==
  /\ launch[p].pc = "idle" /\ login[p[1]].pc = "redirected"
  /\ \A i \in 1 .. p[2] - 1 : launch[<<p[1], i>>].pc # "idle"
  /\ MayRequest(b)
  /\ Cardinality({q \in Posts : launch[q].pc # "idle"}) < MaxLaunches
  /\ \E sent \in Sending, t \in PostedTokens(p) :
       LET c == Carried(b, sent)
           missing == UsesSessionId /\ c.sid = NoSid
       IN  launch' = [launch EXCEPT ![p] =
                       [pc |-> IF missing THEN "rejected" ELSE "arrived",
                        browser |-> b, session |-> c.session, sid |-> c.sid,
                        states |-> c.states, tok |-> t.tok, fault |-> t.fault,
                        why |-> IF missing THEN "no_session_id" ELSE ""]]
  /\ UNCHANGED <<jar, store, login, vetted, accepted, restored, clock>>

\* One step of the validation chain: p goes on to "to" if ok, else it fails.
Step(p, from, to, ok, why) ==
  /\ launch[p].pc = from
  /\ launch' = [launch EXCEPT ![p].pc = IF ok THEN to ELSE "rejected",
                              ![p].why = IF ok THEN "" ELSE why]
  /\ UNCHANGED <<jar, store, login, vetted, accepted, restored, clock>>

\* validate_state: the state was already used with this very token, or the
\* state cookie came with the request.
CheckState(p) ==
  Step(p, "arrived", "state",
       Holds(launch[p], HashKey(p[1]), launch[p].tok) \/ p[1] \in launch[p].states, "state")

\* validate_jwt_format.
CheckFormat(p) ==
  /\ launch[p].fault = "format"
  /\ Step(p, "state", "nonce", FALSE, "format")

\* validate_nonce.
CheckNonce(p) ==
  /\ launch[p].fault # "format"
  /\ Step(p, "state", "nonce", Holds(launch[p], NonceKey(p[1]), 0), "nonce")

\* validate_registration, validate_jwt_signature, validate_deployment and
\* validate_message, which depend on the token alone.
Verify(p) ==
  /\ launch[p].pc = "nonce"
  /\ \/ /\ launch[p].fault = "none"
        /\ launch' = [launch EXCEPT ![p].pc = "verified"]
        /\ vetted' = vetted \cup {p}
     \/ /\ launch[p].fault # "none"
        /\ launch' = [launch EXCEPT ![p].pc = "rejected", ![p].why = "claims"]
        /\ UNCHANGED vetted
  /\ UNCHANGED <<jar, store, login, accepted, restored, clock>>

\* fetch_public_key raises.
FetchFails(p) == Step(p, "nonce", "verified", FALSE, "fetch")

\* Mutant: saved before the signature is verified.
SaveEarly(p) ==
  /\ launch[p].pc \in {"nonce", "verified"}
  /\ LET r   == launch[p]
         new == {Entry(r.sid, LaunchKey(p), r.tok), Entry(r.sid, HashKey(p[1]), r.tok)}
     IN  /\ launch' = [launch EXCEPT ![p].pc = "saved", ![p].session = SessionAfter(r, new)]
         /\ store' = StoreAfter(new)
         /\ accepted' = accepted \cup {p}
  /\ UNCHANGED <<jar, login, vetted, restored, clock>>

\* Mutant: set_state_valid is left out.
SaveNoHash(p) ==
  /\ launch[p].pc = "verified"
  /\ LET r   == launch[p]
         new == {Entry(r.sid, LaunchKey(p), r.tok)}
     IN  /\ launch' = [launch EXCEPT ![p].pc = "saved", ![p].session = SessionAfter(r, new)]
         /\ store' = StoreAfter(new)
         /\ accepted' = accepted \cup {p}
  /\ UNCHANGED <<jar, login, vetted, restored, clock>>

\* save_launch_data: the body under the launch id, then the token's hash under
\* the state.
Save(p) ==
  /\ launch[p].pc = "verified"
  /\ LET r   == launch[p]
         new == {Entry(r.sid, LaunchKey(p), r.tok), Entry(r.sid, HashKey(p[1]), r.tok)}
     IN  /\ launch' = [launch EXCEPT ![p].pc = "saved", ![p].session = SessionAfter(r, new)]
         /\ store' = StoreAfter(new)
         /\ accepted' = accepted \cup {p}
  /\ UNCHANGED <<jar, login, vetted, restored, clock>>

\* The cache raises at the second write: the launch fails, its body stays.
SaveFails(p) ==
  /\ launch[p].pc = "verified" /\ Storage = "cache"
  /\ store' = StoreAfter({Entry(launch[p].sid, LaunchKey(p), launch[p].tok)})
  /\ launch' = [launch EXCEPT ![p].pc = "rejected", ![p].why = "storage"]
  /\ UNCHANGED <<jar, login, vetted, accepted, restored, clock>>

\* The handler reads the launch after a failed validation: _get_jwt_body
\* validates again, on the same request.
Revalidate(p) ==
  /\ launch[p].pc = "rejected" /\ launch[p].why # "no_session_id"
  /\ launch' = [launch EXCEPT ![p].pc = "arrived"]
  /\ UNCHANGED <<jar, store, login, vetted, accepted, restored, clock>>

\* The response arrives.  It carries the session as the request left it, unless
\* the exception went past the session middleware.
LaunchResponds(p) ==
  /\ launch[p].pc \in {"saved", "rejected"}
  /\ launch' = [launch EXCEPT ![p].pc = "done"]
  /\ \/ jar' = [jar EXCEPT ![launch[p].browser].session =
                  IF Storage = "session" THEN launch[p].session ELSE @]
     \/ launch[p].pc = "rejected" /\ UNCHANGED jar
  /\ UNCHANGED <<store, login, vetted, accepted, restored, clock>>

\* MessageLaunch.from_cache in a later request of browser b.
Restore(b, p) ==
  /\ MayRequest(b)
  /\ UsesSessionId => jar[b].sid # NoSid
  /\ \E tok \in 1 .. MaxPosts :
       /\ Holds(Carried(b, TRUE), LaunchKey(p), tok)
       /\ restored' = restored \cup {[browser |-> b, post |-> p, tok |-> tok]}
  /\ UNCHANGED <<jar, store, login, launch, vetted, accepted, clock>>

Tick ==
  /\ clock < MaxClock
  /\ clock' = clock + 1
  /\ UNCHANGED <<jar, store, login, launch, vetted, accepted, restored>>

Server ==
  \/ \E f \in Logins : LoginHandled(f) \/ LoginRefused(f)
  \/ \E p \in Posts : \/ CheckState(p) \/ CheckFormat(p) \/ CheckNonce(p) \/ Verify(p)
                      \/ FetchFails(p) \/ Save(p) \/ SaveFails(p) \/ Revalidate(p)

Delivery ==
  \/ \E f \in Logins : LoginResponds(f)
  \/ \E p \in Posts : LaunchResponds(p)

User ==
  \E b \in Browsers : \/ \E f \in Logins : LoginArrives(f, b)
                      \/ \E p \in Posts : PostArrives(p, b) \/ Restore(b, p)

Next == Server \/ Delivery \/ User \/ Tick

Spec == Init /\ [][Next]_vars

\* Every request is handled and answered.  A request that fails for a reason
\* outside the tool (FetchFails, SaveFails, LoginRefused) and a handler that
\* reads a failed launch again (Revalidate) are never owed to happen; the handler
\* ends all the same (SF), for its code reads the launch finitely often.
ServerFairness ==
  /\ \A f \in Logins : WF_vars(LoginHandled(f)) /\ WF_vars(LoginResponds(f))
  /\ \A p \in Posts : WF_vars(CheckState(p) \/ CheckFormat(p) \/ CheckNonce(p)
                              \/ Verify(p) \/ Save(p)) /\ SF_vars(LaunchResponds(p))

\* A browser that was redirected follows the platform's form back to the tool.
BrowserFairness ==
  \A f \in Logins : \A b \in Browsers :
    WF_vars(PostArrives(<<f, 1>>, b) /\ login[f].browser = b)

FairSpec == Spec /\ ServerFairness /\ BrowserFairness

-----------------------------------------------------------------------------
(* Properties.                                                               *)

Shared == store \cup UNION {jar[b].session : b \in Browsers}

\* What entry e makes a later request believe is true of a launch that passed
\* every check.
Trusted(e) ==
  /\ e.key.kind = "launch" => /\ e.key.of \in vetted
                              /\ launch[e.key.of].tok = e.val
                              /\ launch[e.key.of].fault = "none"
  /\ e.key.kind = "id-token-hash" =>
       \E p \in vetted : /\ p[1] = e.key.of
                         /\ launch[p].tok = e.val
                         /\ launch[p].fault = "none"

\* A launch is accepted only in the browser whose login it answers, even when
\* the authorization URL was opened in another browser and even when a token
\* that was accepted before is posted again (validate_state, validate_nonce and
\* the session id in every key of the storage).
AcceptedWhereBegun ==
  \A p \in accepted : launch[p].browser = login[p[1]].browser

\* Launch data and "this state is valid" marks come only from a launch that
\* passed the whole chain of checks: no request that failed, or has yet to be
\* verified, leaves anything a later request would trust (save_launch_data is
\* the last call of validate).
StoredOnlyIfVetted == \A e \in Shared : Trusted(e)

\* Without its state cookie a launch is accepted only as a repetition of a
\* token that was accepted with the cookie for the same login
\* (check_state_is_valid compares the hash that set_state_valid stored).
NoCookieOnlyIfRepeated ==
  \A p \in accepted :
    \E q \in Posts : /\ q[1] = p[1] /\ launch[q].tok = launch[p].tok
                     /\ q \in accepted /\ q[1] \in launch[q].states

\* What from_cache hands out under a launch id is the body of the launch that
\* has that id, which passed every check, and only in the browser it ran in.
RestoredIsVetted ==
  \A r \in restored : /\ r.post \in vetted
                      /\ launch[r.post].tok = r.tok
                      /\ launch[r.post].browser = r.browser

\* A launch that a browser brings back in time, with its cookies, to the tool
\* that redirected it finds the nonce that its login saved: the storage
\* persists data across the login -> launch round trip.
LoginSurvivesRoundTrip ==
  \A p \in Posts :
    ~(p[1] \in launch[p].states /\ launch[p].why = "nonce" /\ clock < DataTtl)

\* A reload of the one token a login was accepted with is not refused for its
\* state, however late, while the storage keeps its entries (set_state_valid):
\* the user may refresh the page after the state cookie is gone.
ReloadAccepted ==
  [][\A p, q \in Posts :
       /\ launch[p].pc = "arrived" /\ launch'[p].why = "state" /\ clock < DataTtl
       /\ q[1] = p[1] /\ q \in accepted /\ launch[q].browser = launch[p].browser
       => \E r \in Posts : /\ r[1] = p[1] /\ r \in accepted
                           /\ launch[r].tok # launch[p].tok]_vars

\* The launch as an application sees it: every step is a step of LaunchContract
\* or changes nothing the application can rely on.
Contract ==
  INSTANCE LaunchContract WITH
    Tokens  <- 1 .. MaxPosts,
    begun   <- [f \in Logins |-> IF login[f].pc \in {"handled", "redirected"}
                                   THEN login[f].browser ELSE NoBrowser],
    vouched <- {[post |-> p, browser |-> launch[p].browser, tok |-> launch[p].tok] :
                  p \in vetted},
    handed  <- restored

ImplementsContract == Contract!Spec

\* The launch failed for something the tool has no part in: the key fetch or the
\* cache, the platform's token, or a user who came back after the state cookie.
Excused(p) ==
  \/ launch[p].why \in {"fetch", "storage"}
  \/ launch[p].why \in {"format", "claims"} /\ launch[p].fault # "none"
  \/ launch[p].why = "state" /\ clock >= StateTtl

\* A browser that a login sent to the platform comes to an accepted launch,
\* unless something outside the tool fails.
GoodLoginSucceeds ==
  \A f \in Logins : login[f].pc = "redirected" ~>
    \E p \in Posts : p[1] = f /\ (p \in accepted \/ Excused(p))
=============================================================================
