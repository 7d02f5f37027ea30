-------------------------- MODULE TokenVerification -------------------------
(***************************************************************************)
(* What LaunchFlow's Verify and FetchFails stand for: the signature of the *)
(* id_token is checked with the platform's key set, which is fetched or    *)
(* taken from the launch data storage, then the message is validated and   *)
(* the launch saved.                                                       *)
(*                                                                         *)
(* The platform rotates its keys: it publishes a new one, signs with it,   *)
(* and retires the old one.  The key set belongs to no session, so that    *)
(* the storage's session id is put aside while it is looked up and stored, *)
(* and put back whatever happens in between.                               *)
(*                                                                         *)
(* The storage is one that honours the lifetime it is given, which is what *)
(* can_set_keys_expiration says of CacheDataStorage; SessionDataStorage    *)
(* ignores it, and keeps a key set for as long as the session lasts.       *)
(***************************************************************************)
EXTENDS Integers, MessageValidators

CONSTANTS
  Launches,       \* requests with a launch, each with its own storage object
  Sids, SidOf,    \* the session id in each request's cookie, NoSid over plain http
  NoSid,
  LastKey,        \* the platform's keys are 1 .. LastKey, in the order of their use
  CacheLifetime,  \* of set_public_key_caching
  FetchTime,      \* the longest a request for the key set is open
  Inputs,         \* the messages launches may bring
  MaxClock

ASSUME VerificationParametersOK ==
  /\ SidOf \in [Launches -> Sids \cup {NoSid}] /\ NoSid \notin Sids
  /\ LastKey \in Nat \ {0}
  /\ CacheLifetime \in Nat \ {0} /\ FetchTime \in Nat /\ MaxClock \in Nat
  /\ Inputs \subseteq Messages

VARIABLES
  clock,
  signer,      \* the key the platform signs with
  publishedAt, \* when each key was published and retired
  retiredAt,
  keySets,     \* what the storage holds under the key set's name, by session id
  pc,
  kid,         \* the key that signed the token of each launch, and that it names
  sid,         \* _session_id of each launch's storage object
  aside,       \* the one DisableSessionId keeps
  held,        \* the key set the launch has in hand, and when it came by it
  heldAt,
  sentAt,      \* when its request for it left
  saved,       \* the launches that were saved, with the session id in their key
  lacks        \* history: what the application will not find in a launch's message

platformVars == <<signer, publishedAt, retiredAt>>
vars == <<clock, platformVars, keySets, pc, kid, sid, aside, held, heldAt,
          sentAt, saved, lacks>>

-----------------------------------------------------------------------------
Keys == 1 .. LastKey
Times == 0 .. MaxClock
Never == MaxClock + 1
Prefixes == Sids \cup {NoSid}

\* A stored key set: its keys, when the platform gave it (history), and when it
\* expires.  An answer that is JSON but no key set is stored as well: a set without
\* keys, for a launch that looks for one.  Python takes {}, [] or null for no answer.
KeySets == {e \in [json : {"empty", "filled"}, keys : SUBSET Keys, given : Times, exp : Nat] :
              e.keys # {} => e.json = "filled"}
NoKeySet == [json |-> "empty", keys |-> {}, given |-> 0, exp |-> 0]

Published == {k \in Keys : publishedAt[k] # Never /\ retiredAt[k] = Never}

\* Mutant: it is looked up and stored under the session id.
KeySetNameOfSession(l) == SidOf[l]
\* _prepare_key: the storage's session id, if it has one, is part of every key.
KeySetName(l) == sid[l]

\* Mutant: the storage's default lifetime, twice as long.
LifetimeDefault == 2 * CacheLifetime
\* The entry is live until its expiry.
Lifetime == CacheLifetime

Live(e) == clock < e.exp

\* `if public_key`: what is stored is used unless it is empty.
Usable(e) == Live(e) /\ e.json = "filled"

Fetching == {"fetching", "answered"}
Phases == {"idle", "new", "inside", "have", "verified", "accepted", "rejected", "failed", "nokey"} \cup Fetching
Ended == {"idle", "accepted", "rejected", "failed", "nokey"}

\* The session id is put aside while the key set is looked up, and only then.
AsideOnlyInside ==
  \A l \in Launches :
    IF pc[l] \in {"inside"} \cup Fetching
    THEN sid[l] = NoSid /\ aside[l] = SidOf[l]
    ELSE aside[l] = NoSid /\ (pc[l] # "idle" => sid[l] = SidOf[l])

VerificationTypeOK ==
  /\ clock \in Times
  /\ signer \in Published
  /\ publishedAt \in [Keys -> Times \cup {Never}]
  /\ retiredAt \in [Keys -> Times \cup {Never}]
  /\ keySets \in [Prefixes -> KeySets]
  /\ pc \in [Launches -> Phases]
  /\ kid \in [Launches -> Keys]
  /\ sid \in [Launches -> Prefixes]
  /\ aside \in [Launches -> Prefixes]
  /\ held \in [Launches -> KeySets]
  /\ heldAt \in [Launches -> Times]
  /\ sentAt \in [Launches -> Times]
  /\ saved \subseteq Prefixes \X Launches
  /\ lacks \in [Launches -> SUBSET Claims]
  /\ AsideOnlyInside

Init ==
  /\ clock = 0
  /\ signer = 1
  /\ publishedAt = [k \in Keys |-> IF k = 1 THEN 0 ELSE Never]
  /\ retiredAt = [k \in Keys |-> Never]
  /\ keySets = [p \in Prefixes |-> NoKeySet]
  /\ pc = [l \in Launches |-> "idle"]
  /\ kid = [l \in Launches |-> 1]
  /\ sid = [l \in Launches |-> NoSid]
  /\ aside = [l \in Launches |-> NoSid]
  /\ held = [l \in Launches |-> NoKeySet]
  /\ heldAt = [l \in Launches |-> 0]
  /\ sentAt = [l \in Launches |-> 0]
  /\ saved = {}
  /\ lacks = [l \in Launches |-> {}]

-----------------------------------------------------------------------------
\* The platform publishes the next key, signs with it, retires one it no longer uses.
Publish ==
  /\ signer < LastKey /\ publishedAt[signer + 1] = Never
  /\ publishedAt' = [publishedAt EXCEPT ![signer + 1] = clock]
  /\ UNCHANGED <<signer, retiredAt>>
SignWithNext ==
  /\ signer + 1 \in Published
  /\ signer' = signer + 1
  /\ UNCHANGED <<publishedAt, retiredAt>>
Retire(k) ==
  /\ k \in Published /\ k < signer
  /\ retiredAt' = [retiredAt EXCEPT ![k] = clock]
  /\ UNCHANGED <<signer, publishedAt>>
Rotate ==
  /\ Publish \/ SignWithNext \/ \E k \in Keys : Retire(k)
  /\ UNCHANGED <<clock, keySets, pc, kid, sid, aside, held, heldAt, sentAt, saved, lacks>>

\* A launch arrives: its token may have been signed a while ago.  The storage gets
\* the session id of the request's cookie (set_launch_data_storage).
Arrive(l) ==
  /\ pc[l] \in Ended
  /\ \E k \in 1 .. signer : kid' = [kid EXCEPT ![l] = k]
  /\ sid' = [sid EXCEPT ![l] = SidOf[l]]
  /\ pc' = [pc EXCEPT ![l] = "new"]
  /\ saved' = {s \in saved : s[2] # l}
  /\ lacks' = [lacks EXCEPT ![l] = {}]
  /\ UNCHANGED <<clock, platformVars, keySets, aside, held, heldAt, sentAt>>

\* A reader asks for the data of a launch that failed, and the same request is
\* validated again (_get_jwt_body).  A message that was rejected would be again.
Again(l) ==
  /\ pc[l] \in {"failed", "nokey"}
  /\ pc' = [pc EXCEPT ![l] = "new"]
  /\ UNCHANGED <<clock, platformVars, keySets, kid, sid, aside, held, heldAt,
                 sentAt, saved, lacks>>

\* DisableSessionId takes the session id out, and puts it back if there was one.
PutAside(l) ==
  /\ aside' = [aside EXCEPT ![l] = sid[l]]
  /\ sid' = [sid EXCEPT ![l] = NoSid]
PutBack(l) ==
  /\ sid' = [sid EXCEPT ![l] = IF aside[l] # NoSid THEN aside[l] ELSE sid[l]]
  /\ aside' = [aside EXCEPT ![l] = NoSid]

Enter(l) ==
  /\ pc[l] = "new"
  /\ PutAside(l)
  /\ held' = [held EXCEPT ![l] = NoKeySet] /\ heldAt' = [heldAt EXCEPT ![l] = 0]
  /\ pc' = [pc EXCEPT ![l] = "inside"]
  /\ UNCHANGED <<clock, platformVars, keySets, kid, sentAt, saved, lacks>>

\* The stored key set is used if it is live and not empty,
UseStored(l) ==
  /\ pc[l] = "inside" /\ Usable(keySets[KeySetName(l)])
  /\ held' = [held EXCEPT ![l] = [keySets[KeySetName(l)] EXCEPT !.exp = 0]]
  /\ heldAt' = [heldAt EXCEPT ![l] = clock]
  /\ PutBack(l)
  /\ pc' = [pc EXCEPT ![l] = "have"]
  /\ UNCHANGED <<clock, platformVars, keySets, kid, sentAt, saved, lacks>>

\* and asked for otherwise: an empty answer is asked for again by every launch.
AskForKeys(l) ==
  /\ pc[l] = "inside" /\ ~Usable(keySets[KeySetName(l)])
  /\ sentAt' = [sentAt EXCEPT ![l] = clock]
  /\ pc' = [pc EXCEPT ![l] = "fetching"]
  /\ UNCHANGED <<clock, platformVars, keySets, kid, sid, aside, held, heldAt, saved, lacks>>

\* The platform answers with the keys it publishes, or with JSON that is no key set:
\* the status of the response is not looked at.
PlatformAnswers(l) ==
  /\ pc[l] = "fetching"
  /\ \E a \in {[json |-> "filled", keys |-> Published], [json |-> "filled", keys |-> {}],
               [json |-> "empty", keys |-> {}]} :
       held' = [held EXCEPT ![l] = [json |-> a.json, keys |-> a.keys, given |-> clock, exp |-> 0]]
  /\ pc' = [pc EXCEPT ![l] = "answered"]
  /\ UNCHANGED <<clock, platformVars, keySets, kid, sid, aside, heldAt, sentAt, saved, lacks>>

\* The answer is stored, whatever the storage holds by now, and used.
Receive(l) ==
  /\ pc[l] = "answered"
  /\ keySets' = [keySets EXCEPT ![KeySetName(l)] = [held[l] EXCEPT !.exp = clock + Lifetime]]
  /\ heldAt' = [heldAt EXCEPT ![l] = clock]
  /\ sentAt' = [sentAt EXCEPT ![l] = 0]
  /\ PutBack(l)
  /\ pc' = [pc EXCEPT ![l] = "have"]
  /\ UNCHANGED <<clock, platformVars, kid, held, saved, lacks>>

\* Mutant: the session id is put back only after an answer.
FetchFailsInside(l) ==
  /\ pc[l] \in Fetching
  /\ pc' = [pc EXCEPT ![l] = "failed"]
  /\ held' = [held EXCEPT ![l] = NoKeySet] /\ sentAt' = [sentAt EXCEPT ![l] = 0]
  /\ UNCHANGED <<clock, platformVars, keySets, kid, sid, aside, heldAt, saved, lacks>>

\* No answer, or one that is not JSON.
FetchFails(l) ==
  /\ pc[l] \in Fetching
  /\ PutBack(l)
  /\ pc' = [pc EXCEPT ![l] = "failed"]
  /\ held' = [held EXCEPT ![l] = NoKeySet] /\ sentAt' = [sentAt EXCEPT ![l] = 0]
  /\ UNCHANGED <<clock, platformVars, keySets, kid, heldAt, saved, lacks>>

\* get_public_key finds the key the token names, or not,
MissKey(l) ==
  /\ pc[l] = "have" /\ kid[l] \notin held[l].keys
  /\ pc' = [pc EXCEPT ![l] = "nokey"]
  /\ UNCHANGED <<clock, platformVars, keySets, kid, sid, aside, held, heldAt, sentAt, saved, lacks>>

\* and jwt.decode accepts the token, or refuses it: a wrong signature, or expired.
CheckSignature(l) ==
  /\ pc[l] = "have" /\ kid[l] \in held[l].keys
  /\ \/ pc' = [pc EXCEPT ![l] = "verified"] /\ UNCHANGED heldAt
     \/ pc' = [pc EXCEPT ![l] = "failed"] /\ heldAt' = [heldAt EXCEPT ![l] = 0]
  /\ held' = [held EXCEPT ![l] = NoKeySet]
  /\ UNCHANGED <<clock, platformVars, keySets, kid, sid, aside, sentAt, saved, lacks>>

\* validate_message, and save_launch_data under the storage's session id.
ValidateMessage(l) ==
  /\ pc[l] = "verified"
  /\ \E m \in Inputs :
       \/ /\ Passes(m)
          /\ pc' = [pc EXCEPT ![l] = "accepted"]
          /\ saved' = saved \cup {<<KeySetName(l), l>>}
          /\ lacks' = [lacks EXCEPT ![l] = Used[m.type] \ m.has]
          /\ UNCHANGED heldAt
       \/ /\ ~Passes(m)
          /\ pc' = [pc EXCEPT ![l] = "rejected"]
          /\ heldAt' = [heldAt EXCEPT ![l] = 0]
          /\ UNCHANGED <<saved, lacks>>
  /\ UNCHANGED <<clock, platformVars, keySets, kid, sid, aside, held, sentAt>>

\* Time passes, but not past the timeout of a request that is open.
Tick ==
  /\ clock < MaxClock
  /\ \A l \in Launches : pc[l] \in Fetching => clock < sentAt[l] + FetchTime
  /\ clock' = clock + 1
  /\ UNCHANGED <<platformVars, keySets, pc, kid, sid, aside, held, heldAt, sentAt, saved, lacks>>

LaunchStep(l) ==
  \/ Arrive(l) \/ Again(l) \/ Enter(l) \/ UseStored(l) \/ AskForKeys(l) \/ PlatformAnswers(l)
  \/ Receive(l) \/ FetchFails(l) \/ MissKey(l) \/ CheckSignature(l) \/ ValidateMessage(l)

Next == (\E l \in Launches : LaunchStep(l)) \/ Rotate \/ Tick

VerificationSpec == Init /\ [][Next]_vars

-----------------------------------------------------------------------------
(* Properties.                                                               *)

\* A launch is accepted by a key that the platform retired at most for the lifetime
\* of a stored key set and the time of a request, however the answers to several
\* requests overtake each other.
RetiredKeyIsDropped ==
  \A l \in Launches : pc[l] = "accepted" /\ retiredAt[kid[l]] # Never =>
    heldAt[l] < retiredAt[kid[l]] + CacheLifetime + FetchTime

\* A token is refused for want of its key only as long as a set may be stored that
\* the platform gave before it published the key, or after it retired it, or that
\* was no key set: a rotation, or a bad answer, is over after that time.
KeyIsMissedBriefly ==
  \A l \in Launches : pc[l] = "nokey" =>
    /\ \/ held[l].keys = {}
       \/ held[l].given <= publishedAt[kid[l]]
       \/ retiredAt[kid[l]] <= held[l].given
    /\ heldAt[l] < held[l].given + CacheLifetime + FetchTime

\* The sessions share the key set: no launch asks for it while any launch's answer is
\* stored and live, but for an answer that was empty, which nobody uses: while that is
\* all there is, every launch asks.
FetchedOnlyWhenDue ==
  [][\A l \in Launches : pc[l] # "fetching" /\ pc'[l] = "fetching" =>
       \A p \in Prefixes : clock >= keySets[p].exp \/ keySets[p].json = "empty"]_vars

\* The session id is put back: a launch that is saved is saved under the session id
\* of its own browser, also one that was validated again after its fetch failed.
SavedUnderItsSession == \A s \in saved : s[1] = SidOf[s[2]]

\* What becomes of a launch, as VerificationContract sees it: it is judged when it
\* has a key set in hand.
Undecided == {"new", "inside"} \cup Fetching
Verdict(l) ==
  IF pc[l] \in Undecided THEN "asked"
  ELSE IF pc[l] \in {"have", "nokey"} THEN
         IF kid[l] \in held[l].keys THEN "trusted"
         ELSE IF held[l].keys = {} THEN "noset" ELSE "missing"
  ELSE IF pc[l] = "verified" THEN "trusted" ELSE pc[l]

Contract ==
  INSTANCE VerificationContract WITH
    Staleness <- CacheLifetime + FetchTime,
    verdict   <- [l \in Launches |-> Verdict(l)]

\* The stored key set, the requests that overtake each other and the session id that
\* is put aside are hidden: every step is a step of VerificationContract or changes
\* nothing a launch can rely on.
ImplementsVerification == Contract!Spec

\* A launch that is accepted has what the application takes from it without asking:
\* but for the return URL of deep linking, which no validator looks for.
AcceptedIsUsable == \A l \in Launches : pc[l] = "accepted" => lacks[l] \subseteq {"return_url"}
=============================================================================
