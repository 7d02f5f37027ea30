------------------------ MODULE DynamicRegistration ------------------------
(***************************************************************************)
(* Dynamic registration: a platform's administrator opens the tool's       *)
(* registration URL; the tool fetches the platform's OpenID configuration, *)
(* posts its own registration, and saves what the platform answered.       *)
(* StoredToolConf resolves later logins and launches from the store.       *)
(*                                                                         *)
(* Platform and tool share no transaction: the platform may have created   *)
(* the client although the tool never sees a usable answer.  And nothing   *)
(* ties a document to the URL it came from: issuer and endpoints are what  *)
(* it says, and the client is what the answer says, so that two platforms  *)
(* may register under one issuer, and two registrations have one key.      *)
(***************************************************************************)
EXTENDS Integers, Sequences, FiniteSets, SequencesExt

CONSTANTS
  Requests,     \* registration requests, retries among them
  Workers,      \* processes of the tool
  Stores, StoreOf,  \* the registration store of each worker
  Durable,      \* a store survives the worker, with the order of its records
  Platforms, Issuers, Endpoints, ClientIds, NoClient, Deployments, NoDeployment,
  Documents,    \* the OpenID configurations that initiations name
  MaxCrashes, NoRecord

\* PlatformConfiguration: "at" is the platform that serves its registration_endpoint.
Configurations == [issuer : Issuers, endpoints : Endpoints, at : Platforms]

ASSUME ParametersOK ==
  /\ StoreOf \in [Workers -> Stores] /\ Workers # {} /\ MaxCrashes \in Nat
  /\ NoDeployment \notin Deployments /\ NoClient \notin ClientIds
  /\ Documents \subseteq Configurations /\ Documents # {}

VARIABLES
  platform,  \* platform[p]: the clients that platform p has created
  request,
  store,     \* store[s]: the records in the order of their first save
  saves,     \* history: the requests that saved a record, in that order
  crashes

vars == <<platform, request, store, saves, crashes>>

-----------------------------------------------------------------------------
\* ToolRegistration.
Records == [issuer : Issuers, client : ClientIds, endpoints : Endpoints,
            deployment : Deployments \cup {NoDeployment}]

ASSUME NoRecordIsNone == NoRecord \notin Records

\* Mutant: the store's key leaves the issuer out.
SameKeyClient(r, s) == r.client = s.client
\* The key of InMemoryRegistrationStore.
SameKey(r, s) == r.issuer = s.issuer /\ r.client = s.client

\* save: a record with the same key is replaced where it is.
Saved(records, r) ==
  IF \E i \in DOMAIN records : SameKey(records[i], r)
  THEN [i \in DOMAIN records |-> IF SameKey(records[i], r) THEN r ELSE records[i]]
  ELSE Append(records, r)

\* The record at place i, when there is one.
At(records, i) == IF i = 0 THEN NoRecord ELSE records[i]

\* Mutant: the newest registration of the issuer.
FallbackNewest(records, iss) == At(records, SelectLastInSeq(records, LAMBDA r : r.issuer = iss))

\* _lookup without a client: the first registration of the issuer.
Fallback(records, iss) == At(records, SelectInSeq(records, LAMBDA r : r.issuer = iss))

\* _lookup with a client.
Lookup(records, iss, client) ==
  At(records, SelectInSeq(records, LAMBDA r : r.issuer = iss /\ r.client = client))

\* _deployment: a captured deployment is enforced, otherwise any is accepted.
Allows(r, dep) == r.deployment \in {NoDeployment, dep}

-----------------------------------------------------------------------------
Waiting == {"fetching", "posting", "answered"}
Phases == {"idle", "fetched", "saved", "complete", "failed"} \cup Waiting

\* What a platform created, and whether its answer names it: has the client_id.
Answers == [client : ClientIds, deployment : Deployments \cup {NoDeployment}, named : BOOLEAN]
NoAnswer == [named |-> FALSE]

TypeOK ==
  /\ platform \in [Platforms -> SUBSET ClientIds]
  /\ request \in [Requests -> [pc : Phases, worker : Workers, doc : Documents,
                               answer : Answers \cup {NoAnswer}]]
  /\ \A s \in Stores : ToSet(store[s]) \subseteq Records
  /\ ToSet(saves) \subseteq Requests
  /\ crashes \in 0 .. MaxCrashes

Init ==
  /\ platform = [p \in Platforms |-> {}]
  /\ request = [r \in Requests |->
                  [pc |-> "idle", worker |-> CHOOSE w \in Workers : TRUE,
                   doc |-> CHOOSE d \in Documents : TRUE, answer |-> NoAnswer]]
  /\ store = [s \in Stores |-> <<>>]
  /\ saves = <<>> /\ crashes = 0

-----------------------------------------------------------------------------
\* handle_dynamic_registration: the initiation names the URL of an OpenID
\* configuration; the work goes to a thread, which asks for that document.
\* Without the parameter the answer is 400 and nothing happens.
Initiate(r, w, d) ==
  /\ request[r].pc = "idle"
  /\ request' = [request EXCEPT ![r] = [pc |-> "fetching", worker |-> w, doc |-> d,
                                        answer |-> NoAnswer]]
  /\ UNCHANGED <<platform, store, saves, crashes>>

\* The document arrives, and is complete.
ConfigurationFetched(r) ==
  /\ request[r].pc = "fetching"
  /\ request' = [request EXCEPT ![r].pc = "fetched"]
  /\ UNCHANGED <<platform, store, saves, crashes>>

\* _post_registration.
Post(r) ==
  /\ request[r].pc = "fetched"
  /\ request' = [request EXCEPT ![r].pc = "posting"]
  /\ UNCHANGED <<platform, store, saves, crashes>>

\* The platform behind the registration endpoint creates a client, deployed or not,
\* or one it has already, and answers.
PlatformCreates(r) ==
  /\ request[r].pc = "posting"
  /\ \E a \in Answers :
       /\ platform' = [platform EXCEPT ![request[r].doc.at] = @ \cup {a.client}]
       /\ request' = [request EXCEPT ![r] = [@ EXCEPT !.pc = "answered", !.answer = a]]
  /\ UNCHANGED <<store, saves, crashes>>

\* Mutant: an answer without a client_id is taken.
UsableAlways(r) == TRUE
\* _to_registration demands a client_id.
Usable(r) == request[r].answer.named

\* The record: issuer and endpoints of the document, client and deployment of the answer.
ToRegistration(r) ==
  LET d == request[r].doc
      a == request[r].answer
  IN  [issuer |-> d.issuer, client |-> IF a.named THEN a.client ELSE NoClient,
       endpoints |-> d.endpoints, deployment |-> a.deployment]

\* Mutant: the store is not written.
SaveNothing(r) ==
  /\ request[r].pc = "answered" /\ Usable(r)
  /\ request' = [request EXCEPT ![r].pc = "saved"]
  /\ UNCHANGED <<platform, store, saves, crashes>>

\* The record is built and saved, whoever saved one of its key before.
Save(r) ==
  /\ request[r].pc = "answered" /\ Usable(r)
  /\ store' = [store EXCEPT ![StoreOf[request[r].worker]] = Saved(@, ToRegistration(r))]
  /\ saves' = Append(saves, r)
  /\ request' = [request EXCEPT ![r].pc = "saved"]
  /\ UNCHANGED <<platform, crashes>>

\* The completion page is returned.
Complete(r) ==
  /\ request[r].pc = "saved"
  /\ request' = [request EXCEPT ![r].pc = "complete"]
  /\ UNCHANGED <<platform, store, saves, crashes>>

\* Mutant: no timeout while the platform does not answer.
FailNoTimeout(r) ==
  /\ request[r].pc = "answered"
  /\ request' = [request EXCEPT ![r].pc = "failed"]
  /\ UNCHANGED <<platform, store, saves, crashes>>

\* ExternalRequestError: a timeout or an error of the connection, a status that
\* is not ok, a document or an answer that is not usable.  The platform keeps
\* the client it may have created.
Fail(r) ==
  /\ request[r].pc \in Waiting
  /\ request' = [request EXCEPT ![r].pc = "failed"]
  /\ UNCHANGED <<platform, store, saves, crashes>>

\* A worker stops and starts again: its requests are gone, and so is a store
\* that is in its memory.
Crash(w) ==
  /\ crashes < MaxCrashes
  /\ crashes' = crashes + 1
  /\ request' = [r \in Requests |->
                   IF request[r].worker = w /\ request[r].pc \notin {"idle", "complete"}
                   THEN [request[r] EXCEPT !.pc = "failed"] ELSE request[r]]
  /\ store' = [s \in Stores |-> IF s = StoreOf[w] /\ ~Durable THEN <<>> ELSE store[s]]
  /\ UNCHANGED <<platform, saves>>

Tool(r) == ConfigurationFetched(r) \/ Post(r) \/ Save(r) \/ Complete(r) \/ Fail(r)

Next ==
  \/ \E r \in Requests : \/ \E w \in Workers, d \in Documents : Initiate(r, w, d)
                         \/ Tool(r) \/ PlatformCreates(r)
  \/ \E w \in Workers : Crash(w)

Spec == Init /\ [][Next]_vars

\* A thread goes on, and an open request to the platform ends, be it by its
\* timeout.  The platform owes nothing.
FairSpec == Spec /\ \A r \in Requests : WF_vars(Tool(r))

-----------------------------------------------------------------------------
(* Properties.                                                               *)

\* Issuer and client, under which a request's registration is kept.
Key(r) == <<request[r].doc.issuer, request[r].answer.client>>

\* Once the administrator has seen the completion page, every worker resolves logins
\* and launches of that issuer and client, to what the last registration to save under
\* them brought, whole: the endpoints of its document, and its deployment.  No
\* registration under another issuer or client, of whatever platform, takes that away,
\* none that came earlier comes back, and no crash matters.
CompletedResolves ==
  \A r \in Requests, w \in Workers : request[r].pc = "complete" =>
    \E n \in DOMAIN saves :
      /\ Key(saves[n]) = Key(r) /\ \A m \in DOMAIN saves : m > n => Key(saves[m]) # Key(r)
      /\ LET found == Lookup(store[StoreOf[w]], request[r].doc.issuer, request[r].answer.client)
             last == request[saves[n]]
         IN  /\ found # NoRecord /\ found.endpoints = last.doc.endpoints
             /\ \A d \in Deployments :
                  Allows(found, d) <=> last.answer.deployment \in {NoDeployment, d}

\* A login that names no client goes on being resolved to the client it was resolved
\* to first, whatever is registered later, with a store that finds an issuer's records
\* in the order of their first saves.  The default store does; the interface of the
\* others says nothing of an order.
FallbackIsStable ==
  [][\A w \in Workers, i \in Issuers :
       LET before == Fallback(store[StoreOf[w]], i)
       IN  before # NoRecord =>
             LET after == Fallback(store'[StoreOf[w]], i)
             IN  after # NoRecord /\ after.client = before.client]_vars

\* A client that a platform created and no store knows belongs to an attempt
\* that is still under way or that failed: a registration never succeeds for the
\* administrator and is lost for the tool.
UnknownOnlyIfFailed ==
  \A p \in Platforms : \A id \in platform[p] :
    \E r \in Requests :
      /\ request[r].doc.at = p /\ request[r].answer # NoAnswer /\ request[r].answer.client = id
      /\ \/ request[r].pc \in {"answered", "failed"}
         \/ \E s \in Stores : Lookup(store[s], request[r].doc.issuer, id) # NoRecord

\* Every registration ends, with the completion page or an error.
RegistrationEnds ==
  \A r \in Requests : request[r].pc # "idle" ~> request[r].pc \in {"complete", "failed"}
=============================================================================
