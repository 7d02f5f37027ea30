------------------------------ MODULE ToolConf ------------------------------
(***************************************************************************)
(* The tool configuration in memory: ToolConfDict and ToolConfJsonFile     *)
(* read a document that gives each issuer one client (a dict) or many (a   *)
(* list), and answer the lookups of logins and launches.                   *)
(*                                                                         *)
(* What kind of issuer it is, is kept outside the configuration objects:   *)
(* issuers_relation_types is one dict of the class, which every object     *)
(* writes while it is built and reads at each lookup.  Objects are built   *)
(* and used by threads of one process.                                     *)
(***************************************************************************)
EXTENDS Integers, Sequences, FiniteSets, SequencesExt

CONSTANTS
  Confs,      \* the configuration objects of the process
  Issuers, Clients, Deployments,
  Keys,       \* key pairs of the tool
  Documents,  \* the documents a configuration may be built from
  NoClient, NoKey, NoItem

ASSUME NamesOK == NoClient \notin Clients /\ NoKey \notin Keys

VARIABLES
  relation,  \* issuers_relation_types, with the default of its readers
  conf,      \* conf[c]: the object c, how far it is built, and its document
  keys,      \* keys[c]: the keys object c holds
  lookup     \* lookup[c]: the login or launch that is asking object c

vars == <<relation, conf, keys, lookup>>

-----------------------------------------------------------------------------
(* Documents.  An entry is the configuration of one issuer; a document holds  *)
(* the entries in the order in which they are read.                           *)

Items == [client : Clients, default : BOOLEAN, deployments : SUBSET Deployments,
          complete : BOOLEAN,         \* has the required keys, in the right types
          key : Keys \cup {NoKey},    \* private_key_file
          public : Keys \cup {NoKey}] \* public_key_file, which an item may leave out

Shapes == {"one", "many"}
Entries == [iss : Issuers, shape : Shapes, items : Seq(Items)]

\* A document is a JSON object: an issuer comes once.  A dict is one client.
ASSUME DocumentsOK ==
  /\ Documents \subseteq Seq(Entries) /\ NoItem \notin Items
  /\ \A doc \in Documents : \A i, j \in DOMAIN doc :
       /\ doc[i].iss = doc[j].iss => i = j
       /\ doc[i].shape = "one" => Len(doc[i].items) = 1

\* json_data.get(iss): the items of an issuer; one if its shape is "one".
ItemsOf(doc, iss) ==
  IF \E i \in DOMAIN doc : doc[i].iss = iss
  THEN doc[CHOOSE i \in DOMAIN doc : doc[i].iss = iss].items
  ELSE <<>>

ShapeOf(doc, iss) == doc[CHOOSE i \in DOMAIN doc : doc[i].iss = iss].shape

\* Mutant: the first item of an issuer serves all its clients.
GetIssConfigFirst(doc, iss, client) ==
  IF ItemsOf(doc, iss) = <<>> THEN NoItem ELSE ItemsOf(doc, iss)[1]

\* The first of the items at the given places.
FirstOf(items, places) == IF places = {} THEN NoItem ELSE items[Min(places)]

\* Mutant: an item that is alone must be marked as the default.
GetIssConfigStrict(doc, iss, client) ==
  LET items == ItemsOf(doc, iss)
      fits(item) == IF client # NoClient THEN item.client = client ELSE item.default
  IN  FirstOf(items, {i \in DOMAIN items : fits(items[i])})

\* get_iss_config: the first item of the client, or the default one, or the
\* only one; what a dict holds is returned without looking at the client.
GetIssConfig(doc, iss, client) ==
  LET items == ItemsOf(doc, iss)
      fits(item) ==
        \/ ShapeOf(doc, iss) = "one"
        \/ client # NoClient /\ item.client = client
        \/ client = NoClient /\ (item.default \/ Len(items) = 1)
  IN  FirstOf(items, {i \in DOMAIN items : fits(items[i])})

-----------------------------------------------------------------------------
(* Keys.  A key is kept under the issuer, or under issuer and client.         *)

Slot(iss, client) == IF relation[iss] = "many" THEN client ELSE NoClient

\* An item names no key file, or no client though its issuer has many.
Unreadable(iss, client, item) ==
  item.key = NoKey \/ (relation[iss] = "many" /\ client = NoClient)

\* set_private_key and, if the item names a file for it, set_public_key; what is
\* set takes the place of the key of its kind that was there.
SetKeys(held, iss, client, item) ==
  LET read == {[kind |-> "private", iss |-> iss, client |-> Slot(iss, client), key |-> item.key]}
        \cup {h \in {[kind |-> "public", iss |-> iss, client |-> Slot(iss, client),
                      key |-> item.public]} : item.public # NoKey}
  IN  {h \in held : \A k \in read : ~(h.kind = k.kind /\ h.iss = k.iss /\ h.client = k.client)}
        \cup read

\* get_private_key.
GetKey(c, iss, client) ==
  LET found == {h \in keys[c] : h.kind = "private" /\ h.iss = iss
                                /\ h.client = Slot(iss, client)}
  IN  IF found = {} THEN NoKey ELSE (CHOOSE h \in found : TRUE).key

\* Mutant: only the keys of issuers that have one client.
JwksOneClient(c) == {h.key : h \in {k \in keys[c] : k.kind = "public" /\ k.client = NoClient}}

\* get_jwks without an issuer: the public keys, from both places.
Jwks(c) == {h.key : h \in {k \in keys[c] : k.kind = "public"}}

-----------------------------------------------------------------------------
Idle == [pc |-> "idle", iss |-> CHOOSE i \in Issuers : TRUE, client |-> NoClient,
         dep |-> CHOOSE d \in Deployments : TRUE, key |-> NoKey]

\* The readers of issuers_relation_types take "one client" for the default.
Init ==
  /\ relation = [i \in Issuers |-> "one"]
  /\ conf = [c \in Confs |-> [stage |-> "none", doc |-> <<>>, entry |-> 1, item |-> 1]]
  /\ keys = [c \in Confs |-> {}]
  /\ lookup = [c \in Confs |-> Idle]

-----------------------------------------------------------------------------
(* Building a configuration.                                                  *)

\* Object c is built from document doc.
Build(c, doc) ==
  /\ conf[c].stage = "none"
  /\ conf' = [conf EXCEPT ![c] = [stage |-> "validating", doc |-> doc, entry |-> 1, item |-> 1]]
  /\ UNCHANGED <<relation, keys, lookup>>

\* One turn of the loop of ToolConfDict.__init__: the relation is set before the
\* entry's items are validated, and stays when one of them is not complete.
ValidateEntry(c) ==
  LET doc == conf[c].doc
      e   == doc[conf[c].entry]
  IN  /\ conf[c].stage = "validating" /\ conf[c].entry <= Len(doc)
      /\ relation' = [relation EXCEPT ![e.iss] = e.shape]
      /\ conf' = IF \A i \in DOMAIN e.items : e.items[i].complete
                 THEN [conf EXCEPT ![c].entry = @ + 1]
                 ELSE [conf EXCEPT ![c].stage = "rejected"]
      /\ UNCHANGED <<keys, lookup>>

\* The document is valid; its key files are read next.
Validated(c) ==
  /\ conf[c].stage = "validating" /\ conf[c].entry > Len(conf[c].doc)
  /\ conf' = [conf EXCEPT ![c].stage = "reading", ![c].entry = 1]
  /\ UNCHANGED <<relation, keys, lookup>>

\* _process_iss_conf_item: the client is passed on only from a list.
ReadKeys(c) ==
  LET doc  == conf[c].doc
      e    == doc[conf[c].entry]
      item == e.items[conf[c].item]
      client == IF e.shape = "many" THEN item.client ELSE NoClient
  IN  /\ conf[c].stage = "reading" /\ conf[c].entry <= Len(doc)
      /\ IF conf[c].item > Len(e.items)
         THEN /\ conf' = [conf EXCEPT ![c].entry = @ + 1, ![c].item = 1]
              /\ UNCHANGED keys
         ELSE IF Unreadable(e.iss, client, item)
         THEN /\ conf' = [conf EXCEPT ![c].stage = "rejected"]
              /\ UNCHANGED keys
         ELSE /\ keys' = [keys EXCEPT ![c] = SetKeys(@, e.iss, client, item)]
              /\ conf' = [conf EXCEPT ![c].item = @ + 1]
      /\ UNCHANGED <<relation, lookup>>

Built(c) ==
  /\ conf[c].stage = "reading" /\ conf[c].entry > Len(conf[c].doc)
  /\ conf' = [conf EXCEPT ![c].stage = "ready"]
  /\ UNCHANGED <<relation, keys, lookup>>

-----------------------------------------------------------------------------
(* Using it.                                                                  *)

\* A login (which need not name its client) or a launch arrives.
Ask(c, iss, client, dep) ==
  /\ conf[c].stage = "ready" /\ lookup[c].pc = "idle"
  /\ lookup' = [lookup EXCEPT ![c] = [pc |-> "asked", iss |-> iss, client |-> client,
                                      dep |-> dep, key |-> NoKey]]
  /\ UNCHANGED <<relation, conf, keys>>

\* find_registration or find_registration_by_params, as the relation says.
Found(c) ==
  LET r == lookup[c]
      client == IF relation[r.iss] = "one" THEN NoClient ELSE r.client
  IN  GetIssConfig(conf[c].doc, r.iss, client)

\* validate_registration.
Registration(c) ==
  /\ lookup[c].pc = "asked" /\ lookup[c].client # NoClient
  /\ lookup' = [lookup EXCEPT ![c] =
       IF Found(c) = NoItem \/ Found(c).client # lookup[c].client
       THEN [@ EXCEPT !.pc = "refused"]
       ELSE [@ EXCEPT !.pc = "found", !.key = GetKey(c, lookup[c].iss, Found(c).client)]]
  /\ UNCHANGED <<relation, conf, keys>>

\* validate_deployment: the relation is read once more.
Deployment(c) ==
  /\ lookup[c].pc = "found"
  /\ lookup' = [lookup EXCEPT ![c].pc =
       IF Found(c) # NoItem /\ lookup[c].dep \in Found(c).deployments
       THEN "accepted" ELSE "refused"]
  /\ UNCHANGED <<relation, conf, keys>>

\* validate_oidc_login, when the login names no client.
Login(c) ==
  /\ lookup[c].pc = "asked" /\ lookup[c].client = NoClient
  /\ lookup' = [lookup EXCEPT ![c] =
       IF Found(c) = NoItem THEN [@ EXCEPT !.pc = "refused"]
       ELSE [@ EXCEPT !.pc = "redirected", !.client = Found(c).client,
                      !.key = GetKey(c, lookup[c].iss, Found(c).client)]]
  /\ UNCHANGED <<relation, conf, keys>>

Answer(c) ==
  /\ lookup[c].pc \in {"accepted", "refused", "redirected"}
  /\ lookup' = [lookup EXCEPT ![c] = Idle]
  /\ UNCHANGED <<relation, conf, keys>>

Next ==
  \E c \in Confs :
    \/ \E doc \in Documents : Build(c, doc)
    \/ ValidateEntry(c) \/ Validated(c) \/ ReadKeys(c) \/ Built(c)
    \/ \E iss \in Issuers, client \in Clients \cup {NoClient}, dep \in Deployments :
         Ask(c, iss, client, dep)
    \/ Registration(c) \/ Deployment(c) \/ Login(c) \/ Answer(c)

Spec == Init /\ [][Next]_vars

-----------------------------------------------------------------------------
(* Properties.                                                               *)

\* The items of the configuration's own document for what lookup[c] asks.
Own(c) == {item \in ToSet(ItemsOf(conf[c].doc, lookup[c].iss)) :
             item.client = lookup[c].client}

\* A launch is accepted exactly for the clients and deployments of the
\* configuration's document, with the client's own key, whatever other
\* configurations are built meanwhile.
LaunchFollowsDocument ==
  \A c \in Confs :
    LET r == lookup[c]
        granted == \E item \in Own(c) : r.dep \in item.deployments
    IN  /\ r.pc = "accepted" => \E item \in Own(c) : r.dep \in item.deployments
                                                     /\ r.key = item.key
        /\ r.pc = "refused" /\ r.client # NoClient => ~granted

\* A login that names no client is sent on with the issuer's default client, or
\* its only one, and with that client's key.
LoginUsesDefault ==
  \A c \in Confs :
    LET r     == lookup[c]
        items == ToSet(ItemsOf(conf[c].doc, r.iss))
        usual == {item \in items : item.default \/ Cardinality(items) = 1}
    IN  /\ r.pc = "redirected" =>
             \E item \in usual : r.client = item.client /\ r.key = item.key
        /\ r.pc = "refused" /\ r.client = NoClient => usual = {}

\* The key set that the tool publishes for all its platforms is that of the public
\* key files the document names, of dicts and of lists: none is missing, and no key
\* of another configuration is in it.  A client whose item names no public key file
\* is accepted all the same, and its key is published nowhere.
PublishesNamedKeys ==
  \A c \in Confs : conf[c].stage = "ready" =>
    LET items == UNION {ToSet(conf[c].doc[i].items) : i \in DOMAIN conf[c].doc}
    IN  Jwks(c) = {item.public : item \in items} \ {NoKey}
=============================================================================
