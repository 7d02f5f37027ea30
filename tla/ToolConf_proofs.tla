--------------------------- MODULE ToolConf_proofs ---------------------------
(***************************************************************************)
(* Proofs about ToolConf, for any number of configuration objects and any  *)
(* documents.  What the lookups need of the documents is stated with each  *)
(* theorem: that they agree on how many clients an issuer has, since that  *)
(* is kept once for all objects, and that no issuer lists a client twice,  *)
(* since a key is kept once for a client.                                  *)
(***************************************************************************)
EXTENDS ToolConf, FiniteSetTheorems, WellFoundedInduction, TLAPS

Agree ==
  \A doc, other \in Documents : \A i \in DOMAIN doc, j \in DOMAIN other :
    doc[i].iss = other[j].iss => doc[i].shape = other[j].shape

EachClientOnce ==
  \A doc \in Documents : \A i \in DOMAIN doc : \A j, k \in DOMAIN doc[i].items :
    doc[i].items[j].client = doc[i].items[k].client => j = k

-----------------------------------------------------------------------------
(* Documents.                                                                 *)

\* A set of numbers that is not empty has a least one.
LEMMA Least ==
  ASSUME NEW I, I \subseteq Nat, I # {}
  PROVE  \E m \in I : \A k \in I : m <= k
  <1> DEFINE R == OpToRel(<, Nat)
  <1>1. IsWellFoundedOn(R, Nat)
    BY NatLessThanWellFounded
  <1>2. \A x, y \in Nat : x < y => <<x, y>> \in R
    BY DEF OpToRel
  <1> HIDE DEF R
  <1>3. PICK x \in I : \A y \in I : ~ (<<y, x>> \in R)
    BY <1>1, WFMin
  <1>4. \A y \in I : x <= y
    <2> TAKE y \in I
    <2>1. x \in Nat /\ y \in Nat
      OBVIOUS
    <2>2. ~(y < x)
      BY <1>2, <1>3, <2>1
    <2> QED BY <2>1, <2>2
  <1> QED BY <1>4

LEMMA MinIs ==
  ASSUME NEW I, I \subseteq Nat, I # {}
  PROVE  Min(I) \in I
  <1>1. \E m \in I : \A k \in I : m =< k
    BY Least
  <1> QED BY <1>1 DEF Min

LEMMA FirstIs ==
  ASSUME NEW items \in Seq(Items), NEW places \in SUBSET DOMAIN items, places # {}
  PROVE  \E i \in places : FirstOf(items, places) = items[i]
  <1>1. places \in SUBSET Nat
    OBVIOUS
  <1>2. Min(places) \in places
    BY <1>1, MinIs
  <1> QED BY <1>2 DEF FirstOf

LEMMA DocType ==
  ASSUME NEW doc \in Documents
  PROVE  /\ doc \in Seq(Entries) /\ Len(doc) \in Nat /\ DOMAIN doc = 1 .. Len(doc)
         /\ \A i \in DOMAIN doc :
              /\ doc[i] \in Entries /\ doc[i].iss \in Issuers /\ doc[i].shape \in Shapes
              /\ doc[i].items \in Seq(Items) /\ Len(doc[i].items) \in Nat
              /\ DOMAIN doc[i].items = 1 .. Len(doc[i].items)
              /\ \A j \in DOMAIN doc[i].items :
                   /\ doc[i].items[j] \in Items /\ doc[i].items[j] # NoItem
                   /\ doc[i].items[j].client \in Clients
                   /\ doc[i].items[j].client # NoClient
                   /\ doc[i].items[j].key \in Keys \cup {NoKey}
                   /\ doc[i].items[j].public \in Keys \cup {NoKey}
  <1>1. doc \in Seq(Entries)
    BY DocumentsOK
  <1>2. ASSUME NEW i \in DOMAIN doc
        PROVE  /\ doc[i] \in Entries /\ doc[i].iss \in Issuers /\ doc[i].shape \in Shapes
               /\ doc[i].items \in Seq(Items)
    <2>1. doc[i] \in Entries
      BY <1>1
    <2> QED BY <2>1 DEF Entries
  <1>3. ASSUME NEW i \in DOMAIN doc, NEW j \in DOMAIN doc[i].items
        PROVE  /\ doc[i].items[j] \in Items /\ doc[i].items[j] # NoItem
               /\ doc[i].items[j].client \in Clients
               /\ doc[i].items[j].client # NoClient
               /\ doc[i].items[j].key \in Keys \cup {NoKey}
               /\ doc[i].items[j].public \in Keys \cup {NoKey}
    <2>1. doc[i].items[j] \in Items
      BY <1>2
    <2> QED BY <2>1, DocumentsOK, NamesOK DEF Items
  <1> QED BY <1>1, <1>2, <1>3

\* An issuer's entry is found whatever its place.
LEMMA EntryFound ==
  ASSUME NEW doc \in Documents, NEW i \in DOMAIN doc
  PROVE  ItemsOf(doc, doc[i].iss) = doc[i].items /\ ShapeOf(doc, doc[i].iss) = doc[i].shape
  <1> DEFINE k == CHOOSE j \in DOMAIN doc : doc[j].iss = doc[i].iss
  <1>1. k \in DOMAIN doc /\ doc[k].iss = doc[i].iss
    OBVIOUS
  <1>2. k = i
    BY <1>1, DocumentsOK
  <1> QED BY <1>2 DEF ItemsOf, ShapeOf

LEMMA NoEntryFound ==
  ASSUME NEW doc \in Documents, NEW iss, \A i \in DOMAIN doc : doc[i].iss # iss
  PROVE  ItemsOf(doc, iss) = <<>>
  BY DEF ItemsOf

-----------------------------------------------------------------------------
(* Which item get_iss_config returns.  A dict is asked without the client.    *)

Asked(e, client) == IF e.shape = "one" THEN NoClient ELSE client

\* For a client it is that client's item, if there is one.
LEMMA ClientsItem ==
  ASSUME EachClientOnce, NEW doc \in Documents, NEW i \in DOMAIN doc,
         NEW j \in DOMAIN doc[i].items
  PROVE  LET item == doc[i].items[j]
         IN  GetIssConfig(doc, doc[i].iss, Asked(doc[i], item.client)) = item
  <1> DEFINE e == doc[i]
             item == e.items[j]
             at == {k \in DOMAIN e.items : \/ e.shape = "one"
                                           \/ e.items[k].client = item.client}
  <1>1. ItemsOf(doc, e.iss) = e.items /\ ShapeOf(doc, e.iss) = e.shape
    BY EntryFound
  <1>2. item.client # NoClient /\ e.items \in Seq(Items) /\ e.shape \in Shapes
    BY DocType
  <1>3. GetIssConfig(doc, e.iss, Asked(e, item.client)) = FirstOf(e.items, at)
    BY <1>1, <1>2 DEF GetIssConfig, Asked
  <1>4. at = {j}
    <2>1. e.shape = "one" => DOMAIN e.items = {j}
      BY DocumentsOK, DocType
    <2>2. e.shape # "one" => at = {j}
      BY DEF EachClientOnce
    <2> QED BY <2>1, <2>2
  <1> HIDE DEF at
  <1>5. \E k \in at : FirstOf(e.items, at) = e.items[k]
    <2>1. at \in SUBSET DOMAIN e.items /\ at # {}
      BY <1>4
    <2> HIDE DEF e
    <2> QED BY <1>2, <2>1, FirstIs
  <1> QED BY <1>3, <1>4, <1>5

\* What it returns is an item of the issuer; for a list asked for a client, that
\* client's; without a client, the default one or the only one.
LEMMA FoundItem ==
  ASSUME NEW doc \in Documents, NEW i \in DOMAIN doc, NEW client \in Clients \cup {NoClient}
  PROVE  LET items == doc[i].items
             found == GetIssConfig(doc, doc[i].iss, Asked(doc[i], client))
         IN  \/ /\ found = NoItem
                /\ client = NoClient =>
                     \A j \in DOMAIN items : ~(items[j].default \/ Len(items) = 1)
             \/ \E j \in DOMAIN items :
                  /\ found = items[j]
                  /\ client = NoClient => items[j].default \/ Len(items) = 1
  <1> DEFINE e == doc[i]
             at == {k \in DOMAIN e.items :
                      \/ e.shape = "one"
                      \/ client # NoClient /\ e.items[k].client = client
                      \/ client = NoClient /\ (e.items[k].default \/ Len(e.items) = 1)}
  <1>1. ItemsOf(doc, e.iss) = e.items /\ ShapeOf(doc, e.iss) = e.shape
    BY EntryFound
  <1>2. GetIssConfig(doc, e.iss, Asked(e, client)) = FirstOf(e.items, at)
    BY <1>1 DEF GetIssConfig, Asked
  <1>3. CASE at = {}
    BY <1>2, <1>3 DEF FirstOf
  <1>4. CASE at # {}
    <2>1. at \in SUBSET DOMAIN e.items /\ e.items \in Seq(Items)
      BY DocType
    <2>2. PICK k \in at : FirstOf(e.items, at) = e.items[k]
      <3> HIDE DEF at, e
      <3> QED BY <1>4, <2>1, FirstIs
    <2>3. e.shape = "one" => Len(e.items) = 1
      BY DocumentsOK
    <2> QED BY <1>2, <2>2, <2>3
  <1> QED BY <1>3, <1>4

-----------------------------------------------------------------------------
(* The inductive invariant.                                                   *)

Positive == Nat \ {0}
Stages == {"none", "validating", "rejected", "reading", "ready"}
Held == [kind : {"private", "public"}, iss : Issuers, client : Clients \cup {NoClient},
         key : Keys \cup {NoKey}]

Requests == [pc : {"idle", "asked", "found", "accepted", "refused", "redirected"},
             iss : Issuers \cup {CHOOSE i \in Issuers : TRUE},
             client : Clients \cup {NoClient},
             dep : Deployments \cup {CHOOSE d \in Deployments : TRUE},
             key : Keys \cup {NoKey}]

TypeInv ==
  /\ relation \in [Issuers -> Shapes]
  /\ conf \in [Confs -> [stage : Stages, doc : Documents \cup {<<>>}, entry : Positive, item : Positive]]
  /\ \A c \in Confs : conf[c].stage # "none" => conf[c].doc \in Documents
  /\ keys \in [Confs -> SUBSET Held]
  /\ lookup \in [Confs -> Requests]

\* The entries that configuration cf has passed on to issuers_relation_types,
Noted(cf) ==
  {i \in DOMAIN cf.doc : \/ cf.stage = "validating" /\ i < cf.entry
                         \/ cf.stage \in {"reading", "ready"}}

\* and its items whose keys were read.
KeyRead(cf, i, j) == i < cf.entry \/ (i = cf.entry /\ j < cf.item)

\* What was noted stays, as the other documents agree.
RelationInv ==
  \A c \in Confs : \A i \in Noted(conf[c]) :
    relation[conf[c].doc[i].iss] = conf[c].doc[i].shape

\* Where the key of an item is kept, if its issuer's shape is noted.
SlotOf(e, item) == IF e.shape = "many" THEN item.client ELSE NoClient

\* The keys an item gives, and what is held of each.
Given(item) == {"private"} \cup {kind \in {"public"} : item.public # NoKey}
KeyOf(kind, item) == IF kind = "private" THEN item.key ELSE item.public
Pair(kind, e, item) ==
  [kind |-> kind, iss |-> e.iss, client |-> SlotOf(e, item), key |-> KeyOf(kind, item)]

\* h is a key that the item gives.
Is(h, e, item) == h.kind \in Given(item) /\ h = Pair(h.kind, e, item)

\* held has the keys that configuration cf has read, and only keys of its document.
Holds(cf, held) ==
  /\ cf.stage \in {"none", "validating"} => held = {} /\ cf.item = 1
  /\ cf.stage = "ready" => cf.entry > Len(cf.doc)
  /\ cf.stage \in {"reading", "ready"} =>
       /\ \A i \in DOMAIN cf.doc : \A j \in DOMAIN cf.doc[i].items : KeyRead(cf, i, j) =>
            \A kind \in Given(cf.doc[i].items[j]) :
              Pair(kind, cf.doc[i], cf.doc[i].items[j]) \in held
       /\ \A h \in held : \E i \in DOMAIN cf.doc : \E j \in DOMAIN cf.doc[i].items :
            Is(h, cf.doc[i], cf.doc[i].items[j])

KeysInv == \A c \in Confs : Holds(conf[c], keys[c])

OwnItems(doc, r) == {item \in ToSet(ItemsOf(doc, r.iss)) : item.client = r.client}
UsualItems(doc, iss) ==
  LET items == ToSet(ItemsOf(doc, iss))
  IN  {item \in items : item.default \/ Cardinality(items) = 1}

\* Request r was answered as document doc says.
Judged(doc, r) ==
  LET own == OwnItems(doc, r)
      usual == UsualItems(doc, r.iss)
  IN
  /\ r.pc = "found" => r.client # NoClient /\ \E item \in own : r.key = item.key
  /\ r.pc = "accepted" => \E item \in own : r.dep \in item.deployments /\ r.key = item.key
  /\ r.pc = "refused" /\ r.client # NoClient => ~ \E item \in own : r.dep \in item.deployments
  /\ r.pc = "redirected" => \E item \in usual : r.client = item.client /\ r.key = item.key
  /\ r.pc = "refused" /\ r.client = NoClient => usual = {}

LookupInv ==
  \A c \in Confs : lookup[c].pc # "idle" =>
    /\ conf[c].stage = "ready"
    /\ lookup[c].iss \in Issuers /\ lookup[c].client \in Clients \cup {NoClient}
    /\ Judged(conf[c].doc, lookup[c])

ConfInv == RelationInv /\ KeysInv /\ LookupInv

LEMMA InitConf == Init => TypeInv /\ ConfInv
  <1> SUFFICES ASSUME Init PROVE TypeInv /\ ConfInv
    OBVIOUS
  <1>1. \A c \in Confs : /\ conf[c] = [stage |-> "none", doc |-> <<>>, entry |-> 1, item |-> 1]
                         /\ keys[c] = {} /\ lookup[c].pc = "idle"
    BY DEF Init, Idle
  <1>2. TypeInv
    <2>1. Idle \in Requests
      BY DEF Idle, Requests
    <2> QED BY <1>1, <2>1 DEF Init, TypeInv, Stages, Shapes, Positive
  <1>3. RelationInv
    BY <1>1 DEF RelationInv, Noted
  <1>4. KeysInv
    BY <1>1 DEF KeysInv, Holds
  <1>5. LookupInv
    BY <1>1 DEF LookupInv
  <1> QED BY <1>2, <1>3, <1>4, <1>5 DEF ConfInv

\* Only object c changes, its lookup and what the issuers are not.
Builds(c) ==
  /\ UNCHANGED lookup
  /\ \A d \in Confs \ {c} : conf'[d] = conf[d] /\ keys'[d] = keys[d]
  /\ conf[c].stage # "ready"

\* What a step that builds c must show: the rest follows.
LEMMA BuildStep ==
  ASSUME TypeInv, ConfInv, NEW c \in Confs, Builds(c),
         \A i \in DOMAIN conf'[c].doc :
           i \in Noted(conf'[c]) => relation'[conf'[c].doc[i].iss] = conf'[c].doc[i].shape,
         \A d \in Confs \ {c} : \A i \in Noted(conf[d]) :
           relation'[conf[d].doc[i].iss] = relation[conf[d].doc[i].iss],
         Holds(conf'[c], keys'[c])
  PROVE  ConfInv'
  <1>1. RelationInv'
    <2> SUFFICES ASSUME NEW d \in Confs, NEW i \in Noted(conf'[d])
                 PROVE  relation'[conf'[d].doc[i].iss] = conf'[d].doc[i].shape
      BY DEF RelationInv
    <2>1. CASE d = c
      BY <2>1 DEF Noted
    <2>2. CASE d # c
      <3>1. conf'[d] = conf[d]
        BY <2>2 DEF Builds
      <3> QED BY <2>2, <3>1 DEF ConfInv, RelationInv
    <2> QED BY <2>1, <2>2
  <1>2. KeysInv'
    <2> SUFFICES ASSUME NEW d \in Confs PROVE Holds(conf'[d], keys'[d])
      BY DEF KeysInv
    <2>1. CASE d = c
      BY <2>1
    <2>2. CASE d # c
      BY <2>2 DEF ConfInv, KeysInv, Builds
    <2> QED BY <2>1, <2>2
  <1>3. LookupInv'
    <2> SUFFICES ASSUME NEW d \in Confs, lookup'[d].pc # "idle"
                 PROVE  /\ conf'[d].stage = "ready"
                        /\ lookup'[d].iss \in Issuers /\ lookup'[d].client \in Clients \cup {NoClient}
                        /\ Judged(conf'[d].doc, lookup'[d])
      BY DEF LookupInv
    <2>1. lookup'[d] = lookup[d] /\ conf[d].stage = "ready"
      BY DEF Builds, ConfInv, LookupInv
    <2>2. conf'[d] = conf[d]
      BY <2>1 DEF Builds
    <2> QED BY <2>1, <2>2 DEF ConfInv, LookupInv
  <1> QED BY <1>1, <1>2, <1>3 DEF ConfInv

\* The configuration of c becomes cf.
LEMMA ConfType ==
  ASSUME TypeInv, NEW c \in Confs, NEW cf, conf' = [conf EXCEPT ![c] = cf],
         cf \in [stage : Stages, doc : Documents, entry : Positive, item : Positive]
  PROVE  /\ conf' \in [Confs -> [stage : Stages, doc : Documents \cup {<<>>}, entry : Positive, item : Positive]]
         /\ \A d \in Confs : conf'[d].stage # "none" => conf'[d].doc \in Documents
         /\ conf'[c] = cf
         /\ \A d \in Confs \ {c} : conf'[d] = conf[d]
  BY DEF TypeInv

\* A configuration in the making.
LEMMA MakingType ==
  ASSUME TypeInv, NEW c \in Confs, conf[c].stage # "none"
  PROVE  /\ conf[c] \in [stage : Stages, doc : Documents, entry : Positive, item : Positive]
         /\ conf[c].doc \in Documents /\ conf[c].entry \in Positive /\ conf[c].item \in Positive
  BY DEF TypeInv

LEMMA BuildKept ==
  ASSUME TypeInv, ConfInv, NEW c \in Confs, NEW doc \in Documents, Build(c, doc)
  PROVE  TypeInv' /\ ConfInv'
  <1> DEFINE cf == [stage |-> "validating", doc |-> doc, entry |-> 1, item |-> 1]
  <1>1. conf[c].stage = "none" /\ conf' = [conf EXCEPT ![c] = cf]
        /\ UNCHANGED <<relation, keys, lookup>>
    BY DEF Build
  <1>2. cf \in [stage : Stages, doc : Documents, entry : Positive, item : Positive]
    BY DEF Stages, Positive
  <1>3. /\ cf.stage = "validating" /\ cf.entry = 1 /\ cf.doc = doc /\ cf.item = 1
    OBVIOUS
  <1> HIDE DEF cf
  <1>4. TypeInv' /\ conf'[c] = cf /\ \A d \in Confs \ {c} : conf'[d] = conf[d]
    BY <1>1, <1>2, ConfType DEF TypeInv
  <1>5. Builds(c)
    BY <1>1, <1>4 DEF Builds
  <1>6. Noted(cf) = {}
    <2>1. DOMAIN doc \subseteq Nat \ {0}
      BY DocType
    <2> QED BY <1>3, <2>1 DEF Noted
  <1>7. Holds(conf'[c], keys'[c])
    BY <1>1, <1>3, <1>4 DEF Holds, ConfInv, KeysInv
  <1> QED BY <1>1, <1>4, <1>5, <1>6, <1>7, BuildStep

LEMMA ValidateKept ==
  ASSUME Agree, TypeInv, ConfInv, NEW c \in Confs, ValidateEntry(c)
  PROVE  TypeInv' /\ ConfInv'
  <1> DEFINE doc == conf[c].doc
             n == conf[c].entry
  <1>1. /\ conf[c].stage = "validating" /\ n <= Len(doc)
        /\ relation' = [relation EXCEPT ![doc[n].iss] = doc[n].shape]
        /\ UNCHANGED <<keys, lookup>>
    BY DEF ValidateEntry
  <1>2. PICK cf : /\ conf' = [conf EXCEPT ![c] = cf]
                  /\ \/ cf = [conf[c] EXCEPT !.entry = n + 1]
                     \/ cf = [conf[c] EXCEPT !.stage = "rejected"]
    <2>1. conf' = [conf EXCEPT ![c] = [conf[c] EXCEPT !.entry = n + 1]]
          \/ conf' = [conf EXCEPT ![c] = [conf[c] EXCEPT !.stage = "rejected"]]
      BY DEF ValidateEntry
    <2> QED BY <2>1
  <1>3. conf[c] \in [stage : Stages, doc : Documents, entry : Positive, item : Positive]
    BY <1>1, MakingType
  <1>4. cf \in [stage : Stages, doc : Documents, entry : Positive, item : Positive]
    BY <1>2, <1>3 DEF Stages, Positive
  <1>5. /\ cf.doc = doc /\ cf.item = conf[c].item
        /\ \/ cf.stage = "validating" /\ cf.entry = n + 1
           \/ cf.stage = "rejected"
    BY <1>1, <1>2, <1>3
  <1>6. conf'[c] = cf /\ \A d \in Confs \ {c} : conf'[d] = conf[d]
    BY <1>2, <1>4, ConfType
  <1>7. Builds(c)
    BY <1>1, <1>6 DEF Builds
  <1>8. doc \in Documents /\ n \in DOMAIN doc
    <2>1. doc \in Documents /\ n \in Positive
      BY <1>3
    <2> QED BY <1>1, <2>1, DocType DEF Positive
  <1> HIDE DEF doc, n
  <1>9. doc[n].iss \in Issuers /\ doc[n].shape \in Shapes
    BY <1>8, DocType
  <1>10. \A d \in Confs : \A i \in Noted(conf[d]) :
          relation'[conf[d].doc[i].iss] = relation[conf[d].doc[i].iss]
    <2> SUFFICES ASSUME NEW d \in Confs, NEW i \in Noted(conf[d])
                 PROVE  relation'[conf[d].doc[i].iss] = relation[conf[d].doc[i].iss]
      OBVIOUS
    <2>1. conf[d].doc \in Documents /\ i \in DOMAIN conf[d].doc
      BY DEF Noted, TypeInv
    <2>2. relation[conf[d].doc[i].iss] = conf[d].doc[i].shape
      BY DEF ConfInv, RelationInv
    <2>3. conf[d].doc[i].iss \in Issuers
      BY <2>1, DocType
    <2>4. conf[d].doc[i].iss = doc[n].iss => conf[d].doc[i].shape = doc[n].shape
      BY <1>8, <2>1 DEF Agree
    <2> QED BY <1>1, <1>9, <2>2, <2>3, <2>4 DEF TypeInv
  <1>11. ASSUME NEW i \in Noted(cf) PROVE relation'[doc[i].iss] = doc[i].shape
    <2>1. i \in DOMAIN doc /\ doc[i].iss \in Issuers /\ cf.stage = "validating" /\ i < n + 1
      BY <1>5, <1>8, <1>11, DocType DEF Noted
    <2>2. CASE i = n
      BY <1>1, <1>9, <2>2 DEF TypeInv
    <2>3. CASE i # n
      <3>1. i < n
        BY <1>8, <2>1, <2>3, DocType
      <3>2. i \in Noted(conf[c]) /\ conf[c].doc = doc
        BY <1>1, <2>1, <3>1 DEF Noted, doc, n
      <3>3. relation[doc[i].iss] = doc[i].shape
        BY <3>2 DEF ConfInv, RelationInv
      <3> QED BY <1>10, <3>2, <3>3
    <2> QED BY <2>2, <2>3
  <1>12. relation' \in [Issuers -> Shapes]
    BY <1>1, <1>9 DEF TypeInv
  <1>13. TypeInv'
    BY <1>1, <1>2, <1>4, <1>12, ConfType DEF TypeInv
  <1>14. Holds(conf'[c], keys'[c])
    BY <1>1, <1>5, <1>6 DEF Holds, ConfInv, KeysInv
  <1> QED BY <1>5, <1>6, <1>7, <1>10, <1>11, <1>13, <1>14, BuildStep

\* A configuration in the making takes another step, and keeps what it noted.
LEMMA MakingStep ==
  ASSUME TypeInv, ConfInv, NEW c \in Confs, NEW cf,
         conf[c].stage # "none", conf[c].stage # "ready",
         conf' = [conf EXCEPT ![c] = cf], cf.doc = conf[c].doc,
         cf \in [stage : Stages, doc : Documents, entry : Positive, item : Positive],
         Noted(cf) \subseteq Noted(conf[c]),
         UNCHANGED <<relation, lookup>>,
         \A d \in Confs \ {c} : keys'[d] = keys[d],
         keys' \in [Confs -> SUBSET Held],
         Holds(cf, keys'[c])
  PROVE  TypeInv' /\ ConfInv'
  <1>1. conf'[c] = cf /\ \A d \in Confs \ {c} : conf'[d] = conf[d]
    BY ConfType
  <1>2. TypeInv'
    BY ConfType DEF TypeInv
  <1>3. Builds(c)
    BY <1>1 DEF Builds
  <1>4. \A i \in Noted(cf) : relation'[cf.doc[i].iss] = cf.doc[i].shape
    BY DEF ConfInv, RelationInv
  <1> QED BY <1>1, <1>2, <1>3, <1>4, BuildStep

LEMMA ValidatedKept ==
  ASSUME TypeInv, ConfInv, NEW c \in Confs, Validated(c)
  PROVE  TypeInv' /\ ConfInv'
  <1> DEFINE cf == [conf[c] EXCEPT !.stage = "reading", !.entry = 1]
  <1>1. /\ conf[c].stage = "validating" /\ conf[c].entry > Len(conf[c].doc)
        /\ UNCHANGED <<relation, keys, lookup>>
    BY DEF Validated
  <1>2. conf[c] \in [stage : Stages, doc : Documents, entry : Positive, item : Positive]
    BY <1>1, MakingType
  <1>3. conf' = [conf EXCEPT ![c] = cf]
    BY <1>2 DEF Validated, TypeInv
  <1>4. /\ cf \in [stage : Stages, doc : Documents, entry : Positive, item : Positive]
        /\ cf.doc = conf[c].doc /\ cf.stage = "reading" /\ cf.entry = 1 /\ cf.item = conf[c].item
    <2>1. "reading" \in Stages /\ 1 \in Positive
      BY DEF Stages, Positive
    <2> QED BY <1>2, <2>1
  <1> HIDE DEF cf
  <1>5. DOMAIN cf.doc = 1 .. Len(cf.doc) /\ Len(cf.doc) \in Nat
    BY <1>4, DocType
  <1>6. Noted(cf) \subseteq Noted(conf[c])
    <2>1. conf[c].entry \in Nat
      BY <1>2 DEF Positive
    <2> QED BY <1>1, <1>4, <1>5, <2>1 DEF Noted
  <1>7. keys[c] = {} /\ conf[c].item = 1
    BY <1>1 DEF ConfInv, KeysInv, Holds
  <1>8. Holds(cf, keys'[c])
    <2>1. \A i \in DOMAIN cf.doc : \A j \in DOMAIN cf.doc[i].items : ~KeyRead(cf, i, j)
      <3> SUFFICES ASSUME NEW i \in DOMAIN cf.doc, NEW j \in DOMAIN cf.doc[i].items
                   PROVE  ~KeyRead(cf, i, j)
        OBVIOUS
      <3>1. i \in Nat /\ i >= 1 /\ j \in Nat /\ j >= 1
        BY <1>4, DocType
      <3> QED BY <1>4, <1>7, <3>1 DEF KeyRead
    <2> QED BY <1>1, <1>4, <1>7, <2>1 DEF Holds
  <1>9. TypeInv' /\ ConfInv'
    BY <1>1, <1>2, <1>3, <1>4, <1>6, <1>8, MakingStep DEF TypeInv
  <1> QED BY <1>9

LEMMA BuiltKept ==
  ASSUME TypeInv, ConfInv, NEW c \in Confs, Built(c)
  PROVE  TypeInv' /\ ConfInv'
  <1> DEFINE cf == [conf[c] EXCEPT !.stage = "ready"]
  <1>1. /\ conf[c].stage = "reading" /\ conf[c].entry > Len(conf[c].doc)
        /\ UNCHANGED <<relation, keys, lookup>>
    BY DEF Built
  <1>2. conf[c] \in [stage : Stages, doc : Documents, entry : Positive, item : Positive]
    BY <1>1, MakingType
  <1>3. conf' = [conf EXCEPT ![c] = cf]
    BY <1>2 DEF Built, TypeInv
  <1>4. /\ cf \in [stage : Stages, doc : Documents, entry : Positive, item : Positive]
        /\ cf.doc = conf[c].doc /\ cf.stage = "ready"
        /\ cf.entry = conf[c].entry /\ cf.item = conf[c].item
    BY <1>2 DEF Stages
  <1> HIDE DEF cf
  <1>5. Noted(cf) \subseteq Noted(conf[c])
    BY <1>1, <1>4 DEF Noted
  <1>6. Holds(cf, keys[c])
    <2>1. Holds(conf[c], keys[c])
      BY DEF ConfInv, KeysInv
    <2> QED BY <1>1, <1>4, <2>1 DEF Holds, KeyRead
  <1>7. TypeInv' /\ ConfInv'
    BY <1>1, <1>2, <1>3, <1>4, <1>5, <1>6, MakingStep DEF TypeInv
  <1> QED BY <1>7

-----------------------------------------------------------------------------
(* The keys.                                                                  *)

\* Where the key of a client of a noted entry is looked for and kept.
LEMMA SlotIs ==
  ASSUME TypeInv, ConfInv, NEW c \in Confs, NEW i \in Noted(conf[c]), NEW client
  PROVE  LET e == conf[c].doc[i]
         IN  Slot(e.iss, client) = IF e.shape = "many" THEN client ELSE NoClient
  BY DEF ConfInv, RelationInv, Slot

\* Two items of a document have their keys in different places.
LEMMA SlotsApart ==
  ASSUME EachClientOnce, NEW doc \in Documents,
         NEW i \in DOMAIN doc, NEW j \in DOMAIN doc[i].items,
         NEW k \in DOMAIN doc, NEW l \in DOMAIN doc[k].items,
         doc[i].iss = doc[k].iss,
         SlotOf(doc[i], doc[i].items[j]) = SlotOf(doc[k], doc[k].items[l])
  PROVE  i = k /\ j = l
  <1>1. i = k
    BY DocumentsOK
  <1>2. CASE doc[i].shape = "one"
    <2>1. Len(doc[i].items) = 1 /\ DOMAIN doc[i].items = 1 .. Len(doc[i].items)
      BY <1>2, DocumentsOK, DocType
    <2> QED BY <1>1, <2>1
  <1>3. CASE doc[i].shape = "many"
    <2>1. doc[i].items[j].client = doc[i].items[l].client
      BY <1>1, <1>3 DEF SlotOf
    <2> QED BY <1>1, <2>1 DEF EachClientOnce
  <1> QED BY <1>1, <1>2, <1>3, DocType DEF Shapes

\* held has the keys of an item besides what it held before, and lost no other item's.
Adds(before, held, doc, i, j) ==
  /\ \A kind \in Given(doc[i].items[j]) : Pair(kind, doc[i], doc[i].items[j]) \in held
  /\ \A h \in held : h \in before \/ Is(h, doc[i], doc[i].items[j])
  /\ \A k \in DOMAIN doc : \A l \in DOMAIN doc[k].items :
       \A kind \in Given(doc[k].items[l]) :
         Pair(kind, doc[k], doc[k].items[l]) \in before
         => Pair(kind, doc[k], doc[k].items[l]) \in held
  /\ held \subseteq Held

LEMMA SetPair ==
  ASSUME EachClientOnce, TypeInv, ConfInv, NEW c \in Confs, conf[c].stage = "reading",
         NEW i \in DOMAIN conf[c].doc, NEW j \in DOMAIN conf[c].doc[i].items
  PROVE  LET e == conf[c].doc[i]
         IN  Adds(keys[c], SetKeys(keys[c], e.iss, SlotOf(e, e.items[j]), e.items[j]),
                  conf[c].doc, i, j)
  <1> DEFINE doc == conf[c].doc
             item == doc[i].items[j]
             held == SetKeys(keys[c], doc[i].iss, SlotOf(doc[i], item), item)
             slot == SlotOf(doc[i], item)
             read == {Pair(kind, doc[i], item) : kind \in Given(item)}
             others == {h \in keys[c] : \A k \in read :
                          ~(h.kind = k.kind /\ h.iss = k.iss /\ h.client = k.client)}
  <1>0. i \in DOMAIN doc /\ j \in DOMAIN doc[i].items
    OBVIOUS
  <1>1. doc \in Documents
    BY DEF TypeInv
  <1>2. Slot(doc[i].iss, slot) = slot
    <2>1. i \in Noted(conf[c])
      BY DEF Noted
    <2> QED BY <2>1, SlotIs DEF SlotOf
  <1>3. held = others \cup read
    <2>1. read = {[kind |-> "private", iss |-> doc[i].iss, client |-> slot, key |-> item.key]}
                   \cup {h \in {[kind |-> "public", iss |-> doc[i].iss, client |-> slot,
                                 key |-> item.public]} : item.public # NoKey}
      <3>1. /\ Pair("private", doc[i], item)
                 = [kind |-> "private", iss |-> doc[i].iss, client |-> slot, key |-> item.key]
            /\ Pair("public", doc[i], item)
                 = [kind |-> "public", iss |-> doc[i].iss, client |-> slot, key |-> item.public]
        BY DEF Pair, KeyOf
      <3>2. CASE item.public = NoKey
        <4>1. Given(item) = {"private"}
          BY <3>2 DEF Given
        <4> QED BY <3>1, <3>2, <4>1
      <3>3. CASE item.public # NoKey
        <4>1. Given(item) = {"private", "public"}
          BY <3>3 DEF Given
        <4> QED BY <3>1, <3>3, <4>1
      <3> QED BY <3>2, <3>3
    <2> HIDE DEF read, slot
    <2> QED BY <1>2, <2>1 DEF SetKeys, slot
  <1>4. ASSUME NEW k \in DOMAIN doc, NEW l \in DOMAIN doc[k].items,
               NEW kind \in Given(doc[k].items[l])
        PROVE  /\ Pair(kind, doc[k], doc[k].items[l]) \in Held
               /\ Pair(kind, doc[k], doc[k].items[l]).kind = kind
               /\ Pair(kind, doc[k], doc[k].items[l]).iss = doc[k].iss
               /\ Pair(kind, doc[k], doc[k].items[l]).client = SlotOf(doc[k], doc[k].items[l])
    <2>1. /\ doc[k].iss \in Issuers /\ doc[k].items[l].key \in Keys \cup {NoKey}
          /\ doc[k].items[l].public \in Keys \cup {NoKey}
          /\ doc[k].items[l].client \in Clients
      BY <1>1, DocType
    <2>2. SlotOf(doc[k], doc[k].items[l]) \in Clients \cup {NoClient}
      BY <2>1 DEF SlotOf
    <2>3. kind \in {"private", "public"}
      BY DEF Given
    <2>4. KeyOf(kind, doc[k].items[l]) \in Keys \cup {NoKey}
      BY <2>1 DEF KeyOf
    <2> QED BY <2>1, <2>2, <2>3, <2>4 DEF Pair, Held
  <1>5. keys[c] \subseteq Held
    BY DEF TypeInv
  <1> HIDE DEF slot, doc, held, item
  <1>6. ASSUME NEW k \in DOMAIN doc, NEW l \in DOMAIN doc[k].items,
               NEW kind \in Given(doc[k].items[l]),
               Pair(kind, doc[k], doc[k].items[l]) \in keys[c]
        PROVE  Pair(kind, doc[k], doc[k].items[l]) \in held
    <2>1. CASE doc[k].iss = doc[i].iss /\ SlotOf(doc[k], doc[k].items[l]) = slot
      <3>1. k = i /\ l = j
        BY <1>0, <1>1, <2>1, SlotsApart DEF slot, item
      <3> QED BY <1>3, <3>1 DEF item
    <2>2. CASE ~(doc[k].iss = doc[i].iss /\ SlotOf(doc[k], doc[k].items[l]) = slot)
      <3> DEFINE h == Pair(kind, doc[k], doc[k].items[l])
      <3>1. \A r \in read : r.iss = doc[i].iss /\ r.client = slot
        BY <1>0, <1>4 DEF slot, item
      <3>2. h.iss = doc[k].iss /\ h.client = SlotOf(doc[k], doc[k].items[l])
        BY <1>4
      <3>3. h \in keys[c]
        BY <1>6
      <3> HIDE DEF h, read
      <3>4. \A r \in read : ~(h.kind = r.kind /\ h.iss = r.iss /\ h.client = r.client)
        BY <2>2, <3>1, <3>2
      <3>5. h \in others
        BY <3>3, <3>4
      <3> QED BY <1>3, <3>5 DEF h
    <2> QED BY <2>1, <2>2
  <1>7. \A h \in held : h \in keys[c] \/ Is(h, doc[i], doc[i].items[j])
    <2> SUFFICES ASSUME NEW h \in read PROVE Is(h, doc[i], doc[i].items[j])
      BY <1>3
    <2>1. PICK kind \in Given(item) : h = Pair(kind, doc[i], item)
      OBVIOUS
    <2>2. h.kind = kind
      BY <1>0, <1>4, <2>1 DEF item
    <2> QED BY <2>1, <2>2 DEF Is, item
  <1>8. \A kind \in Given(doc[i].items[j]) : Pair(kind, doc[i], doc[i].items[j]) \in held
    BY <1>0, <1>3 DEF item
  <1>9. held \subseteq Held
    <2>1. read \subseteq Held
      BY <1>0, <1>4 DEF item
    <2> HIDE DEF read
    <2> QED BY <1>3, <1>5, <2>1
  <1>10. Adds(keys[c], held, doc, i, j)
    BY <1>6, <1>7, <1>8, <1>9 DEF Adds
  <1> QED BY <1>10 DEF held, doc, item

LEMMA ReadKept ==
  ASSUME EachClientOnce, TypeInv, ConfInv, NEW c \in Confs, ReadKeys(c)
  PROVE  TypeInv' /\ ConfInv'
  <1> DEFINE doc == conf[c].doc
             n == conf[c].entry
             j == conf[c].item
             e == doc[n]
             read == SetKeys(keys[c], e.iss, SlotOf(e, e.items[j]), e.items[j])
             past == [conf[c] EXCEPT !.entry = n + 1, !.item = 1]
             after == [conf[c] EXCEPT !.item = j + 1]
             rejected == [conf[c] EXCEPT !.stage = "rejected"]
  <1>1. conf[c].stage = "reading" /\ n <= Len(doc) /\ UNCHANGED <<relation, lookup>>
    BY DEF ReadKeys
  <1>2. conf[c] \in [stage : Stages, doc : Documents, entry : Positive, item : Positive]
    BY <1>1, MakingType
  <1>3. doc \in Documents /\ n \in DOMAIN doc /\ j \in Positive
    <2>1. doc \in Documents /\ n \in Positive /\ j \in Positive
      BY <1>2
    <2> QED BY <1>1, <2>1, DocType DEF Positive
  <1>4. \/ j > Len(e.items) /\ conf' = [conf EXCEPT ![c] = past] /\ UNCHANGED keys
        \/ conf' = [conf EXCEPT ![c] = rejected] /\ UNCHANGED keys
        \/ /\ j <= Len(e.items) /\ conf' = [conf EXCEPT ![c] = after]
           /\ keys' = [keys EXCEPT ![c] = read]
    <2>1. CASE j > Len(e.items)
      BY <2>1 DEF ReadKeys, TypeInv
    <2>2. CASE ~(j > Len(e.items)) /\ Unreadable(e.iss, SlotOf(e, e.items[j]), e.items[j])
      BY <2>2 DEF ReadKeys, TypeInv, SlotOf
    <2>3. CASE ~(j > Len(e.items)) /\ ~Unreadable(e.iss, SlotOf(e, e.items[j]), e.items[j])
      <3>1. j <= Len(e.items)
        <4>1. doc[n].items \in Seq(Items) /\ Len(doc[n].items) \in Nat
          BY <1>3, DocType
        <4>2. j \in Nat
          BY <1>3 DEF Positive
        <4> QED BY <2>3, <4>1, <4>2
      <3>2. conf' = [conf EXCEPT ![c] = after]
        BY <2>3 DEF ReadKeys, TypeInv, SlotOf
      <3>3. keys' = [keys EXCEPT ![c] = read]
        BY <2>3 DEF ReadKeys, TypeInv, SlotOf
      <3> QED BY <3>1, <3>2, <3>3
    <2> QED BY <2>1, <2>2, <2>3
  <1>5. Holds(conf[c], keys[c])
    BY DEF ConfInv, KeysInv
  <1>6. /\ n \in Nat /\ DOMAIN doc = 1 .. Len(doc) /\ Len(doc) \in Nat /\ j \in Nat /\ j >= 1
        /\ DOMAIN e.items = 1 .. Len(e.items) /\ Len(e.items) \in Nat
        /\ \A i \in DOMAIN doc : DOMAIN doc[i].items = 1 .. Len(doc[i].items)
    <2>1. doc \in Documents /\ n \in DOMAIN doc /\ j \in Positive
      BY <1>3
    <2>2. DOMAIN doc = 1 .. Len(doc) /\ Len(doc) \in Nat
      BY <2>1, DocType
    <2>3. \A i \in DOMAIN doc : /\ DOMAIN doc[i].items = 1 .. Len(doc[i].items)
                               /\ Len(doc[i].items) \in Nat
      BY <2>1, DocType
    <2>4. n \in Nat
      BY <2>1, <2>2
    <2>5. j \in Nat /\ j >= 1
      BY <2>1 DEF Positive
    <2> QED BY <2>1, <2>2, <2>3, <2>4, <2>5
  <1>7. ASSUME NEW cf \in {past, rejected, after}
        PROVE  /\ cf \in [stage : Stages, doc : Documents, entry : Positive, item : Positive]
               /\ cf.doc = doc /\ Noted(cf) \subseteq Noted(conf[c])
    <2>1. "rejected" \in Stages /\ 1 \in Positive /\ n + 1 \in Positive /\ j + 1 \in Positive
      BY <1>6 DEF Stages, Positive
    <2>2. /\ past \in [stage : Stages, doc : Documents, entry : Positive, item : Positive]
          /\ rejected \in [stage : Stages, doc : Documents, entry : Positive, item : Positive]
          /\ after \in [stage : Stages, doc : Documents, entry : Positive, item : Positive]
      BY <1>2, <2>1
    <2>3. past.doc = doc /\ rejected.doc = doc /\ after.doc = doc
      BY <1>2
    <2>4. Noted(conf[c]) = DOMAIN doc
      BY <1>1 DEF Noted
    <2> QED BY <2>2, <2>3, <2>4 DEF Noted
  <1>8. /\ past.stage = "reading" /\ past.entry = n + 1 /\ past.item = 1 /\ past.doc = doc
        /\ rejected.stage = "rejected"
        /\ after.stage = "reading" /\ after.entry = n /\ after.item = j + 1 /\ after.doc = doc
    BY <1>1, <1>2
  <1> HIDE DEF doc, n, j, read, past, rejected, after
  <1>9. CASE j > Len(e.items) /\ conf' = [conf EXCEPT ![c] = past] /\ UNCHANGED keys
    <2>1. \A i \in DOMAIN doc : \A l \in DOMAIN doc[i].items :
            KeyRead(past, i, l) => KeyRead(conf[c], i, l)
      BY <1>6, <1>8, <1>9 DEF KeyRead, n, j
    <2>2. Holds(past, keys[c])
      BY <1>1, <1>5, <1>8, <2>1 DEF Holds, doc
    <2>3. past.doc = conf[c].doc /\ keys' = keys
      BY <1>8, <1>9 DEF doc
    <2> QED BY <1>1, <1>7, <1>9, <2>2, <2>3, MakingStep DEF TypeInv
  <1>10. CASE conf' = [conf EXCEPT ![c] = rejected] /\ UNCHANGED keys
    <2>1. Holds(rejected, keys[c])
      BY <1>8 DEF Holds
    <2>2. rejected.doc = conf[c].doc /\ keys' = keys
      BY <1>7, <1>10 DEF doc
    <2> QED BY <1>1, <1>7, <1>10, <2>1, <2>2, MakingStep DEF TypeInv
  <1>11. CASE /\ j <= Len(e.items) /\ conf' = [conf EXCEPT ![c] = after]
              /\ keys' = [keys EXCEPT ![c] = read]
    <2>1. j \in DOMAIN doc[n].items
      BY <1>6, <1>11
    <2>2. Adds(keys[c], read, doc, n, j)
      BY <1>1, <1>3, <2>1, SetPair DEF doc, read
    <2>3. \A i \in DOMAIN doc : \A l \in DOMAIN doc[i].items :
            KeyRead(after, i, l) => KeyRead(conf[c], i, l) \/ (i = n /\ l = j)
      BY <1>6, <1>8 DEF KeyRead, n, j
    <2>4. /\ \A i \in DOMAIN doc : \A l \in DOMAIN doc[i].items : KeyRead(conf[c], i, l) =>
               \A kind \in Given(doc[i].items[l]) : Pair(kind, doc[i], doc[i].items[l]) \in keys[c]
          /\ \A h \in keys[c] : \E i \in DOMAIN doc : \E l \in DOMAIN doc[i].items :
               Is(h, doc[i], doc[i].items[l])
      BY <1>1, <1>5 DEF Holds, doc
    <2>5. \A i \in DOMAIN doc : \A l \in DOMAIN doc[i].items : KeyRead(after, i, l) =>
            \A kind \in Given(doc[i].items[l]) : Pair(kind, doc[i], doc[i].items[l]) \in read
      BY <2>2, <2>3, <2>4 DEF Adds
    <2>6. \A h \in read : \E i \in DOMAIN doc : \E l \in DOMAIN doc[i].items :
            Is(h, doc[i], doc[i].items[l])
      BY <1>3, <2>1, <2>2, <2>4 DEF Adds
    <2>7. Holds(after, read)
      BY <1>8, <2>5, <2>6 DEF Holds
    <2>8. /\ keys' \in [Confs -> SUBSET Held] /\ keys'[c] = read
          /\ \A d \in Confs \ {c} : keys'[d] = keys[d]
      BY <1>11, <2>2 DEF TypeInv, Adds
    <2>9. after.doc = conf[c].doc
      BY <1>8 DEF doc
    <2> QED BY <1>1, <1>7, <1>11, <2>7, <2>8, <2>9, MakingStep
  <1> QED BY <1>4, <1>9, <1>10, <1>11

\* A configuration that is ready finds the key of each of its clients.
LEMMA GetKeyIs ==
  ASSUME EachClientOnce, TypeInv, ConfInv, NEW c \in Confs, conf[c].stage = "ready",
         NEW doc, doc = conf[c].doc, NEW i \in DOMAIN doc, NEW j \in DOMAIN doc[i].items
  PROVE  GetKey(c, doc[i].iss, doc[i].items[j].client) = doc[i].items[j].key
  <1> DEFINE item == doc[i].items[j]
             slot == SlotOf(doc[i], item)
             found == {h \in keys[c] : h.kind = "private" /\ h.iss = doc[i].iss /\ h.client = slot}
  <1>1. doc \in Documents /\ Holds(conf[c], keys[c])
    BY DEF TypeInv, ConfInv, KeysInv
  <1>2. Slot(doc[i].iss, item.client) = slot
    <2>1. i \in Noted(conf[c])
      BY DEF Noted
    <2> QED BY <2>1, SlotIs DEF SlotOf
  <1>3. KeyRead(conf[c], i, j)
    <2>1. conf[c].entry > Len(doc) /\ conf[c].entry \in Nat
      BY <1>1 DEF Holds, TypeInv, Positive
    <2> QED BY <1>1, <2>1, DocType DEF KeyRead
  <1>4. Pair("private", doc[i], item) \in found
    <2>1. Pair("private", doc[i], item) \in keys[c]
      BY <1>1, <1>3 DEF Holds, Given
    <2> QED BY <2>1 DEF Pair
  <1>5. ASSUME NEW h \in found PROVE h.key = item.key
    <2>0. PICK k \in DOMAIN doc : \E l \in DOMAIN doc[k].items :
                 Is(h, doc[k], doc[k].items[l])
      BY <1>1 DEF Holds
    <2>1. PICK l \in DOMAIN doc[k].items : Is(h, doc[k], doc[k].items[l])
      BY <2>0
    <2>2. h.iss = doc[k].iss /\ h.client = SlotOf(doc[k], doc[k].items[l])
          /\ h.key = doc[k].items[l].key
      BY <2>1 DEF Is, Pair, KeyOf
    <2>3. k = i /\ l = j
      BY <1>1, <2>2, SlotsApart
    <2> QED BY <2>2, <2>3
  <1>6. GetKey(c, doc[i].iss, item.client) = IF found = {} THEN NoKey ELSE (CHOOSE h \in found : TRUE).key
    BY <1>2 DEF GetKey
  <1> HIDE DEF found
  <1> QED BY <1>4, <1>5, <1>6

-----------------------------------------------------------------------------
(* The lookups.                                                               *)

\* As each client comes once, a list of one item is a set of one.
LEMMA OneItem ==
  ASSUME EachClientOnce, NEW doc \in Documents, NEW i \in DOMAIN doc
  PROVE  Cardinality(ToSet(doc[i].items)) = 1 <=> Len(doc[i].items) = 1
  <1> DEFINE items == doc[i].items
  <1>1. DOMAIN items = 1 .. Len(items) /\ Len(items) \in Nat
    BY DocType
  <1>2. \A j, k \in DOMAIN items : items[j] = items[k] => j = k
    BY DEF EachClientOnce
  <1> HIDE DEF items
  <1>3. ToSet(items) = {items[j] : j \in DOMAIN items}
    BY DEF ToSet
  <1>4. items \in [DOMAIN items -> ToSet(items)]
    <2>1. items \in Seq(Items)
      BY DocType DEF items
    <2> QED BY <1>3, <2>1
  <1>5. items \in Surjection(DOMAIN items, ToSet(items)) /\ items \in Injection(DOMAIN items, ToSet(items))
    BY <1>2, <1>3, <1>4 DEF Surjection, Injection, IsInjective
  <1>6. IsFiniteSet(DOMAIN items) /\ Cardinality(DOMAIN items) = Len(items)
    BY <1>1, FS_Interval
  <1>7. Cardinality(ToSet(items)) = Cardinality(DOMAIN items)
    BY <1>5, <1>6, FS_Surjection
  <1> QED BY <1>6, <1>7 DEF items

\* The issuer of a lookup is in the document, and is looked up as its entry demands, or
\* nothing is found.
LEMMA FoundBy ==
  ASSUME TypeInv, ConfInv, NEW c \in Confs, conf[c].stage = "ready"
  PROVE  LET doc == conf[c].doc r == lookup[c] IN
         \/ \E i \in DOMAIN doc :
              /\ doc[i].iss = r.iss
              /\ Found(c) = GetIssConfig(doc, doc[i].iss, Asked(doc[i], r.client))
              /\ ItemsOf(doc, r.iss) = doc[i].items
         \/ ItemsOf(doc, r.iss) = <<>> /\ Found(c) = NoItem
  <1> DEFINE doc == conf[c].doc
             r == lookup[c]
  <1>1. doc \in Documents
    BY DEF TypeInv
  <1>2. CASE \E i \in DOMAIN doc : doc[i].iss = r.iss
    <2>1. PICK i \in DOMAIN doc : doc[i].iss = r.iss
      BY <1>2
    <2>2. relation[r.iss] = doc[i].shape
      BY <2>1 DEF ConfInv, RelationInv, Noted
    <2>3. Found(c) = GetIssConfig(doc, doc[i].iss, Asked(doc[i], r.client))
      BY <2>1, <2>2 DEF Found, Asked
    <2>4. ItemsOf(doc, r.iss) = doc[i].items
      BY <1>1, <2>1, EntryFound
    <2> QED BY <2>1, <2>3, <2>4
  <1>3. CASE ~ \E i \in DOMAIN doc : doc[i].iss = r.iss
    <2>1. ItemsOf(doc, r.iss) = <<>>
      BY <1>1, <1>3, NoEntryFound
    <2>2. \A client : GetIssConfig(doc, r.iss, client) = NoItem
      BY <2>1 DEF GetIssConfig, FirstOf
    <2> QED BY <2>1, <2>2 DEF Found
  <1> QED BY <1>2, <1>3

\* A launch finds its client's item, with its key, exactly if the document has one.
LEMMA LaunchFinds ==
  ASSUME EachClientOnce, TypeInv, ConfInv, NEW c \in Confs, conf[c].stage = "ready",
         lookup[c].client \in Clients
  PROVE  LET own == OwnItems(conf[c].doc, lookup[c]) IN
         /\ \A item \in own : /\ Found(c) = item /\ item # NoItem
                              /\ GetKey(c, lookup[c].iss, item.client) = item.key
         /\ Found(c) # NoItem /\ Found(c).client = lookup[c].client => Found(c) \in own
  <1> DEFINE doc == conf[c].doc
             r == lookup[c]
             own == OwnItems(doc, r)
  <1>1. doc \in Documents
    BY DEF TypeInv
  <1>2. CASE ItemsOf(doc, r.iss) = <<>> /\ Found(c) = NoItem
    BY <1>2 DEF OwnItems, ToSet
  <1>3. ASSUME NEW i \in DOMAIN doc, doc[i].iss = r.iss,
               Found(c) = GetIssConfig(doc, doc[i].iss, Asked(doc[i], r.client)),
               ItemsOf(doc, r.iss) = doc[i].items
        PROVE  /\ \A item \in own : /\ Found(c) = item /\ item # NoItem
                                    /\ GetKey(c, r.iss, item.client) = item.key
               /\ Found(c) # NoItem /\ Found(c).client = r.client => Found(c) \in own
    <2>1. ASSUME NEW item \in own
          PROVE  /\ Found(c) = item /\ item # NoItem
                 /\ GetKey(c, r.iss, item.client) = item.key
      <3>1. PICK j \in DOMAIN doc[i].items : item = doc[i].items[j] /\ item.client = r.client
        BY <1>3 DEF OwnItems, ToSet
      <3>2. Found(c) = item
        BY <1>1, <1>3, <3>1, ClientsItem
      <3>3. item # NoItem
        BY <1>1, <3>1, DocType
      <3>4. GetKey(c, r.iss, item.client) = item.key
        BY <1>3, <3>1, GetKeyIs
      <3> QED BY <3>2, <3>3, <3>4
    <2>2. ASSUME Found(c) # NoItem, Found(c).client = r.client
          PROVE  Found(c) \in own
      <3>1. \E j \in DOMAIN doc[i].items : Found(c) = doc[i].items[j]
        BY <1>1, <1>3, <2>2, FoundItem
      <3> QED BY <1>3, <2>2, <3>1 DEF OwnItems, ToSet
    <2> QED BY <2>1, <2>2
  <1> QED BY <1>2, <1>3, FoundBy

\* A login without a client finds the default client's item or the only one, with its
\* key, if the document has one.
LEMMA LoginFinds ==
  ASSUME EachClientOnce, TypeInv, ConfInv, NEW c \in Confs, conf[c].stage = "ready",
         lookup[c].client = NoClient
  PROVE  LET usual == UsualItems(conf[c].doc, lookup[c].iss) IN
         /\ Found(c) = NoItem => usual = {}
         /\ Found(c) # NoItem =>
              Found(c) \in usual /\ GetKey(c, lookup[c].iss, Found(c).client) = Found(c).key
  <1> DEFINE doc == conf[c].doc
             r == lookup[c]
             usual == UsualItems(doc, r.iss)
  <1>1. doc \in Documents
    BY DEF TypeInv
  <1>2. CASE ItemsOf(doc, r.iss) = <<>> /\ Found(c) = NoItem
    BY <1>2 DEF UsualItems, ToSet
  <1>3. ASSUME NEW i \in DOMAIN doc, doc[i].iss = r.iss,
               Found(c) = GetIssConfig(doc, doc[i].iss, Asked(doc[i], r.client)),
               ItemsOf(doc, r.iss) = doc[i].items
        PROVE  /\ Found(c) = NoItem => usual = {}
               /\ Found(c) # NoItem =>
                    Found(c) \in usual /\ GetKey(c, r.iss, Found(c).client) = Found(c).key
    <2>1. usual = {item \in ToSet(doc[i].items) : item.default \/ Len(doc[i].items) = 1}
      <3>1. Cardinality(ToSet(doc[i].items)) = 1 <=> Len(doc[i].items) = 1
        BY <1>1, OneItem
      <3> QED BY <1>3, <3>1 DEF UsualItems
    <2>2. ToSet(doc[i].items) = {doc[i].items[j] : j \in DOMAIN doc[i].items}
      BY DEF ToSet
    <2>3. \/ /\ Found(c) = NoItem
             /\ \A j \in DOMAIN doc[i].items : ~(doc[i].items[j].default \/ Len(doc[i].items) = 1)
          \/ \E j \in DOMAIN doc[i].items :
               /\ Found(c) = doc[i].items[j]
               /\ doc[i].items[j].default \/ Len(doc[i].items) = 1
      <3> DEFINE found == GetIssConfig(doc, doc[i].iss, Asked(doc[i], r.client))
      <3>1. r.client = NoClient /\ found = Found(c)
        BY <1>3
      <3>2. \/ /\ found = NoItem
               /\ r.client = NoClient =>
                    \A j \in DOMAIN doc[i].items :
                      ~(doc[i].items[j].default \/ Len(doc[i].items) = 1)
            \/ \E j \in DOMAIN doc[i].items :
                 /\ found = doc[i].items[j]
                 /\ r.client = NoClient => doc[i].items[j].default \/ Len(doc[i].items) = 1
        <4> HIDE DEF doc, r
        <4>1. r.client \in Clients \cup {NoClient}
          BY <3>1
        <4> QED BY <1>1, <1>3, <4>1, FoundItem
      <3> HIDE DEF found, doc, r
      <3> QED BY <3>1, <3>2
    <2>4. CASE /\ Found(c) = NoItem
               /\ \A j \in DOMAIN doc[i].items :
                    ~(doc[i].items[j].default \/ Len(doc[i].items) = 1)
      BY <2>1, <2>2, <2>4
    <2>5. ASSUME NEW j \in DOMAIN doc[i].items, Found(c) = doc[i].items[j],
                 doc[i].items[j].default \/ Len(doc[i].items) = 1
          PROVE  /\ Found(c) # NoItem /\ Found(c) \in usual
                 /\ GetKey(c, r.iss, Found(c).client) = Found(c).key
      <3>1. Found(c) # NoItem
        BY <1>1, <2>5, DocType
      <3>2. GetKey(c, r.iss, Found(c).client) = Found(c).key
        BY <1>3, <2>5, GetKeyIs
      <3> QED BY <2>1, <2>2, <2>5, <3>1, <3>2
    <2> QED BY <2>3, <2>4, <2>5
  <1> QED BY <1>2, <1>3, FoundBy

LEMMA GetKeyType ==
  ASSUME TypeInv, NEW c \in Confs, NEW iss, NEW client
  PROVE  GetKey(c, iss, client) \in Keys \cup {NoKey}
  <1>1. keys[c] \subseteq Held
    BY DEF TypeInv
  <1> QED BY <1>1 DEF GetKey, Held

\* A step of the lookup of c, to request r.
LEMMA LookupStep ==
  ASSUME TypeInv, ConfInv, NEW c \in Confs, NEW r \in Requests,
         UNCHANGED <<relation, conf, keys>>, lookup' = [lookup EXCEPT ![c] = r],
         \/ r.pc = "idle"
         \/ /\ conf[c].stage = "ready" /\ r.iss \in Issuers /\ r.client \in Clients \cup {NoClient}
            /\ Judged(conf[c].doc, r)
  PROVE  TypeInv' /\ ConfInv'
  <1>1. TypeInv'
    BY DEF TypeInv
  <1>2. RelationInv' /\ KeysInv'
    BY DEF ConfInv, RelationInv, KeysInv
  <1>3. LookupInv'
    <2> SUFFICES ASSUME NEW d \in Confs, lookup'[d].pc # "idle"
                 PROVE  /\ conf'[d].stage = "ready"
                        /\ lookup'[d].iss \in Issuers /\ lookup'[d].client \in Clients \cup {NoClient}
                        /\ Judged(conf'[d].doc, lookup'[d])
      BY DEF LookupInv
    <2>1. CASE d = c
      <3>1. lookup'[c] = r
        BY DEF TypeInv
      <3> QED BY <2>1, <3>1
    <2>2. CASE d # c
      <3>1. lookup'[d] = lookup[d]
        BY <2>2 DEF TypeInv
      <3> QED BY <3>1 DEF ConfInv, LookupInv
    <2> QED BY <2>1, <2>2
  <1> QED BY <1>1, <1>2, <1>3 DEF ConfInv

LEMMA AskKept ==
  ASSUME TypeInv, ConfInv, NEW c \in Confs, NEW iss \in Issuers,
         NEW client \in Clients \cup {NoClient}, NEW dep \in Deployments, Ask(c, iss, client, dep)
  PROVE  TypeInv' /\ ConfInv'
  <1> DEFINE r == [pc |-> "asked", iss |-> iss, client |-> client, dep |-> dep, key |-> NoKey]
  <1>1. Judged(conf[c].doc, r)
    BY DEF Judged
  <1>2. r \in Requests /\ r.iss \in Issuers /\ r.client \in Clients \cup {NoClient}
    BY NamesOK DEF Requests
  <1>3. /\ UNCHANGED <<relation, conf, keys>> /\ conf[c].stage = "ready"
        /\ lookup' = [lookup EXCEPT ![c] = r]
    BY DEF Ask
  <1> HIDE DEF r
  <1> QED BY <1>1, <1>2, <1>3, LookupStep

LEMMA AnswerKept ==
  ASSUME TypeInv, ConfInv, NEW c \in Confs, Answer(c)
  PROVE  TypeInv' /\ ConfInv'
  <1>1. Idle.pc = "idle" /\ Idle \in Requests
    BY DEF Idle, Requests
  <1> QED BY <1>1, LookupStep DEF Answer

\* A request that is under way.
LEMMA UnderWay ==
  ASSUME TypeInv, ConfInv, NEW c \in Confs, lookup[c].pc # "idle"
  PROVE  /\ lookup[c] \in Requests /\ conf[c].stage = "ready"
         /\ lookup[c].iss \in Issuers /\ lookup[c].client \in Clients \cup {NoClient}
         /\ Judged(conf[c].doc, lookup[c])
  BY DEF TypeInv, ConfInv, LookupInv

LEMMA RegistrationKept ==
  ASSUME EachClientOnce, TypeInv, ConfInv, NEW c \in Confs, Registration(c)
  PROVE  TypeInv' /\ ConfInv'
  <1> DEFINE doc == conf[c].doc
             r == lookup[c]
             own == OwnItems(doc, r)
             s == IF Found(c) = NoItem \/ Found(c).client # r.client
                  THEN [r EXCEPT !.pc = "refused"]
                  ELSE [r EXCEPT !.pc = "found", !.key = GetKey(c, r.iss, Found(c).client)]
  <1>1. /\ r \in Requests /\ r.client \in Clients /\ conf[c].stage = "ready" /\ r.iss \in Issuers
        /\ r.client # NoClient /\ UNCHANGED <<relation, conf, keys>>
        /\ lookup' = [lookup EXCEPT ![c] = s]
    BY UnderWay DEF Registration
  <1>2. /\ \A item \in own : /\ Found(c) = item /\ item # NoItem
                             /\ GetKey(c, r.iss, item.client) = item.key
        /\ Found(c) # NoItem /\ Found(c).client = r.client => Found(c) \in own
    BY <1>1, LaunchFinds
  <1>3. GetKey(c, r.iss, Found(c).client) \in Keys \cup {NoKey}
    BY GetKeyType
  <1>4. s \in Requests /\ s.iss = r.iss /\ s.client = r.client
    BY <1>1, <1>3 DEF Requests
  <1>5. OwnItems(doc, s) = own /\ UsualItems(doc, s.iss) = UsualItems(doc, r.iss)
    BY <1>4 DEF OwnItems
  <1>6. \/ s.pc = "refused" /\ own = {}
        \/ s.pc = "found" /\ \E item \in own : s.key = item.key
    <2>1. CASE Found(c) = NoItem \/ Found(c).client # r.client
      BY <1>1, <1>2, <2>1 DEF OwnItems, Requests
    <2>2. CASE ~(Found(c) = NoItem \/ Found(c).client # r.client)
      <3>1. s.pc = "found" /\ s.key = GetKey(c, r.iss, Found(c).client)
        BY <1>1, <2>2 DEF Requests
      <3> QED BY <1>2, <2>2, <3>1
    <2> QED BY <2>1, <2>2
  <1> HIDE DEF s, own
  <1>7. Judged(doc, s)
    BY <1>1, <1>4, <1>5, <1>6 DEF Judged
  <1> QED BY <1>1, <1>4, <1>7, LookupStep

LEMMA DeploymentKept ==
  ASSUME EachClientOnce, TypeInv, ConfInv, NEW c \in Confs, Deployment(c)
  PROVE  TypeInv' /\ ConfInv'
  <1> DEFINE doc == conf[c].doc
             r == lookup[c]
             own == OwnItems(doc, r)
             s == [r EXCEPT !.pc = IF Found(c) # NoItem /\ r.dep \in Found(c).deployments
                                   THEN "accepted" ELSE "refused"]
  <1>1. /\ r \in Requests /\ r.pc = "found" /\ conf[c].stage = "ready" /\ r.iss \in Issuers
        /\ r.client \in Clients \cup {NoClient} /\ UNCHANGED <<relation, conf, keys>>
        /\ Judged(doc, r)
    BY UnderWay DEF Deployment
  <1>2. lookup' = [lookup EXCEPT ![c] = s]
    BY <1>1 DEF Deployment, TypeInv
  <1>3. r.client # NoClient /\ \E item \in own : r.key = item.key
    BY <1>1 DEF Judged
  <1>4. \A item \in own : Found(c) = item /\ item # NoItem
    BY <1>1, <1>3, LaunchFinds
  <1>5. s \in Requests /\ s.iss = r.iss /\ s.client = r.client /\ s.key = r.key /\ s.dep = r.dep
    BY <1>1 DEF Requests
  <1>6. OwnItems(doc, s) = own
    BY <1>5 DEF OwnItems
  <1>7. \/ s.pc = "accepted" /\ r.dep \in Found(c).deployments
        \/ s.pc = "refused" /\ (Found(c) = NoItem \/ r.dep \notin Found(c).deployments)
    BY <1>1 DEF Requests
  <1> HIDE DEF s, own
  <1>8. Judged(doc, s)
    BY <1>3, <1>4, <1>5, <1>6, <1>7 DEF Judged
  <1> QED BY <1>1, <1>2, <1>5, <1>8, LookupStep

LEMMA LoginKept ==
  ASSUME EachClientOnce, TypeInv, ConfInv, NEW c \in Confs, Login(c)
  PROVE  TypeInv' /\ ConfInv'
  <1> DEFINE doc == conf[c].doc
             r == lookup[c]
             usual == UsualItems(doc, r.iss)
             s == IF Found(c) = NoItem THEN [r EXCEPT !.pc = "refused"]
                  ELSE [r EXCEPT !.pc = "redirected", !.client = Found(c).client,
                                 !.key = GetKey(c, r.iss, Found(c).client)]
  <1>1. /\ r \in Requests /\ r.client = NoClient /\ conf[c].stage = "ready" /\ r.iss \in Issuers
        /\ UNCHANGED <<relation, conf, keys>> /\ lookup' = [lookup EXCEPT ![c] = s]
    BY UnderWay DEF Login
  <1>2. /\ Found(c) = NoItem => usual = {}
        /\ Found(c) # NoItem =>
             Found(c) \in usual /\ GetKey(c, r.iss, Found(c).client) = Found(c).key
    BY <1>1, LoginFinds
  <1>3. Found(c) # NoItem => Found(c).client \in Clients
    <2>1. doc \in Documents
      BY <1>1 DEF TypeInv
    <2>2. \/ \E i \in DOMAIN doc : ItemsOf(doc, r.iss) = doc[i].items
          \/ Found(c) = NoItem
      BY <1>1, FoundBy
    <2> QED BY <1>2, <2>1, <2>2, DocType DEF UsualItems, ToSet
  <1>4. s \in Requests /\ s.iss = r.iss /\ s.client \in Clients \cup {NoClient}
    BY <1>1, <1>3, GetKeyType DEF Requests
  <1>5. CASE Found(c) = NoItem
    <2>1. s.pc = "refused" /\ s.client = NoClient /\ UsualItems(doc, s.iss) = {}
      BY <1>1, <1>2, <1>4, <1>5 DEF Requests
    <2> HIDE DEF s
    <2>2. Judged(doc, s)
      BY <2>1 DEF Judged
    <2> QED BY <1>1, <1>4, <2>2, LookupStep
  <1>6. CASE Found(c) # NoItem
    <2>1. /\ s.pc = "redirected" /\ s.client = Found(c).client
          /\ s.key = GetKey(c, r.iss, Found(c).client)
      BY <1>1, <1>6 DEF Requests
    <2>2. Found(c) \in UsualItems(doc, s.iss) /\ s.key = Found(c).key
      BY <1>2, <1>4, <1>6, <2>1
    <2> HIDE DEF s
    <2>3. Judged(doc, s)
      BY <2>1, <2>2 DEF Judged
    <2> QED BY <1>1, <1>4, <2>3, LookupStep
  <1> QED BY <1>5, <1>6

LEMMA NextConf ==
  ASSUME Agree, EachClientOnce, TypeInv, ConfInv, [Next]_vars
  PROVE  TypeInv' /\ ConfInv'
  <1>1. CASE UNCHANGED vars
    BY <1>1 DEF vars, TypeInv, ConfInv, RelationInv, KeysInv, LookupInv
  <1>2. CASE Next
    <2>1. PICK c \in Confs :
            \/ \E doc \in Documents : Build(c, doc)
            \/ ValidateEntry(c) \/ Validated(c) \/ ReadKeys(c) \/ Built(c)
            \/ \E iss \in Issuers, client \in Clients \cup {NoClient}, dep \in Deployments :
                 Ask(c, iss, client, dep)
            \/ Registration(c) \/ Deployment(c) \/ Login(c) \/ Answer(c)
      BY <1>2 DEF Next
    <2> QED BY <2>1, BuildKept, ValidateKept, ValidatedKept, ReadKept, BuiltKept, AskKept,
               RegistrationKept, DeploymentKept, LoginKept, AnswerKept
  <1> QED BY <1>1, <1>2

LEMMA ConfAlways ==
  ASSUME Agree, EachClientOnce
  PROVE  Spec => [](TypeInv /\ ConfInv)
  <1>1. TypeInv /\ ConfInv /\ [Next]_vars => (TypeInv /\ ConfInv)'
    BY NextConf
  <1> QED BY <1>1, InitConf, PTL DEF Spec

-----------------------------------------------------------------------------
\* A launch is accepted exactly for the clients and deployments of the document its
\* configuration object was built from, with the client's own key, whatever other objects
\* are built meanwhile: as long as the documents agree on how many clients an issuer has,
\* which set_iss_has_one_client keeps for all objects, and list each client once.
THEOREM LaunchFollows ==
  ASSUME Agree, EachClientOnce
  PROVE  Spec => []LaunchFollowsDocument
  <1>1. TypeInv /\ ConfInv => LaunchFollowsDocument
    <2> SUFFICES ASSUME TypeInv, ConfInv, NEW c \in Confs
                 PROVE  LET r == lookup[c]
                            granted == \E item \in Own(c) : r.dep \in item.deployments
                        IN  /\ r.pc = "accepted" => \E item \in Own(c) : r.dep \in item.deployments
                                                                         /\ r.key = item.key
                            /\ r.pc = "refused" /\ r.client # NoClient => ~granted
      BY DEF LaunchFollowsDocument
    <2>1. Own(c) = OwnItems(conf[c].doc, lookup[c])
      BY DEF Own, OwnItems
    <2>2. lookup[c].pc # "idle" => Judged(conf[c].doc, lookup[c])
      BY DEF ConfInv, LookupInv
    <2> QED BY <2>1, <2>2 DEF Judged
  <1> QED BY <1>1, ConfAlways, PTL

\* A login that names no client is sent on with the issuer's default client or its only
\* one, as get_iss_config chooses it from the object's own document, and with its key.
THEOREM LoginTakesDefault ==
  ASSUME Agree, EachClientOnce
  PROVE  Spec => []LoginUsesDefault
  <1>1. TypeInv /\ ConfInv => LoginUsesDefault
    <2> SUFFICES ASSUME TypeInv, ConfInv, NEW c \in Confs
                 PROVE  LET r == lookup[c]
                            usual == UsualItems(conf[c].doc, r.iss)
                        IN  /\ r.pc = "redirected" =>
                                 \E item \in usual : r.client = item.client /\ r.key = item.key
                            /\ r.pc = "refused" /\ r.client = NoClient => usual = {}
      BY DEF LoginUsesDefault, UsualItems
    <2>1. lookup[c].pc # "idle" => Judged(conf[c].doc, lookup[c])
      BY DEF ConfInv, LookupInv
    <2> QED BY <2>1 DEF Judged
  <1> QED BY <1>1, ConfAlways, PTL

\* Once an object is built, get_jwks publishes exactly the public keys its document
\* names: no key takes the place of another client's, and none is foreign.
THEOREM NamedKeysArePublished ==
  ASSUME Agree, EachClientOnce
  PROVE  Spec => []PublishesNamedKeys
  <1>1. TypeInv /\ ConfInv => PublishesNamedKeys
    <2> SUFFICES ASSUME TypeInv, ConfInv, NEW c \in Confs, conf[c].stage = "ready"
                 PROVE  LET items == UNION {ToSet(conf[c].doc[i].items) : i \in DOMAIN conf[c].doc}
                        IN  Jwks(c) = {item.public : item \in items} \ {NoKey}
      BY DEF PublishesNamedKeys
    <2> DEFINE doc == conf[c].doc
               items == UNION {ToSet(doc[i].items) : i \in DOMAIN doc}
    <2>1. doc \in Documents /\ Holds(conf[c], keys[c])
      BY DEF TypeInv, ConfInv, KeysInv
    <2>2. \A h \in keys[c] : \E i \in DOMAIN doc : \E j \in DOMAIN doc[i].items :
            Is(h, doc[i], doc[i].items[j])
      BY <2>1 DEF Holds
    <2>3. ASSUME NEW i \in DOMAIN doc, NEW j \in DOMAIN doc[i].items
          PROVE  KeyRead(conf[c], i, j)
      <3>1. conf[c].entry > Len(doc) /\ conf[c].entry \in Nat
        BY <2>1 DEF Holds, TypeInv, Positive
      <3> QED BY <2>1, <3>1, DocType DEF KeyRead
    <2>4. ASSUME NEW i \in DOMAIN doc, NEW j \in DOMAIN doc[i].items,
                 doc[i].items[j].public # NoKey
          PROVE  doc[i].items[j].public \in Jwks(c)
      <3> DEFINE h == Pair("public", doc[i], doc[i].items[j])
      <3>1. h \in keys[c]
        BY <2>1, <2>3, <2>4 DEF Holds, Given
      <3>2. h.kind = "public" /\ h.key = doc[i].items[j].public
        BY DEF Pair, KeyOf
      <3> HIDE DEF h
      <3> QED BY <3>1, <3>2 DEF Jwks
    <2>5. ASSUME NEW h \in keys[c], h.kind = "public"
          PROVE  \E item \in items : item.public # NoKey /\ h.key = item.public
      <3>1. PICK i \in DOMAIN doc : \E j \in DOMAIN doc[i].items : Is(h, doc[i], doc[i].items[j])
        BY <2>2
      <3>2. PICK j \in DOMAIN doc[i].items : Is(h, doc[i], doc[i].items[j])
        BY <3>1
      <3>3. doc[i].items[j] \in items
        BY DEF ToSet
      <3>4. doc[i].items[j].public # NoKey /\ h.key = doc[i].items[j].public
        BY <2>5, <3>2 DEF Is, Given, Pair, KeyOf
      <3> HIDE DEF items
      <3> QED BY <3>3, <3>4
    <2>6. \A key \in Jwks(c) : \E item \in items : item.public # NoKey /\ key = item.public
      <3> HIDE DEF items
      <3> QED BY <2>5 DEF Jwks
    <2>7. \A item \in items : \E i \in DOMAIN doc : \E j \in DOMAIN doc[i].items :
            item = doc[i].items[j]
      BY DEF ToSet
    <2>8. \A item \in items : item.public # NoKey => item.public \in Jwks(c)
      <3> HIDE DEF items, doc
      <3> QED BY <2>4, <2>7
    <2> HIDE DEF items
    <2>9. Jwks(c) = {item.public : item \in items} \ {NoKey}
      BY <2>6, <2>8
    <2> QED BY <2>9 DEF items
  <1> QED BY <1>1, ConfAlways, PTL
=============================================================================
