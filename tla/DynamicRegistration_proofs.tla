--------------------- MODULE DynamicRegistration_proofs ---------------------
(***************************************************************************)
(* Proofs about DynamicRegistration, for every set of requests, workers,   *)
(* stores, platforms and clients, and whatever issuers and endpoints the   *)
(* documents name.                                                         *)
(***************************************************************************)
EXTENDS DynamicRegistration, TLAPS, WellFoundedInduction

(* The invariant.                                                            *)

RequestType == [pc : Phases, worker : Workers, doc : Documents, answer : Answers \cup {NoAnswer}]

Before == {"idle", "fetching", "fetched", "posting"}
Known  == {"saved", "complete"}

StateInv ==
  /\ platform \in [Platforms -> SUBSET ClientIds]
  /\ request \in [Requests -> RequestType]
  /\ store \in [Stores -> Seq(Records)]
  /\ saves \in Seq(Requests)
  /\ crashes \in 0 .. MaxCrashes

\* What a request came to: nothing before the platform's answer; and what is saved has
\* a client's name.
AnswerInv ==
  \A r \in Requests :
    /\ request[r].pc \in Before => request[r].answer = NoAnswer
    /\ request[r].pc = "answered" => request[r].answer # NoAnswer
    /\ request[r].pc \in Known => request[r].answer.named

\* Every client of a platform is what one of the requests came to.
MadeInv ==
  \A p \in Platforms : \A id \in platform[p] :
    \E r \in Requests :
      request[r].doc.at = p /\ request[r].answer # NoAnswer /\ request[r].answer.client = id

\* One record of a key in a list.
OneOfAKey(records) ==
  \A i, j \in DOMAIN records : SameKey(records[i], records[j]) => i = j

StoreInv == \A s \in Stores : OneOfAKey(store[s])

\* The requests that saved.
SavesInv ==
  /\ \A n \in DOMAIN saves : LET q == request[saves[n]] IN
       q.answer.named /\ q.pc \in Known \cup {"failed"}
  /\ \A r \in Requests : request[r].pc \in Known => \E n \in DOMAIN saves : saves[n] = r

RegInv == StateInv /\ AnswerInv /\ MadeInv /\ StoreInv /\ SavesInv

\* In a store that survives its workers, a key that was saved stays.
KeptInv ==
  \A n \in DOMAIN saves : LET q == request[saves[n]] IN
    \E x \in Range(store[StoreOf[q.worker]]) : <<x.issuer, x.client>> = Key(saves[n])

\* All workers read one store, as the documentation asks of a deployment.
OneForAll == \A v, w \in Workers : StoreOf[v] = StoreOf[w]

\* No request saved under the key of the n-th save after it.
LastOfItsKey(n) == \A m \in DOMAIN saves : m > n => Key(saves[m]) # Key(saves[n])

\* And if there is only that store, what was saved last under a key is what it holds.
LastInv ==
  \A n \in DOMAIN saves : LastOfItsKey(n) =>
    \A w \in Workers : ToRegistration(saves[n]) \in Range(store[StoreOf[w]])

-----------------------------------------------------------------------------
(* Records in a list.                                                        *)

LEMMA Least ==
  ASSUME NEW I, I \subseteq Nat, I # {}
  PROVE  \E m \in I : \A k \in I : m <= k
  <1> DEFINE R == OpToRel(<, Nat)
  <1>1. IsWellFoundedOn(R, Nat)
    BY NatLessThanWellFounded
  <1>2. \A x, y \in Nat : x < y => <<x, y>> \in R
    BY DEF OpToRel
  <1> HIDE DEF R
  <1>3. PICK x \in I : \A y \in I : ~ (<<y, x>> \in R)
    BY <1>1, WFMin
  <1>4. \A y \in I : x <= y
    <2> TAKE y \in I
    <2>1. x \in Nat /\ y \in Nat
      OBVIOUS
    <2>2. ~(y < x)
      BY <1>2, <1>3, <2>1
    <2> QED BY <2>1, <2>2
  <1> QED BY <1>4

LEMMA Greatest ==
  ASSUME NEW n \in Nat, NEW I, I \subseteq 1 .. n, I # {}
  PROVE  \E m \in I : \A k \in I : k <= m
  <1> DEFINE J == {n - k : k \in I}
  <1>1. J \subseteq Nat /\ J # {} /\ \A k \in I : n - k \in J /\ k \in Nat
    <2>1. \A k \in I : k \in Nat /\ n - k \in Nat
      OBVIOUS
    <2>2. \A k \in I : n - k \in J
      OBVIOUS
    <2> QED BY <2>1, <2>2
  <1>2. \A x \in J : \E k \in I : x = n - k
    OBVIOUS
  <1> HIDE DEF J
  <1>3. PICK x \in J : \A y \in J : x <= y
    BY <1>1, Least
  <1>4. PICK m \in I : x = n - m
    BY <1>2
  <1>5. \A k \in I : k <= m
    <2> TAKE k \in I
    <2>1. n - m <= n - k /\ m \in Nat /\ k \in Nat
      BY <1>1, <1>3, <1>4
    <2> QED BY <2>1
  <1> QED BY <1>5

\* The record found is at the first of the places that fit.
LEMMA FirstPlace ==
  ASSUME NEW records \in Seq(Records), NEW I, I \subseteq DOMAIN records
  PROVE  /\ I = {} => At(records, IF I # {} THEN Min(I) ELSE 0) = NoRecord
         /\ I # {} => \E m \in I : /\ \A k \in I : m <= k
                                   /\ At(records, IF I # {} THEN Min(I) ELSE 0) = records[m]
  <1>1. CASE I = {}
    BY <1>1 DEF At
  <1>2. CASE I # {}
    <2>1. I \subseteq Nat /\ 0 \notin I
      OBVIOUS
    <2>2. \E m \in I : \A k \in I : m <= k
      BY <1>2, <2>1, Least
    <2>3. Min(I) \in I /\ \A k \in I : Min(I) <= k
      BY <2>2 DEF Min
    <2>4. At(records, Min(I)) = records[Min(I)]
      BY <2>1, <2>3 DEF At
    <2> QED BY <1>2, <2>3, <2>4
  <1> QED BY <1>1, <1>2

LEMMA LookupFinds ==
  ASSUME NEW records \in Seq(Records), OneOfAKey(records), NEW rec \in Range(records)
  PROVE  Lookup(records, rec.issuer, rec.client) = rec
  <1> DEFINE I == {i \in 1 .. Len(records) : records[i].issuer = rec.issuer
                                             /\ records[i].client = rec.client}
  <1>1. Lookup(records, rec.issuer, rec.client) = At(records, IF I # {} THEN Min(I) ELSE 0)
    BY DEF Lookup, SelectInSeq
  <1>2. PICK j \in DOMAIN records : records[j] = rec
    BY DEF Range
  <1>3. j \in I /\ I \subseteq DOMAIN records
    BY <1>2
  <1>4. \A m \in I : m = j
    BY <1>2, <1>3 DEF OneOfAKey, SameKey
  <1> HIDE DEF I
  <1> QED BY <1>1, <1>2, <1>3, <1>4, FirstPlace

LEMMA FallbackIsFirst ==
  ASSUME NEW records \in Seq(Records), NEW iss
  PROVE  /\ Fallback(records, iss) = NoRecord <=> \A i \in DOMAIN records : records[i].issuer # iss
         /\ \A m \in DOMAIN records :
              /\ records[m].issuer = iss
              /\ \A k \in DOMAIN records : records[k].issuer = iss => m <= k
              => Fallback(records, iss) = records[m]
         /\ Fallback(records, iss) # NoRecord =>
              \E m \in DOMAIN records :
                /\ records[m].issuer = iss /\ Fallback(records, iss) = records[m]
                /\ \A k \in DOMAIN records : records[k].issuer = iss => m <= k
  <1> DEFINE I == {i \in 1 .. Len(records) : records[i].issuer = iss}
  <1>1. Fallback(records, iss) = At(records, IF I # {} THEN Min(I) ELSE 0)
    BY DEF Fallback, SelectInSeq
  <1>2. /\ I \subseteq DOMAIN records
        /\ \A k \in DOMAIN records : k \in I <=> records[k].issuer = iss
    OBVIOUS
  <1>3. DOMAIN records \subseteq Nat /\ \A k \in DOMAIN records : records[k] # NoRecord
    BY NoRecordIsNone
  <1> HIDE DEF I
  <1>4. /\ I = {} => Fallback(records, iss) = NoRecord
        /\ I # {} => \E m \in I : (\A k \in I : m <= k) /\ Fallback(records, iss) = records[m]
    BY <1>1, <1>2, FirstPlace
  <1>5. ASSUME NEW m \in I, NEW n \in I, \A k \in I : m <= k, \A k \in I : n <= k
        PROVE  m = n
    <2>1. m <= n /\ n <= m /\ m \in Nat /\ n \in Nat
      BY <1>2, <1>3, <1>5
    <2> QED BY <2>1
  <1> QED BY <1>2, <1>3, <1>4, <1>5

\* Saving puts the record in, keeps every record of another key, and lets every record
\* that was there keep its place or give it to a newer one of its key.
LEMMA SavedKeeps ==
  ASSUME NEW records \in Seq(Records), OneOfAKey(records), NEW rec \in Records
  PROVE  LET new == Saved(records, rec) IN
         /\ new \in Seq(Records) /\ OneOfAKey(new) /\ rec \in Range(new)
         /\ \A x \in Range(records) : ~SameKey(x, rec) => x \in Range(new)
         /\ \A i \in DOMAIN records : i \in DOMAIN new /\ SameKey(new[i], records[i])
         /\ \A i \in DOMAIN new \ DOMAIN records : \A j \in DOMAIN records : j < i
  <1> DEFINE new == Saved(records, rec)
  <1>0. DOMAIN records = 1 .. Len(records) /\ Len(records) \in Nat
    OBVIOUS
  <1>1. CASE \E i \in DOMAIN records : SameKey(records[i], rec)
    <2>1. new = [i \in DOMAIN records |-> IF SameKey(records[i], rec) THEN rec ELSE records[i]]
      BY <1>1 DEF Saved
    <2> HIDE DEF new
    <2>2. DOMAIN new = DOMAIN records
      BY <2>1
    <2>3. \A i \in DOMAIN records : new[i] = IF SameKey(records[i], rec) THEN rec ELSE records[i]
      BY <2>1
    <2>4. new \in Seq(Records)
      <3>1. \A i \in 1 .. Len(records) : new[i] \in Records
        BY <1>0, <2>3
      <3>2. new \in [1 .. Len(records) -> Records]
        BY <1>0, <2>1, <3>1
      <3> QED BY <1>0, <3>2
    <2>5. \A i \in DOMAIN records : SameKey(new[i], records[i])
      BY <2>3 DEF SameKey
    <2>6. OneOfAKey(new)
      BY <2>2, <2>5 DEF OneOfAKey, SameKey
    <2>7. rec \in Range(new)
      BY <1>1, <2>2, <2>3 DEF Range
    <2>8. \A x \in Range(records) : ~SameKey(x, rec) => x \in Range(new)
      BY <2>2, <2>3 DEF Range
    <2> QED BY <2>2, <2>4, <2>5, <2>6, <2>7, <2>8 DEF new
  <1>2. CASE ~ \E i \in DOMAIN records : SameKey(records[i], rec)
    <2>1. new = Append(records, rec)
      BY <1>2 DEF Saved
    <2> HIDE DEF new
    <2>2. /\ new \in Seq(Records) /\ Len(new) = Len(records) + 1 /\ new[Len(records) + 1] = rec
          /\ \A i \in 1 .. Len(records) : new[i] = records[i]
      BY <2>1
    <2>3. DOMAIN new = 1 .. Len(records) + 1
      BY <2>2
    <2>4. ASSUME NEW i \in DOMAIN new, NEW j \in DOMAIN new, SameKey(new[i], new[j])
          PROVE  i = j
      <3>1. CASE i \in DOMAIN records /\ j \in DOMAIN records
        BY <1>0, <2>2, <2>4, <3>1 DEF OneOfAKey
      <3>2. CASE i \in DOMAIN records /\ j \notin DOMAIN records
        <4>1. j = Len(records) + 1
          BY <1>0, <2>3, <3>2
        <4> QED BY <1>0, <1>2, <2>2, <2>4, <3>2, <4>1
      <3>3. CASE i \notin DOMAIN records /\ j \in DOMAIN records
        <4>1. i = Len(records) + 1
          BY <1>0, <2>3, <3>3
        <4>2. SameKey(records[j], rec)
          BY <1>0, <2>2, <2>4, <3>3, <4>1 DEF SameKey
        <4> QED BY <1>2, <3>3, <4>2
      <3>4. CASE i \notin DOMAIN records /\ j \notin DOMAIN records
        BY <1>0, <2>3, <3>4
      <3> QED BY <3>1, <3>2, <3>3, <3>4
    <2>5. rec \in Range(new)
      BY <2>2, <2>3 DEF Range
    <2>6. \A x \in Range(records) : x \in Range(new)
      BY <1>0, <2>2, <2>3 DEF Range
    <2>7. \A i \in DOMAIN records : i \in DOMAIN new /\ SameKey(new[i], records[i])
      BY <1>0, <2>2, <2>3 DEF SameKey
    <2>8. \A i \in DOMAIN new \ DOMAIN records : \A j \in DOMAIN records : j < i
      BY <1>0, <2>3
    <2> QED BY <2>2, <2>4, <2>5, <2>6, <2>7, <2>8 DEF new, OneOfAKey
  <1> QED BY <1>1, <1>2

-----------------------------------------------------------------------------
(* The steps.                                                                *)

\* What a step is to one request: nothing; its beginning; the platform's answer; or a
\* move to another phase.
Same(r) == /\ request'[r].doc = request[r].doc /\ request'[r].answer = request[r].answer
           /\ request'[r].worker = request[r].worker

Begins(r) == /\ request[r].pc = "idle" /\ request'[r].pc = "fetching"
             /\ request'[r].answer = NoAnswer

GetsAnswer(r) == /\ request[r].pc = "posting" /\ request'[r].pc = "answered"
                 /\ request'[r].doc = request[r].doc /\ request'[r].answer \in Answers

GoesOn(r) ==
  /\ Same(r)
  /\ \/ request[r].pc = "fetching" /\ request'[r].pc = "fetched"
     \/ request[r].pc = "fetched" /\ request'[r].pc = "posting"
     \/ request[r].pc = "answered" /\ request'[r].pc = "saved" /\ request[r].answer.named /\ Save(r)
     \/ request[r].pc = "saved" /\ request'[r].pc = "complete"
     \/ request'[r].pc = "failed"

Moves(r) == request'[r] = request[r] \/ Begins(r) \/ GetsAnswer(r) \/ GoesOn(r)

LEMMA OneMoves ==
  ASSUME StateInv, NEW r \in Requests, NEW new \in RequestType,
         request' = [request EXCEPT ![r] = new]
  PROVE  /\ request' \in [Requests -> RequestType] /\ request'[r] = new
         /\ \A q \in Requests : q # r => request'[q] = request[q]
  BY DEF StateInv

LEMMA PhaseMoves ==
  ASSUME StateInv, NEW r \in Requests, NEW p \in Phases, request' = [request EXCEPT ![r].pc = p]
  PROVE  /\ request' \in [Requests -> RequestType] /\ request'[r].pc = p /\ Same(r)
         /\ \A q \in Requests : q # r => request'[q] = request[q]
  <1> DEFINE new == [request[r] EXCEPT !.pc = p]
  <1>1. request[r] \in RequestType
    BY DEF StateInv
  <1>2. /\ new \in RequestType /\ new.pc = p /\ new.doc = request[r].doc
        /\ new.answer = request[r].answer /\ new.worker = request[r].worker
    BY <1>1 DEF RequestType
  <1>3. request' = [request EXCEPT ![r] = new]
    OBVIOUS
  <1> HIDE DEF new
  <1>4. /\ request' \in [Requests -> RequestType] /\ request'[r] = new
        /\ \A q \in Requests : q # r => request'[q] = request[q]
    BY <1>2, <1>3, OneMoves
  <1> QED BY <1>2, <1>4 DEF Same

\* Every step is one of these to every request.
LEMMA StepMoves ==
  ASSUME RegInv, [Next]_vars
  PROVE  request' \in [Requests -> RequestType] /\ \A q \in Requests : Moves(q)
  <1>0. StateInv /\ request \in [Requests -> RequestType]
        /\ \A p \in {"fetching", "fetched", "posting", "answered", "saved", "complete", "failed"} :
             p \in Phases
    BY DEF RegInv, StateInv, Phases, Waiting
  <1>1. ASSUME NEW r \in Requests, NEW w \in Workers, NEW d \in Documents, Initiate(r, w, d)
        PROVE  request' \in [Requests -> RequestType] /\ \A q \in Requests : Moves(q)
    <2> DEFINE new == [pc |-> "fetching", worker |-> w, doc |-> d, answer |-> NoAnswer]
    <2>1. new \in RequestType /\ new.pc = "fetching" /\ new.answer = NoAnswer
      BY <1>0 DEF RequestType
    <2>2. request[r].pc = "idle" /\ request' = [request EXCEPT ![r] = new]
      BY <1>1 DEF Initiate
    <2> HIDE DEF new
    <2> QED BY <1>0, <2>1, <2>2, OneMoves DEF Moves, Begins
  <1>2. ASSUME NEW r \in Requests, PlatformCreates(r)
        PROVE  request' \in [Requests -> RequestType] /\ \A q \in Requests : Moves(q)
    <2>1. PICK a \in Answers :
            request' = [request EXCEPT ![r] = [request[r] EXCEPT !.pc = "answered", !.answer = a]]
      BY <1>2 DEF PlatformCreates
    <2> DEFINE new == [request[r] EXCEPT !.pc = "answered", !.answer = a]
    <2>2. request[r] \in RequestType /\ request[r].pc = "posting"
      BY <1>0, <1>2 DEF PlatformCreates
    <2>3. new \in RequestType /\ new.pc = "answered" /\ new.answer = a /\ new.doc = request[r].doc
      BY <1>0, <2>2 DEF RequestType
    <2> HIDE DEF new
    <2> QED BY <1>0, <2>1, <2>2, <2>3, OneMoves DEF Moves, GetsAnswer, new
  <1>3. ASSUME NEW r \in Requests, Tool(r)
        PROVE  request' \in [Requests -> RequestType] /\ \A q \in Requests : Moves(q)
    <2>1. PICK p \in {"fetched", "posting", "saved", "complete", "failed"} :
            /\ request' = [request EXCEPT ![r].pc = p]
            /\ \/ request[r].pc = "fetching" /\ p = "fetched"
               \/ request[r].pc = "fetched" /\ p = "posting"
               \/ request[r].pc = "answered" /\ p = "saved" /\ request[r].answer.named /\ Save(r)
               \/ request[r].pc = "saved" /\ p = "complete"
               \/ p = "failed"
      <3>1. CASE Save(r)
        BY <3>1 DEF Save, Usable
      <3>2. CASE ConfigurationFetched(r) \/ Post(r)
        BY <3>2 DEF ConfigurationFetched, Post
      <3>3. CASE Complete(r) \/ Fail(r)
        BY <3>3 DEF Complete, Fail
      <3> QED BY <1>3, <3>1, <3>2, <3>3 DEF Tool
    <2>2. /\ request' \in [Requests -> RequestType] /\ request'[r].pc = p /\ Same(r)
          /\ \A q \in Requests : q # r => request'[q] = request[q]
      BY <1>0, <2>1, PhaseMoves
    <2> QED BY <2>1, <2>2 DEF Moves, GoesOn
  <1>4. ASSUME NEW w \in Workers, Crash(w)
        PROVE  request' \in [Requests -> RequestType] /\ \A q \in Requests : Moves(q)
    <2>1. request' = [r \in Requests |->
             IF request[r].worker = w /\ request[r].pc \notin {"idle", "complete"}
             THEN [request[r] EXCEPT !.pc = "failed"] ELSE request[r]]
      BY <1>4 DEF Crash
    <2>2. ASSUME NEW r \in Requests PROVE request'[r] \in RequestType /\ Moves(r)
      <3>1. request[r] \in RequestType
        BY <1>0
      <3>2. CASE request'[r] = request[r]
        BY <3>1, <3>2 DEF Moves
      <3>3. CASE request'[r] = [request[r] EXCEPT !.pc = "failed"]
        <4> DEFINE new == [request[r] EXCEPT !.pc = "failed"]
        <4>1. /\ new \in RequestType /\ new.pc = "failed" /\ new.doc = request[r].doc
              /\ new.answer = request[r].answer /\ new.worker = request[r].worker
          BY <1>0, <3>1 DEF RequestType
        <4>2. request'[r] = new
          BY <3>3
        <4> HIDE DEF new
        <4> QED BY <4>1, <4>2 DEF Moves, GoesOn, Same
      <3> QED BY <2>1, <3>2, <3>3
    <2>3. DOMAIN request' = Requests /\ request' = [r \in Requests |-> request'[r]]
      BY <2>1
    <2> QED BY <2>2, <2>3
  <1>5. ASSUME UNCHANGED vars
        PROVE  request' \in [Requests -> RequestType] /\ \A q \in Requests : Moves(q)
    BY <1>0, <1>5 DEF vars, Moves
  <1> QED BY <1>1, <1>2, <1>3, <1>4, <1>5 DEF Next

\* What a request came to stays with it.
LEMMA AnsweredStays ==
  ASSUME RegInv, NEW r \in Requests, Moves(r), request[r].pc \notin Before
  PROVE  /\ Same(r) /\ request'[r].pc \notin Before
         /\ Key(r)' = Key(r) /\ ToRegistration(r)' = ToRegistration(r)
  <1>1. Same(r) /\ request'[r].pc \notin Before
    BY DEF Moves, Begins, GetsAnswer, GoesOn, Same, Before
  <1> QED BY <1>1 DEF Same, Key, ToRegistration

\* The requests that saved are not new ones.
LEMMA SavedStays ==
  ASSUME RegInv, NEW n \in DOMAIN saves, NEW r \in Requests, saves[n] = r, Moves(r)
  PROVE  /\ Same(r) /\ Key(r)' = Key(r) /\ ToRegistration(r)' = ToRegistration(r)
         /\ request'[r].answer.named /\ request'[r].pc \in Known \cup {"failed"}
  <1>1. request[r].answer.named /\ request[r].pc \in Known \cup {"failed"}
    BY DEF RegInv, SavesInv
  <1>2. request[r].pc \notin Before
    BY <1>1 DEF Known, Before
  <1>3. request'[r].pc \in Known \cup {"failed"}
    BY <1>1 DEF Moves, Begins, GetsAnswer, GoesOn, Known
  <1> QED BY <1>1, <1>2, <1>3, AnsweredStays DEF Same

\* Who saves has a name for the client, and one record changes.
LEMMA SaveGives ==
  ASSUME RegInv, NEW r \in Requests, Save(r)
  PROVE  LET rec == ToRegistration(r)
             at  == StoreOf[request[r].worker] IN
         /\ rec \in Records /\ <<rec.issuer, rec.client>> = Key(r)
         /\ request[r].pc = "answered" /\ request'[r].pc = "saved"
         /\ at \in Stores /\ store' \in [Stores -> Seq(Records)]
         /\ store'[at] = Saved(store[at], rec)
         /\ \A s \in Stores : s # at => store'[s] = store[s]
         /\ saves' = Append(saves, r)
  <1> DEFINE rec == ToRegistration(r)
             at  == StoreOf[request[r].worker]
  <1>1. /\ request[r].pc = "answered" /\ request[r].answer.named
        /\ store' = [store EXCEPT ![at] = Saved(store[at], rec)]
        /\ saves' = Append(saves, r) /\ request' = [request EXCEPT ![r].pc = "saved"]
    BY DEF Save, Usable
  <1>2. /\ request[r] \in RequestType /\ request \in [Requests -> RequestType]
        /\ store \in [Stores -> Seq(Records)]
    BY DEF RegInv, StateInv
  <1>3. request[r].answer \in Answers /\ request[r].doc \in Configurations /\ at \in Stores
    BY <1>1, <1>2, ParametersOK DEF RegInv, AnswerInv, RequestType
  <1>4. rec \in Records /\ rec.issuer = request[r].doc.issuer /\ rec.client = request[r].answer.client
    BY <1>1, <1>3 DEF ToRegistration, Records, Answers, Configurations
  <1>5. request'[r].pc = "saved"
    BY <1>1, <1>2 DEF RequestType
  <1> HIDE DEF rec, at
  <1>6. Saved(store[at], rec) \in Seq(Records)
    BY <1>2, <1>3, <1>4, SavedKeeps DEF RegInv, StoreInv
  <1> QED BY <1>1, <1>2, <1>3, <1>4, <1>5, <1>6 DEF rec, at, Key

\* The other steps save nothing, and a store that is not in a worker's memory stays.
LEMMA NothingSaved ==
  ASSUME [Next]_vars, ~ \E r \in Requests : Save(r)
  PROVE  /\ saves' = saves
         /\ store' = store \/ store' = [s \in Stores |-> IF store'[s] = <<>> THEN <<>> ELSE store[s]]
         /\ Durable => \A s \in Stores : store'[s] = store[s]
  <1>1. ASSUME NEW w \in Workers, Crash(w)
        PROVE  /\ saves' = saves
               /\ store' = [s \in Stores |-> IF store'[s] = <<>> THEN <<>> ELSE store[s]]
               /\ Durable => \A s \in Stores : store'[s] = store[s]
    <2>1. /\ saves' = saves
          /\ store' = [s \in Stores |-> IF s = StoreOf[w] /\ ~Durable THEN <<>> ELSE store[s]]
      BY <1>1 DEF Crash
    <2> QED BY <2>1
  <1>2. ASSUME UNCHANGED <<store, saves>>
        PROVE  saves' = saves /\ store' = store
    BY <1>2
  <1>3. (\E w \in Workers : Crash(w)) \/ UNCHANGED <<store, saves>>
    BY DEF Next, Tool, Initiate, ConfigurationFetched, Post, PlatformCreates, Complete, Fail, vars
  <1> QED BY <1>1, <1>2, <1>3

LEMMA StateStep ==
  ASSUME RegInv, [Next]_vars
  PROVE  StateInv' /\ StoreInv'
  <1>1. request' \in [Requests -> RequestType]
    BY StepMoves
  <1>2. platform' \in [Platforms -> SUBSET ClientIds]
    <2>1. ASSUME NEW r \in Requests, PlatformCreates(r) PROVE platform' \in [Platforms -> SUBSET ClientIds]
      <3>1. PICK a \in Answers :
              platform' = [platform EXCEPT ![request[r].doc.at] = platform[request[r].doc.at] \cup {a.client}]
        BY <2>1 DEF PlatformCreates
      <3>2. a.client \in ClientIds
        BY DEF Answers
      <3>3. request[r].doc.at \in Platforms
        BY ParametersOK DEF RegInv, StateInv, RequestType, Configurations
      <3> QED BY <3>1, <3>2, <3>3 DEF RegInv, StateInv
    <2>2. (\E r \in Requests : PlatformCreates(r)) \/ platform' = platform
      BY DEF Next, Tool, Initiate, ConfigurationFetched, Post, Save, Complete, Fail, Crash, vars
    <2> QED BY <2>1, <2>2 DEF RegInv, StateInv
  <1>3. crashes' \in 0 .. MaxCrashes
    <2>1. (\E w \in Workers : Crash(w)) \/ crashes' = crashes
      BY DEF Next, Tool, Initiate, ConfigurationFetched, Post, PlatformCreates, Save, Complete, Fail, vars
    <2> QED BY <2>1, ParametersOK DEF RegInv, StateInv, Crash
  <1>4. ASSUME NEW r \in Requests, Save(r)
        PROVE  store' \in [Stores -> Seq(Records)] /\ saves' \in Seq(Requests) /\ StoreInv'
    <2>1. PICK rec \in Records, at \in Stores :
            /\ store' \in [Stores -> Seq(Records)] /\ store'[at] = Saved(store[at], rec)
            /\ \A s \in Stores : s # at => store'[s] = store[s]
            /\ saves' = Append(saves, r)
      BY <1>4, SaveGives
    <2>2. store[at] \in Seq(Records) /\ OneOfAKey(store[at]) /\ saves \in Seq(Requests)
      BY DEF RegInv, StateInv, StoreInv
    <2>3. OneOfAKey(store'[at])
      BY <2>1, <2>2, SavedKeeps
    <2>4. ASSUME NEW s \in Stores PROVE OneOfAKey(store'[s])
      <3>1. CASE s = at
        BY <2>3, <3>1
      <3>2. CASE s # at
        <4>1. OneOfAKey(store[s]) /\ store'[s] = store[s]
          BY <2>1, <3>2 DEF RegInv, StoreInv
        <4> QED BY <4>1
      <3> QED BY <3>1, <3>2
    <2> QED BY <2>1, <2>2, <2>4 DEF StoreInv
  <1>5. ASSUME ~ \E r \in Requests : Save(r)
        PROVE  store' \in [Stores -> Seq(Records)] /\ saves' \in Seq(Requests) /\ StoreInv'
    <2>1. /\ saves' = saves
          /\ store' = store \/ store' = [s \in Stores |-> IF store'[s] = <<>> THEN <<>> ELSE store[s]]
      BY <1>5, NothingSaved
    <2>2. store \in [Stores -> Seq(Records)] /\ saves \in Seq(Requests) /\ <<>> \in Seq(Records)
      BY DEF RegInv, StateInv
    <2>3. \A s \in Stores : store'[s] = <<>> \/ store'[s] = store[s]
      BY <2>1
    <2>4. store' \in [Stores -> Seq(Records)]
      BY <2>1, <2>2
    <2>5. ASSUME NEW s \in Stores PROVE OneOfAKey(store'[s])
      <3>1. OneOfAKey(store[s]) /\ OneOfAKey(<<>>)
        BY DEF RegInv, StoreInv, OneOfAKey
      <3> QED BY <2>3, <3>1
    <2> QED BY <2>1, <2>2, <2>4, <2>5 DEF StoreInv
  <1> QED BY <1>1, <1>2, <1>3, <1>4, <1>5 DEF StateInv

LEMMA AnswerStep ==
  ASSUME RegInv, [Next]_vars
  PROVE  AnswerInv' /\ MadeInv'
  <1>0. /\ \A q \in Requests : Moves(q)
        /\ \A a \in Answers : a # NoAnswer
    BY StepMoves DEF Answers, NoAnswer
  <1>1. AnswerInv'
    <2> SUFFICES ASSUME NEW r \in Requests
                 PROVE  /\ request'[r].pc \in Before => request'[r].answer = NoAnswer
                        /\ request'[r].pc = "answered" => request'[r].answer # NoAnswer
                        /\ request'[r].pc \in Known => request'[r].answer.named
      BY DEF AnswerInv
    <2>1. /\ request[r].pc \in Before => request[r].answer = NoAnswer
          /\ request[r].pc = "answered" => request[r].answer # NoAnswer
          /\ request[r].pc \in Known => request[r].answer.named
      BY DEF RegInv, AnswerInv
    <2> QED BY <1>0, <2>1 DEF Moves, Begins, GetsAnswer, GoesOn, Same, Before, Known
  <1>2. ASSUME NEW r \in Requests, request[r].answer # NoAnswer
        PROVE  request'[r].doc = request[r].doc /\ request'[r].answer = request[r].answer
    <2>1. request[r].pc \notin Before
      BY <1>2 DEF RegInv, AnswerInv
    <2> QED BY <1>0, <2>1, AnsweredStays DEF Same
  <1>3. ASSUME NEW p \in Platforms, NEW id \in platform'[p], id \in platform[p]
        PROVE  \E r \in Requests : /\ request'[r].doc.at = p /\ request'[r].answer # NoAnswer
                                   /\ request'[r].answer.client = id
    <2>1. PICK r \in Requests : /\ request[r].doc.at = p /\ request[r].answer # NoAnswer
                                /\ request[r].answer.client = id
      BY <1>3 DEF RegInv, MadeInv
    <2> QED BY <1>2, <2>1
  <1>4. ASSUME NEW p \in Platforms, NEW id \in platform'[p], id \notin platform[p]
        PROVE  \E r \in Requests : /\ request'[r].doc.at = p /\ request'[r].answer # NoAnswer
                                   /\ request'[r].answer.client = id
    <2>1. platform' # platform
      BY <1>4
    <2>2. PICK r \in Requests : PlatformCreates(r)
      BY <2>1 DEF Next, Tool, Initiate, ConfigurationFetched, Post, Save, Complete, Fail, Crash, vars
    <2>3. PICK a \in Answers :
            /\ platform' = [platform EXCEPT ![request[r].doc.at] = platform[request[r].doc.at] \cup {a.client}]
            /\ request' = [request EXCEPT ![r] = [request[r] EXCEPT !.pc = "answered", !.answer = a]]
      BY <2>2 DEF PlatformCreates
    <2>4. platform \in [Platforms -> SUBSET ClientIds] /\ request \in [Requests -> RequestType]
      BY DEF RegInv, StateInv
    <2>5. p = request[r].doc.at /\ id = a.client
      BY <1>4, <2>3, <2>4
    <2>6. request'[r].doc = request[r].doc /\ request'[r].answer = a
      BY <2>3, <2>4 DEF RequestType
    <2> QED BY <1>0, <2>5, <2>6
  <1> QED BY <1>1, <1>3, <1>4 DEF MadeInv

LEMMA SavesStep ==
  ASSUME RegInv, [Next]_vars
  PROVE  SavesInv'
  <1>0. saves \in Seq(Requests) /\ \A q \in Requests : Moves(q)
    BY StepMoves DEF RegInv, StateInv
  <1>1. ASSUME NEW r \in Requests, NEW n \in DOMAIN saves, saves[n] = r
        PROVE  request'[r].answer.named /\ request'[r].pc \in Known \cup {"failed"}
    BY <1>0, <1>1, SavedStays
  <1>2. ASSUME NEW r \in Requests, Save(r) PROVE SavesInv'
    <2>1. saves' = Append(saves, r) /\ request'[r].pc = "saved" /\ request[r].pc = "answered"
      BY <1>2, SaveGives
    <2>2. /\ DOMAIN saves' = 1 .. Len(saves) + 1 /\ saves'[Len(saves) + 1] = r
          /\ \A n \in DOMAIN saves : n \in DOMAIN saves' /\ saves'[n] = saves[n]
          /\ \A n \in DOMAIN saves' : n \in DOMAIN saves \/ n = Len(saves) + 1
      BY <1>0, <2>1
    <2>3. request'[r].answer.named
      <3>1. request'[r].answer.named
        BY <1>0, <2>1, AnswerStep DEF AnswerInv, Known
      <3> QED BY <3>1
    <2>4. ASSUME NEW n \in DOMAIN saves'
          PROVE  request'[saves'[n]].answer.named /\ request'[saves'[n]].pc \in Known \cup {"failed"}
      <3>1. CASE n = Len(saves) + 1
        BY <2>1, <2>2, <2>3, <3>1 DEF Known
      <3>2. CASE n \in DOMAIN saves
        BY <1>0, <1>1, <2>2, <3>2
      <3> QED BY <2>2, <3>1, <3>2
    <2>5. ASSUME NEW q \in Requests, request'[q].pc \in Known
          PROVE  \E n \in DOMAIN saves' : saves'[n] = q
      <3>1. CASE request[q].pc \in Known
        <4>1. PICK n \in DOMAIN saves : saves[n] = q
          BY <3>1 DEF RegInv, SavesInv
        <4> QED BY <2>2, <4>1
      <3>2. CASE request[q].pc \notin Known
        <4>1. Save(q)
          BY <1>0, <2>5, <3>2 DEF Moves, Begins, GetsAnswer, GoesOn, Known
        <4>2. saves' = Append(saves, q)
          BY <4>1, SaveGives
        <4> QED BY <1>0, <4>2
      <3> QED BY <3>1, <3>2
    <2> QED BY <2>4, <2>5 DEF SavesInv
  <1>3. ASSUME ~ \E r \in Requests : Save(r) PROVE SavesInv'
    <2>1. saves' = saves
      BY <1>3, NothingSaved
    <2>2. ASSUME NEW q \in Requests, request'[q].pc \in Known
          PROVE  \E n \in DOMAIN saves' : saves'[n] = q
      <3>1. request[q].pc \in Known
        BY <1>0, <1>3, <2>2 DEF Moves, Begins, GetsAnswer, GoesOn, Known
      <3> QED BY <2>1, <3>1 DEF RegInv, SavesInv
    <2>3. ASSUME NEW n \in DOMAIN saves
          PROVE  request'[saves[n]].answer.named /\ request'[saves[n]].pc \in Known \cup {"failed"}
      BY <1>0, <1>1
    <2> QED BY <2>1, <2>2, <2>3 DEF SavesInv
  <1> QED BY <1>2, <1>3

\* Stores that survive keep every key, and what was saved last under it.
LEMMA KeptStep ==
  ASSUME RegInv, [Next]_vars, Durable, KeptInv
  PROVE  KeptInv'
  <1>0. saves \in Seq(Requests) /\ \A q \in Requests : Moves(q)
    BY StepMoves DEF RegInv, StateInv
  <1>1. ASSUME NEW q \in Requests, NEW n \in DOMAIN saves, saves[n] = q
        PROVE  /\ Key(q)' = Key(q) /\ request'[q].worker = request[q].worker
               /\ StoreOf[request[q].worker] \in Stores
               /\ \E x \in Range(store[StoreOf[request[q].worker]]) : <<x.issuer, x.client>> = Key(q)
    BY <1>0, <1>1, SavedStays, ParametersOK DEF Same, KeptInv, RegInv, StateInv, RequestType
  <1>2. ASSUME NEW r \in Requests, Save(r) PROVE KeptInv'
    <2>1. PICK rec \in Records, at \in Stores :
            /\ at = StoreOf[request[r].worker] /\ <<rec.issuer, rec.client>> = Key(r)
            /\ store'[at] = Saved(store[at], rec)
            /\ \A s \in Stores : s # at => store'[s] = store[s]
            /\ saves' = Append(saves, r) /\ request[r].pc = "answered"
      BY <1>2, SaveGives
    <2>2. store[at] \in Seq(Records) /\ OneOfAKey(store[at])
      BY DEF RegInv, StateInv, StoreInv
    <2>3. /\ rec \in Range(store'[at])
          /\ \A i \in DOMAIN store[at] : i \in DOMAIN store'[at] /\ SameKey(store'[at][i], store[at][i])
      BY <2>1, <2>2, SavedKeeps
    <2>4. Same(r) /\ Key(r)' = Key(r)
      BY <1>0, <2>1, AnsweredStays DEF Before
    <2> SUFFICES ASSUME NEW n \in DOMAIN saves', NEW q \in Requests, q = saves'[n]
                 PROVE  \E x \in Range(store'[StoreOf[request'[q].worker]]) :
                          <<x.issuer, x.client>> = Key(q)'
      <3>1. \A n \in DOMAIN saves' : saves'[n] \in Requests
        BY <1>0, <2>1
      <3> QED BY <3>1 DEF KeptInv, Key
    <2>5. CASE n \notin DOMAIN saves
      <3>1. q = r
        BY <1>0, <2>1, <2>5
      <3> QED BY <2>1, <2>3, <2>4, <3>1 DEF Same
    <2>6. CASE n \in DOMAIN saves
      <3>1. saves[n] = q
        BY <1>0, <2>1, <2>6
      <3>2. PICK s \in Stores : s = StoreOf[request[q].worker]
        BY <1>1, <2>6, <3>1
      <3>3. PICK i \in DOMAIN store[s] : <<store[s][i].issuer, store[s][i].client>> = Key(q)
        BY <1>1, <2>6, <3>1, <3>2 DEF Range
      <3>4. i \in DOMAIN store'[s] /\ SameKey(store'[s][i], store[s][i])
        BY <2>1, <2>3 DEF SameKey
      <3>5. <<store'[s][i].issuer, store'[s][i].client>> = Key(q)'
        BY <1>1, <2>6, <3>1, <3>3, <3>4 DEF SameKey
      <3>6. StoreOf[request'[q].worker] = s
        BY <1>1, <2>6, <3>1, <3>2
      <3> QED BY <3>4, <3>5, <3>6 DEF Range
    <2> QED BY <2>5, <2>6
  <1>3. ASSUME ~ \E r \in Requests : Save(r) PROVE KeptInv'
    <2>1. saves' = saves /\ \A s \in Stores : store'[s] = store[s]
      BY <1>3, NothingSaved
    <2> SUFFICES ASSUME NEW n \in DOMAIN saves, NEW q \in Requests, q = saves[n]
                 PROVE  \E x \in Range(store'[StoreOf[request'[q].worker]]) :
                          <<x.issuer, x.client>> = Key(q)'
      BY <1>0, <2>1 DEF KeptInv, Key
    <2> QED BY <1>1, <2>1
  <1> QED BY <1>2, <1>3

LEMMA LastStep ==
  ASSUME RegInv, [Next]_vars, Durable, OneForAll, LastInv
  PROVE  LastInv'
  <1> DEFINE NewKey(q) == <<request'[q].doc.issuer, request'[q].answer.client>>
  <1>0. saves \in Seq(Requests) /\ \A q \in Requests : Moves(q)
    BY StepMoves DEF RegInv, StateInv
  <1>1. ASSUME NEW q \in Requests, NEW n \in DOMAIN saves, saves[n] = q
        PROVE  NewKey(q) = Key(q) /\ ToRegistration(q)' = ToRegistration(q)
    BY <1>0, <1>1, SavedStays DEF Key
  <1>2. saves' \in Seq(Requests)
    BY StateStep DEF StateInv
  <1> SUFFICES ASSUME NEW n \in DOMAIN saves', NEW q \in Requests, q = saves'[n], NEW w \in Workers,
                      \A m \in DOMAIN saves' : m > n => NewKey(saves'[m]) # NewKey(q)
               PROVE  ToRegistration(q)' \in Range(store'[StoreOf[w]])
    BY <1>2 DEF LastInv, LastOfItsKey, Key, ToRegistration
  <1>3. StoreOf[w] \in Stores
    BY ParametersOK
  <1>4. ASSUME n \in DOMAIN saves, saves[n] = q,
               \A m \in DOMAIN saves : m \in DOMAIN saves' /\ saves'[m] = saves[m]
        PROVE  ToRegistration(q) \in Range(store[StoreOf[w]])
    <2>1. ASSUME NEW m \in DOMAIN saves, m > n PROVE Key(saves[m]) # Key(saves[n])
      <3>1. PICK p \in Requests : p = saves[m]
        BY <1>0
      <3>2. NewKey(p) # NewKey(q)
        BY <1>4, <2>1, <3>1
      <3> QED BY <1>1, <1>4, <3>1, <3>2
    <2> QED BY <1>4, <2>1 DEF LastInv, LastOfItsKey
  <1>5. ASSUME NEW r \in Requests, Save(r) PROVE ToRegistration(q)' \in Range(store'[StoreOf[w]])
    <2>1. PICK rec \in Records, at \in Stores :
            /\ at = StoreOf[request[r].worker] /\ rec = ToRegistration(r)
            /\ <<rec.issuer, rec.client>> = Key(r)
            /\ store'[at] = Saved(store[at], rec)
            /\ saves' = Append(saves, r) /\ request[r].pc = "answered"
      BY <1>5, SaveGives
    <2>2. at = StoreOf[w]
      BY <2>1 DEF OneForAll, RegInv, StateInv, RequestType
    <2>3. store[at] \in Seq(Records) /\ OneOfAKey(store[at])
      BY DEF RegInv, StateInv, StoreInv
    <2>4. /\ rec \in Range(store'[at])
          /\ \A x \in Range(store[at]) : ~SameKey(x, rec) => x \in Range(store'[at])
      BY <2>1, <2>3, SavedKeeps
    <2>5. ToRegistration(r)' = rec /\ NewKey(r) = Key(r)
      BY <1>0, <2>1, AnsweredStays DEF Before, Key
    <2>6. CASE n \notin DOMAIN saves
      <3>1. q = r
        BY <1>0, <2>1, <2>6
      <3> QED BY <2>2, <2>4, <2>5, <3>1
    <2>7. CASE n \in DOMAIN saves
      <3>1. /\ saves[n] = q
            /\ \A m \in DOMAIN saves : m \in DOMAIN saves' /\ saves'[m] = saves[m]
            /\ Len(saves) + 1 \in DOMAIN saves' /\ Len(saves) + 1 > n /\ saves'[Len(saves) + 1] = r
        BY <1>0, <2>1, <2>7
      <3>2. NewKey(r) # NewKey(q)
        BY <3>1
      <3>3. PICK x \in Range(store[at]) : x = ToRegistration(q)
        BY <1>4, <2>2, <2>7, <3>1
      <3>4. <<x.issuer, x.client>> = Key(q)
        <4>1. request[q].answer.named
          BY <2>7, <3>1 DEF RegInv, SavesInv
        <4> QED BY <3>3, <4>1 DEF ToRegistration, Key
      <3>5. ~SameKey(x, rec)
        BY <1>1, <2>1, <2>5, <2>7, <3>1, <3>2, <3>4 DEF SameKey
      <3> QED BY <1>1, <2>2, <2>4, <2>7, <3>1, <3>3, <3>5
    <2> QED BY <2>6, <2>7
  <1>6. ASSUME ~ \E r \in Requests : Save(r) PROVE ToRegistration(q)' \in Range(store'[StoreOf[w]])
    <2>1. saves' = saves /\ store'[StoreOf[w]] = store[StoreOf[w]]
      BY <1>3, <1>6, NothingSaved
    <2> QED BY <1>1, <1>4, <2>1
  <1> QED BY <1>5, <1>6

-----------------------------------------------------------------------------
(* The theorems.                                                             *)

LEMMA InitRegs ==
  ASSUME Init
  PROVE  RegInv /\ KeptInv /\ LastInv
  <1>1. request \in [Requests -> RequestType] /\ \A r \in Requests : request[r].pc = "idle" /\ request[r].answer = NoAnswer
    <2>1. (CHOOSE w \in Workers : TRUE) \in Workers /\ (CHOOSE d \in Documents : TRUE) \in Documents
      BY ParametersOK
    <2> QED BY <2>1 DEF Init, RequestType, Phases, Waiting
  <1>2. /\ platform \in [Platforms -> SUBSET ClientIds] /\ \A p \in Platforms : platform[p] = {}
        /\ store \in [Stores -> Seq(Records)] /\ \A s \in Stores : store[s] = <<>>
        /\ saves \in Seq(Requests) /\ DOMAIN saves = {} /\ crashes \in 0 .. MaxCrashes
    BY ParametersOK DEF Init
  <1>3. StateInv /\ AnswerInv /\ MadeInv
    BY <1>1, <1>2 DEF StateInv, AnswerInv, MadeInv, Known
  <1>4. StoreInv /\ SavesInv
    BY <1>1, <1>2 DEF StoreInv, OneOfAKey, SavesInv, Known
  <1>5. KeptInv /\ LastInv
    BY <1>2 DEF KeptInv, LastInv
  <1> QED BY <1>3, <1>4, <1>5 DEF RegInv

LEMMA RegAlways == Spec => []RegInv
  <1>1. Init => RegInv
    BY InitRegs
  <1>2. RegInv /\ [Next]_vars => RegInv'
    BY StateStep, AnswerStep, SavesStep DEF RegInv
  <1> QED BY <1>1, <1>2, PTL DEF Spec

LEMMA KeptAlways ==
  ASSUME Durable
  PROVE  Spec => []KeptInv
  <1>1. Init => KeptInv
    BY InitRegs
  <1>2. RegInv /\ KeptInv /\ [Next]_vars => KeptInv'
    BY KeptStep
  <1> QED BY <1>1, <1>2, RegAlways, PTL DEF Spec

LEMMA LastAlways ==
  ASSUME Durable, OneForAll
  PROVE  Spec => []LastInv
  <1>1. Init => LastInv
    BY InitRegs
  <1>2. RegInv /\ LastInv /\ [Next]_vars => LastInv'
    BY LastStep
  <1> QED BY <1>1, <1>2, RegAlways, PTL DEF Spec

\* Type correctness.
THEOREM TypeCorrect == Spec => []TypeOK
  <1>1. RegInv => TypeOK
    <2> SUFFICES ASSUME RegInv PROVE TypeOK
      OBVIOUS
    <2>1. \A s \in Stores : ToSet(store[s]) \subseteq Records
      <3> TAKE s \in Stores
      <3>1. store[s] \in Seq(Records)
        BY DEF RegInv, StateInv
      <3> QED BY <3>1 DEF ToSet
    <2>2. ToSet(saves) \subseteq Requests
      <3>1. saves \in Seq(Requests)
        BY DEF RegInv, StateInv
      <3> QED BY <3>1 DEF ToSet
    <2> QED BY <2>1, <2>2 DEF RegInv, StateInv, TypeOK, RequestType
  <1> QED BY <1>1, RegAlways, PTL

\* The completion page is a promise: with one store that survives the workers, every
\* worker resolves the issuer and client of a completed registration to what the last
\* registration to save under them brought, whichever issuers and endpoints the
\* documents name, whichever clients the answers name, and whoever crashes.
THEOREM CompletionIsAPromise ==
  ASSUME Durable, OneForAll
  PROVE  Spec => []CompletedResolves
  <1>1. RegInv /\ LastInv => CompletedResolves
    <2> SUFFICES ASSUME RegInv, LastInv, NEW r \in Requests, NEW w \in Workers,
                        request[r].pc = "complete"
                 PROVE  \E n \in DOMAIN saves :
                          /\ Key(saves[n]) = Key(r)
                          /\ \A m \in DOMAIN saves : m > n => Key(saves[m]) # Key(r)
                          /\ LET found == Lookup(store[StoreOf[w]], request[r].doc.issuer, request[r].answer.client)
                                 last == request[saves[n]]
                             IN  /\ found # NoRecord /\ found.endpoints = last.doc.endpoints
                                 /\ \A d \in Deployments :
                                      Allows(found, d) <=> last.answer.deployment \in {NoDeployment, d}
      BY DEF CompletedResolves
    <2> DEFINE I == {n \in DOMAIN saves : Key(saves[n]) = Key(r)}
    <2>1. saves \in Seq(Requests) /\ StoreOf[w] \in Stores
      BY ParametersOK DEF RegInv, StateInv
    <2>2. I \subseteq 1 .. Len(saves) /\ Len(saves) \in Nat
      BY <2>1
    <2>3. I # {}
      BY DEF RegInv, SavesInv, Known
    <2> HIDE DEF I
    <2>4. PICK n \in I : \A k \in I : k <= n
      BY <2>2, <2>3, Greatest
    <2>5. n \in DOMAIN saves /\ Key(saves[n]) = Key(r)
      BY <2>4 DEF I
    <2>6. ASSUME NEW m \in DOMAIN saves, m > n PROVE Key(saves[m]) # Key(r)
      <3>1. m \notin I
        BY <2>1, <2>2, <2>4, <2>6
      <3> QED BY <3>1 DEF I
    <2>7. PICK x \in Range(store[StoreOf[w]]) : x = ToRegistration(saves[n])
      BY <2>5, <2>6 DEF LastInv, LastOfItsKey
    <2>8. store[StoreOf[w]] \in Seq(Records) /\ OneOfAKey(store[StoreOf[w]])
      BY <2>1 DEF RegInv, StateInv, StoreInv
    <2>9. Lookup(store[StoreOf[w]], x.issuer, x.client) = x
      BY <2>8, LookupFinds
    <2>10. x \in Records /\ x # NoRecord
      BY <2>8, NoRecordIsNone DEF Range
    <2>11. request[saves[n]].answer.named
      BY <2>5 DEF RegInv, SavesInv
    <2>12. /\ x.issuer = request[r].doc.issuer /\ x.client = request[r].answer.client
           /\ x.endpoints = request[saves[n]].doc.endpoints
           /\ x.deployment = request[saves[n]].answer.deployment
      BY <2>5, <2>7, <2>11 DEF ToRegistration, Key
    <2>13. \A d \in Deployments :
             Allows(x, d) <=> request[saves[n]].answer.deployment \in {NoDeployment, d}
      BY <2>12 DEF Allows
    <2> QED BY <2>5, <2>6, <2>9, <2>10, <2>12, <2>13
  <1> QED BY <1>1, RegAlways, LastAlways, PTL

\* A client that a platform has and no store knows is one of an attempt that is under
\* way or has failed, when stores survive their workers: the tool loses none behind the
\* administrator's back.
THEOREM UnknownHasFailed ==
  ASSUME Durable
  PROVE  Spec => []UnknownOnlyIfFailed
  <1>1. RegInv /\ KeptInv => UnknownOnlyIfFailed
    <2> SUFFICES ASSUME RegInv, KeptInv, NEW p \in Platforms, NEW id \in platform[p]
                 PROVE  \E r \in Requests :
                          /\ request[r].doc.at = p /\ request[r].answer # NoAnswer
                          /\ request[r].answer.client = id
                          /\ \/ request[r].pc \in {"answered", "failed"}
                             \/ \E s \in Stores : Lookup(store[s], request[r].doc.issuer, id) # NoRecord
      BY DEF UnknownOnlyIfFailed
    <2>1. PICK r \in Requests : /\ request[r].doc.at = p /\ request[r].answer # NoAnswer
                                /\ request[r].answer.client = id
      BY DEF RegInv, MadeInv
    <2>2. request[r].pc \in Known \cup {"answered", "failed"}
      <3>1. request[r].pc \notin Before /\ request[r].pc \in Phases
        BY <2>1 DEF RegInv, AnswerInv, StateInv, RequestType
      <3> QED BY <3>1 DEF Before, Known, Phases, Waiting
    <2>3. CASE request[r].pc \in Known
      <3>1. PICK n \in DOMAIN saves : saves[n] = r
        BY <2>3 DEF RegInv, SavesInv
      <3>2. PICK s \in Stores : s = StoreOf[request[r].worker]
        BY ParametersOK DEF RegInv, StateInv, RequestType
      <3>3. PICK x \in Range(store[s]) : <<x.issuer, x.client>> = Key(r)
        BY <3>1, <3>2 DEF KeptInv
      <3>4. store[s] \in Seq(Records) /\ OneOfAKey(store[s])
        BY DEF RegInv, StateInv, StoreInv
      <3>5. Lookup(store[s], x.issuer, x.client) = x
        BY <3>4, LookupFinds
      <3>6. x.issuer = request[r].doc.issuer /\ x.client = id
        BY <2>1, <3>3 DEF Key
      <3>7. x # NoRecord
        BY <3>4, NoRecordIsNone DEF Range
      <3> QED BY <2>1, <3>5, <3>6, <3>7
    <2> QED BY <2>1, <2>2, <2>3
  <1> QED BY <1>1, RegAlways, KeptAlways, PTL

\* A login that names no client goes on being resolved to the client it was first
\* resolved to, when stores survive their workers: a later registration of the issuer
\* comes behind it, and one of the same client takes its place.
THEOREM FirstStaysFirst ==
  ASSUME Durable
  PROVE  Spec => FallbackIsStable
  <1>1. ASSUME RegInv, [Next]_vars, NEW s \in Stores, NEW i \in Issuers,
               Fallback(store[s], i) # NoRecord
        PROVE  /\ Fallback(store'[s], i) # NoRecord
               /\ Fallback(store'[s], i).client = Fallback(store[s], i).client
    <2>1. CASE store'[s] = store[s]
      BY <1>1, <2>1
    <2>2. ASSUME NEW r \in Requests, Save(r), store'[s] # store[s]
          PROVE  /\ Fallback(store'[s], i) # NoRecord
                 /\ Fallback(store'[s], i).client = Fallback(store[s], i).client
      <3>1. PICK rec \in Records : store'[s] = Saved(store[s], rec)
        <4>1. PICK rec \in Records, at \in Stores :
                /\ store'[at] = Saved(store[at], rec)
                /\ \A u \in Stores : u # at => store'[u] = store[u]
          BY <1>1, <2>2, SaveGives
        <4>2. s = at
          BY <2>2, <4>1
        <4> QED BY <4>1, <4>2
      <3>2. store[s] \in Seq(Records) /\ OneOfAKey(store[s])
        BY <1>1 DEF RegInv, StateInv, StoreInv
      <3> DEFINE old == store[s]
                 new == store'[s]
      <3>3. /\ new \in Seq(Records)
            /\ \A k \in DOMAIN old : k \in DOMAIN new /\ SameKey(new[k], old[k])
            /\ \A k \in DOMAIN new \ DOMAIN old : \A j \in DOMAIN old : j < k
        BY <3>1, <3>2, SavedKeeps
      <3>4. PICK m \in DOMAIN old : /\ old[m].issuer = i /\ Fallback(old, i) = old[m]
                                    /\ \A k \in DOMAIN old : old[k].issuer = i => m <= k
        BY <1>1, <3>2, FallbackIsFirst
      <3>5. DOMAIN new \subseteq Nat /\ DOMAIN old \subseteq Nat
        BY <3>2, <3>3
      <3> HIDE DEF old, new
      <3>6. m \in DOMAIN new /\ new[m].issuer = i /\ new[m].client = old[m].client
        BY <3>3, <3>4 DEF SameKey
      <3>7. ASSUME NEW k \in DOMAIN new, new[k].issuer = i PROVE m <= k
        <4>1. CASE k \in DOMAIN old
          BY <3>3, <3>4, <3>7, <4>1 DEF SameKey
        <4>2. CASE k \notin DOMAIN old
          <5>1. m < k
            BY <3>3, <3>4, <4>2
          <5> QED BY <3>5, <3>6, <5>1
        <4> QED BY <4>1, <4>2
      <3>8. Fallback(new, i) = new[m]
        BY <3>3, <3>6, <3>7, FallbackIsFirst
      <3>9. new[m] # NoRecord
        BY <3>3, <3>6, NoRecordIsNone
      <3> QED BY <3>4, <3>6, <3>8, <3>9 DEF old, new
    <2>3. store'[s] # store[s] => \E r \in Requests : Save(r)
      BY <1>1, NothingSaved
    <2> QED BY <2>1, <2>2, <2>3
  <1>2. RegInv /\ [Next]_vars =>
          [\A w \in Workers, i \in Issuers :
             LET before == Fallback(store[StoreOf[w]], i)
             IN  before # NoRecord =>
                   LET after == Fallback(store'[StoreOf[w]], i)
                   IN  after # NoRecord /\ after.client = before.client]_vars
    <2>1. \A w \in Workers : StoreOf[w] \in Stores
      BY ParametersOK
    <2> QED BY <1>1, <2>1
  <1> QED BY <1>2, RegAlways, PTL DEF Spec, FallbackIsStable
=============================================================================
