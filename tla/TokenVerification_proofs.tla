---------------------- MODULE TokenVerification_proofs ----------------------
(***************************************************************************)
(* Proofs about TokenVerification, for any number of launches, keys and    *)
(* sessions, and any lifetimes.                                            *)
(***************************************************************************)
EXTENDS TokenVerification, TLAPS

LEMMA TimeType ==
  /\ 0 \in Times /\ Never \in Nat /\ Never \notin Times
  /\ \A x \in Times : x \in Nat /\ x < Never
  /\ Lifetime \in Nat /\ FetchTime \in Nat
  BY VerificationParametersOK DEF Times, Never, Lifetime

LEMMA KeySetType ==
  /\ NoKeySet \in KeySets
  /\ \A e \in KeySets : /\ e.keys \subseteq Keys /\ e.given \in Times /\ e.exp \in Nat
  /\ \A e \in KeySets : \A x \in Nat : /\ [e EXCEPT !.exp = x] \in KeySets
                                       /\ [e EXCEPT !.exp = x].keys = e.keys
                                       /\ [e EXCEPT !.exp = x].given = e.given
                                       /\ [e EXCEPT !.exp = x].exp = x
  BY TimeType DEF KeySets, NoKeySet

\* The key set a launch finds in the storage.
LEMMA StoredType ==
  ASSUME VerificationTypeOK, NEW l \in Launches
  PROVE  keySets[KeySetName(l)] \in KeySets
  BY DEF VerificationTypeOK, KeySetName

LEMMA InitType == Init => VerificationTypeOK
  <1> SUFFICES ASSUME Init PROVE VerificationTypeOK
    OBVIOUS
  <1>1. 1 \in Keys /\ 0 \in Times
    BY VerificationParametersOK, TimeType DEF Keys
  <1>2. /\ publishedAt \in [Keys -> Times \cup {Never}]
        /\ retiredAt \in [Keys -> Times \cup {Never}]
    BY <1>1 DEF Init
  <1>3. publishedAt[1] = 0 /\ retiredAt[1] = Never /\ 0 # Never
    BY <1>1, TimeType DEF Init
  <1>4. signer \in Published
    BY <1>1, <1>3 DEF Init, Published
  <1>5. AsideOnlyInside
    BY DEF Init, AsideOnlyInside, Fetching
  <1>6. "idle" \in Phases
    BY DEF Phases
  <1> QED BY <1>1, <1>2, <1>4, <1>5, <1>6, KeySetType DEF Init, VerificationTypeOK, Prefixes

\* A rotation keeps the signing key published.
LEMMA RotateType ==
  ASSUME VerificationTypeOK, Rotate
  PROVE  /\ signer' \in Published'
         /\ publishedAt' \in [Keys -> Times \cup {Never}]
         /\ retiredAt' \in [Keys -> Times \cup {Never}]
  <1>1. /\ clock \in Times /\ clock # Never /\ signer \in Keys
        /\ publishedAt \in [Keys -> Times \cup {Never}]
        /\ retiredAt \in [Keys -> Times \cup {Never}]
        /\ publishedAt[signer] # Never /\ retiredAt[signer] = Never
    BY TimeType DEF VerificationTypeOK, Published
  <1>2. CASE Publish
    <2>1. signer + 1 \in Keys /\ signer + 1 # signer
      BY <1>1, <1>2, VerificationParametersOK DEF Publish, Keys
    <2> QED BY <1>1, <1>2, <2>1 DEF Publish, Published
  <1>3. CASE SignWithNext
    BY <1>1, <1>3 DEF SignWithNext, Published
  <1>4. ASSUME NEW k \in Keys, Retire(k)
        PROVE  /\ signer' \in Published'
               /\ publishedAt' \in [Keys -> Times \cup {Never}]
               /\ retiredAt' \in [Keys -> Times \cup {Never}]
    <2>1. k # signer
      BY <1>1, <1>4, VerificationParametersOK DEF Retire, Keys
    <2> QED BY <1>1, <1>4, <2>1 DEF Retire, Published
  <1> QED BY <1>2, <1>3, <1>4 DEF Rotate

\* Rotations and time leave the launches alone.
LEMMA EnvironmentType ==
  ASSUME VerificationTypeOK, Rotate \/ Tick
  PROVE  VerificationTypeOK'
  <1>1. AsideOnlyInside'
    BY DEF VerificationTypeOK, AsideOnlyInside, Rotate, Tick
  <1>2. CASE Rotate
    BY <1>1, <1>2, RotateType DEF VerificationTypeOK, Rotate
  <1>3. CASE Tick
    <2>1. clock' \in Times
      BY <1>3, VerificationParametersOK DEF Tick, VerificationTypeOK, Times
    <2>2. signer' \in Published'
      BY <1>3 DEF Tick, VerificationTypeOK, Published, platformVars
    <2> QED BY <1>1, <1>3, <2>1, <2>2 DEF Tick, VerificationTypeOK, platformVars
  <1> QED BY <1>2, <1>3

\* DisableSessionId, entered and left.
LEMMA AsideType ==
  ASSUME VerificationTypeOK, NEW l \in Launches
  PROVE  /\ PutAside(l) => sid' \in [Launches -> Prefixes] /\ aside' \in [Launches -> Prefixes]
         /\ PutBack(l) => sid' \in [Launches -> Prefixes] /\ aside' \in [Launches -> Prefixes]
  BY DEF VerificationTypeOK, PutAside, PutBack, Prefixes

LEMMA AsideSteps ==
  ASSUME VerificationTypeOK, NEW l \in Launches
  PROVE  /\ Arrive(l) \/ Again(l) \/ Enter(l) \/ UseStored(l) \/ AskForKeys(l) => AsideOnlyInside'
         /\ PlatformAnswers(l) \/ Receive(l) \/ FetchFails(l) => AsideOnlyInside'
         /\ MissKey(l) \/ CheckSignature(l) \/ ValidateMessage(l) => AsideOnlyInside'
  <1>1. /\ pc \in [Launches -> Phases] /\ AsideOnlyInside
        /\ sid \in [Launches -> Prefixes] /\ aside \in [Launches -> Prefixes]
    BY DEF VerificationTypeOK
  <1>2. SidOf \in [Launches -> Prefixes]
    BY VerificationParametersOK DEF Prefixes
  <1>3. Arrive(l) => AsideOnlyInside'
    BY <1>1, <1>2 DEF Arrive, AsideOnlyInside, Fetching, Ended
  <1>4. Again(l) => AsideOnlyInside'
    BY <1>1 DEF Again, AsideOnlyInside, Fetching
  <1>5. Enter(l) => AsideOnlyInside'
    BY <1>1 DEF Enter, PutAside, AsideOnlyInside, Fetching
  <1>6. UseStored(l) => AsideOnlyInside'
    BY <1>1, <1>2 DEF UseStored, PutBack, AsideOnlyInside, Fetching
  <1>7. AskForKeys(l) \/ PlatformAnswers(l) => AsideOnlyInside'
    BY <1>1 DEF AskForKeys, PlatformAnswers, AsideOnlyInside, Fetching
  <1>8. Receive(l) => AsideOnlyInside'
    BY <1>1, <1>2 DEF Receive, PutBack, AsideOnlyInside, Fetching
  <1>9. FetchFails(l) => AsideOnlyInside'
    BY <1>1, <1>2 DEF FetchFails, PutBack, AsideOnlyInside, Fetching
  <1>10. MissKey(l) \/ CheckSignature(l) \/ ValidateMessage(l) => AsideOnlyInside'
    BY <1>1 DEF MissKey, CheckSignature, ValidateMessage, AsideOnlyInside, Fetching
  <1> QED BY <1>3, <1>4, <1>5, <1>6, <1>7, <1>8, <1>9, <1>10

LEMMA NextType == VerificationTypeOK /\ [Next]_vars => VerificationTypeOK'
  <1> SUFFICES ASSUME VerificationTypeOK, [Next]_vars PROVE VerificationTypeOK'
    OBVIOUS
  <1>0. \A ph \in {"new", "inside", "have", "verified", "accepted", "rejected", "failed",
                   "nokey", "fetching", "answered"} : ph \in Phases
    BY DEF Phases, Fetching
  <1>1. CASE Rotate \/ Tick
    BY <1>1, EnvironmentType
  <1>2. ASSUME NEW l \in Launches, Arrive(l) PROVE VerificationTypeOK'
    <2>1. ASSUME NEW k \in 1 .. signer PROVE k \in Keys
      BY VerificationParametersOK DEF VerificationTypeOK, Published, Keys
    <2>2. kid' \in [Launches -> Keys]
      BY <1>2, <2>1 DEF Arrive, VerificationTypeOK
    <2>3. sid' \in [Launches -> Prefixes]
      BY <1>2, VerificationParametersOK DEF Arrive, VerificationTypeOK, Prefixes
    <2> QED BY <1>0, <1>2, <2>2, <2>3, AsideSteps DEF Arrive, VerificationTypeOK, platformVars, Published
  <1>3. ASSUME NEW l \in Launches, Again(l) PROVE VerificationTypeOK'
    BY <1>0, <1>3, AsideSteps DEF Again, VerificationTypeOK, platformVars, Published
  <1>4. ASSUME NEW l \in Launches, Enter(l) PROVE VerificationTypeOK'
    BY <1>0, <1>4, AsideSteps, AsideType, KeySetType, TimeType
       DEF Enter, VerificationTypeOK, platformVars, Published
  <1>5. ASSUME NEW l \in Launches, UseStored(l) PROVE VerificationTypeOK'
    <2>1. [keySets[KeySetName(l)] EXCEPT !.exp = 0] \in KeySets
      BY StoredType, KeySetType
    <2> QED BY <1>0, <1>5, <2>1, AsideSteps, AsideType
            DEF UseStored, VerificationTypeOK, platformVars, Published
  <1>6. ASSUME NEW l \in Launches, AskForKeys(l) PROVE VerificationTypeOK'
    BY <1>0, <1>6, AsideSteps DEF AskForKeys, VerificationTypeOK, platformVars, Published
  <1>7. ASSUME NEW l \in Launches, PlatformAnswers(l) PROVE VerificationTypeOK'
    <2>1. held' \in [Launches -> KeySets]
      <3>1. PICK a \in {[json |-> "filled", keys |-> Published], [json |-> "filled", keys |-> {}],
                        [json |-> "empty", keys |-> {}]} :
              held' = [held EXCEPT ![l] = [json |-> a.json, keys |-> a.keys, given |-> clock, exp |-> 0]]
        BY <1>7 DEF PlatformAnswers
      <3>2. Published \subseteq Keys /\ clock \in Times /\ 0 \in Nat
        BY DEF Published, VerificationTypeOK
      <3>3. /\ a.json \in {"empty", "filled"} /\ a.keys \in {Published, {}}
            /\ a.keys # {} => a.json = "filled"
        OBVIOUS
      <3>4. [json |-> a.json, keys |-> a.keys, given |-> clock, exp |-> 0] \in KeySets
        BY <3>2, <3>3 DEF KeySets
      <3> QED BY <3>1, <3>4 DEF VerificationTypeOK
    <2> QED BY <1>0, <1>7, <2>1, AsideSteps
            DEF PlatformAnswers, VerificationTypeOK, platformVars, Published
  <1>8. ASSUME NEW l \in Launches, Receive(l) PROVE VerificationTypeOK'
    <2>1. clock + Lifetime \in Nat /\ held[l] \in KeySets
      BY TimeType DEF VerificationTypeOK
    <2>2. [held[l] EXCEPT !.exp = clock + Lifetime] \in KeySets
      BY <2>1, KeySetType
    <2> QED BY <1>0, <1>8, <2>2, AsideSteps, AsideType, TimeType
            DEF Receive, VerificationTypeOK, platformVars, Published
  <1>9. ASSUME NEW l \in Launches, FetchFails(l) PROVE VerificationTypeOK'
    BY <1>0, <1>9, AsideSteps, AsideType, KeySetType, TimeType
       DEF FetchFails, VerificationTypeOK, platformVars, Published
  <1>10. ASSUME NEW l \in Launches, MissKey(l) PROVE VerificationTypeOK'
    BY <1>0, <1>10, AsideSteps DEF MissKey, VerificationTypeOK, platformVars, Published
  <1>11. ASSUME NEW l \in Launches, CheckSignature(l) PROVE VerificationTypeOK'
    <2>1. pc' \in [Launches -> Phases] /\ heldAt' \in [Launches -> Times]
      BY <1>0, <1>11, TimeType DEF CheckSignature, VerificationTypeOK
    <2>2. held' \in [Launches -> KeySets]
      BY <1>11, KeySetType DEF CheckSignature, VerificationTypeOK
    <2> QED BY <1>11, <2>1, <2>2, AsideSteps
            DEF CheckSignature, VerificationTypeOK, platformVars, Published
  <1>12. ASSUME NEW l \in Launches, ValidateMessage(l) PROVE VerificationTypeOK'
    <2>1. PICK m \in Inputs :
            lacks' = lacks \/ (Passes(m) /\ lacks' = [lacks EXCEPT ![l] = Used[m.type] \ m.has])
      BY <1>12 DEF ValidateMessage
    <2>2. lacks' \in [Launches -> SUBSET Claims]
      <3>1. Passes(m) => Used[m.type] \subseteq Claims
        <4>1. \A t \in Types : Used[t] \subseteq Claims
          <5>1. /\ Used["resource"] \subseteq Claims /\ Used["deep"] \subseteq Claims
                /\ Used["privacy"] \subseteq Claims /\ Used["review"] \subseteq Claims
            BY DEF Used, Claims
          <5> QED BY <5>1 DEF Types
        <4> QED BY <4>1 DEF Passes
      <3>2. lacks \in [Launches -> SUBSET Claims]
        BY DEF VerificationTypeOK
      <3>3. Passes(m) => Used[m.type] \ m.has \in SUBSET Claims
        BY <3>1
      <3> QED BY <2>1, <3>2, <3>3
    <2>3. saved' \subseteq Prefixes \X Launches
      BY <1>12 DEF ValidateMessage, KeySetName, VerificationTypeOK
    <2>4. heldAt' \in [Launches -> Times] /\ pc' \in [Launches -> Phases]
      BY <1>0, <1>12, TimeType DEF ValidateMessage, VerificationTypeOK
    <2> QED BY <1>12, <2>2, <2>3, <2>4, AsideSteps
            DEF ValidateMessage, VerificationTypeOK, platformVars, Published
  <1>13. CASE UNCHANGED vars
    BY <1>13 DEF vars, platformVars, VerificationTypeOK, AsideOnlyInside, Published
  <1> QED BY <1>1, <1>2, <1>3, <1>4, <1>5, <1>6, <1>7, <1>8, <1>9, <1>10, <1>11, <1>12, <1>13
          DEF Next, LaunchStep

\* Every state is well typed, and the session id of a launch's storage object is put
\* aside while the key set is looked up and there otherwise.
THEOREM VerificationTypeCorrect == VerificationSpec => []VerificationTypeOK
  <1> QED BY InitType, NextType, PTL DEF VerificationSpec

-----------------------------------------------------------------------------
(* The inductive invariant of the key sets.                                  *)

\* What was recorded lies in the past.
Past ==
  /\ \A k \in Keys : /\ publishedAt[k] # Never => publishedAt[k] <= clock
                     /\ retiredAt[k] # Never => retiredAt[k] <= clock
  /\ \A p \in Prefixes : keySets[p].given <= clock
  /\ \A l \in Launches : held[l].given <= clock /\ heldAt[l] <= clock /\ sentAt[l] <= clock

\* A key set holds the keys that were published when the platform gave it, all of
\* them, or none.
TrueOnce(e) ==
  /\ \A k \in e.keys : publishedAt[k] <= e.given /\ e.given <= retiredAt[k]
  /\ \/ e.keys = {}
     \/ \A k \in Keys \ e.keys : e.given <= publishedAt[k] \/ retiredAt[k] <= e.given

SetsTrueOnce ==
  /\ \A p \in Prefixes : TrueOnce(keySets[p])
  /\ \A l \in Launches : TrueOnce(held[l])

\* What is stored expires soon after the platform gave it.
StoredExpires == \A p \in Prefixes : keySets[p].exp <= keySets[p].given + CacheLifetime + FetchTime

\* Requests are not open for longer than FetchTime, and are answered meanwhile.
OpenBriefly ==
  \A l \in Launches : /\ pc[l] \in Fetching => clock <= sentAt[l] + FetchTime
                      /\ pc[l] = "answered" => sentAt[l] <= held[l].given

\* What a launch has in hand, or was accepted by, was not old when it got it.
HeldIsFresh ==
  \A l \in Launches :
    /\ pc[l] \in {"have", "nokey"} => heldAt[l] < held[l].given + CacheLifetime + FetchTime
    /\ pc[l] = "nokey" => kid[l] \notin held[l].keys
    /\ pc[l] \in {"verified", "accepted"} =>
         heldAt[l] < retiredAt[kid[l]] + CacheLifetime + FetchTime

KeysInv == Past /\ SetsTrueOnce /\ StoredExpires /\ OpenBriefly /\ HeldIsFresh

LEMMA Numbers ==
  ASSUME VerificationTypeOK
  PROVE  /\ clock \in Nat /\ Never \in Nat /\ clock < Never
         /\ CacheLifetime \in Nat /\ CacheLifetime > 0 /\ FetchTime \in Nat
         /\ \A k \in Keys : publishedAt[k] \in Nat /\ retiredAt[k] \in Nat
         /\ \A p \in Prefixes : /\ keySets[p].keys \subseteq Keys
                                /\ keySets[p].given \in Nat /\ keySets[p].exp \in Nat
         /\ \A l \in Launches : /\ held[l].keys \subseteq Keys /\ held[l].given \in Nat
                                /\ heldAt[l] \in Nat /\ sentAt[l] \in Nat /\ kid[l] \in Keys
                                /\ KeySetName(l) \in Prefixes
  <1>1. \A x \in Times : x \in Nat /\ x < Never
    BY TimeType
  <1>2. \A k \in Keys : publishedAt[k] \in Nat /\ retiredAt[k] \in Nat
    BY <1>1, TimeType DEF VerificationTypeOK
  <1>3. \A p \in Prefixes : keySets[p] \in KeySets
    BY DEF VerificationTypeOK
  <1>4. \A l \in Launches : held[l] \in KeySets
    BY DEF VerificationTypeOK
  <1>5. \A l \in Launches : heldAt[l] \in Times /\ sentAt[l] \in Times /\ kid[l] \in Keys
    BY DEF VerificationTypeOK
  <1>6. \A l \in Launches : KeySetName(l) \in Prefixes
    BY DEF VerificationTypeOK, KeySetName
  <1>7. clock \in Times
    BY DEF VerificationTypeOK
  <1> QED BY <1>1, <1>2, <1>3, <1>4, <1>5, <1>6, <1>7, KeySetType, TimeType,
             VerificationParametersOK

LEMMA InitKeys == Init => KeysInv
  <1> SUFFICES ASSUME Init PROVE KeysInv
    OBVIOUS
  <1>0. VerificationTypeOK
    BY InitType
  <1>1. NoKeySet.keys = {} /\ NoKeySet.given = 0 /\ NoKeySet.exp = 0
    BY DEF NoKeySet
  <1>2. Past
    BY <1>0, <1>1, Numbers DEF Init, Past
  <1>3. SetsTrueOnce
    BY <1>1 DEF Init, SetsTrueOnce, TrueOnce
  <1>4. StoredExpires
    BY <1>0, <1>1, Numbers DEF Init, StoredExpires
  <1>5. OpenBriefly /\ HeldIsFresh
    BY DEF Init, OpenBriefly, HeldIsFresh, Fetching
  <1> QED BY <1>2, <1>3, <1>4, <1>5 DEF KeysInv

\* What a launch does to its own key set, in a step of its own: the one it has, the
\* stored one, what the platform publishes, or none.
LEMMA HeldStep ==
  ASSUME VerificationTypeOK, NEW l \in Launches, LaunchStep(l)
  PROVE  /\ clock' = clock /\ publishedAt' = publishedAt /\ retiredAt' = retiredAt
         /\ \A m \in Launches \ {l} : /\ held'[m] = held[m] /\ heldAt'[m] = heldAt[m]
                                      /\ sentAt'[m] = sentAt[m] /\ kid'[m] = kid[m]
                                      /\ pc'[m] = pc[m]
         /\ \/ held'[l].keys = held[l].keys /\ held'[l].given = held[l].given
            \/ held'[l].keys = {} /\ held'[l].given = 0
            \/ held'[l].keys \in {Published, {}} /\ held'[l].given = clock
            \/ /\ held'[l].keys = keySets[KeySetName(l)].keys
               /\ held'[l].given = keySets[KeySetName(l)].given
         /\ heldAt'[l] \in {heldAt[l], clock, 0} /\ sentAt'[l] \in {sentAt[l], clock, 0}
         /\ \A p \in Prefixes :
              \/ keySets'[p] = keySets[p]
              \/ /\ pc[l] = "answered" /\ keySets'[p].keys = held[l].keys
                 /\ keySets'[p].given = held[l].given /\ keySets'[p].exp = clock + Lifetime
  <1>0. /\ NoKeySet.keys = {} /\ NoKeySet.given = 0
        /\ held \in [Launches -> KeySets] /\ heldAt \in [Launches -> Times]
        /\ sentAt \in [Launches -> Times] /\ kid \in [Launches -> Keys] /\ pc \in [Launches -> Phases]
    BY DEF NoKeySet, VerificationTypeOK
  <1>1. CASE Arrive(l)
    BY <1>0, <1>1 DEF Arrive, platformVars
  <1>2. CASE Again(l)
    BY <1>0, <1>2 DEF Again, platformVars
  <1>3. CASE Enter(l)
    BY <1>0, <1>3 DEF Enter, platformVars
  <1>4. CASE UseStored(l)
    <2>1. held'[l] = [keySets[KeySetName(l)] EXCEPT !.exp = 0]
      BY <1>0, <1>4 DEF UseStored
    <2>2. /\ held'[l].keys = keySets[KeySetName(l)].keys
          /\ held'[l].given = keySets[KeySetName(l)].given
      BY <2>1, StoredType, KeySetType
    <2> QED BY <1>0, <1>4, <2>2 DEF UseStored, platformVars
  <1>5. CASE AskForKeys(l)
    BY <1>0, <1>5 DEF AskForKeys, platformVars
  <1>6. CASE PlatformAnswers(l)
    BY <1>0, <1>6 DEF PlatformAnswers, platformVars
  <1>7. CASE Receive(l)
    <2>1. keySets \in [Prefixes -> KeySets] /\ held[l] \in KeySets /\ clock + Lifetime \in Nat
      BY Numbers, TimeType DEF VerificationTypeOK
    <2>2. ASSUME NEW p \in Prefixes
          PROVE  \/ keySets'[p] = keySets[p]
                 \/ /\ pc[l] = "answered" /\ keySets'[p].keys = held[l].keys
                    /\ keySets'[p].given = held[l].given /\ keySets'[p].exp = clock + Lifetime
      <3>1. keySets'[p] \in {keySets[p], [held[l] EXCEPT !.exp = clock + Lifetime]}
        BY <1>7, <2>1 DEF Receive
      <3> QED BY <1>7, <2>1, <3>1, KeySetType DEF Receive
    <2> QED BY <1>0, <1>7, <2>2 DEF Receive, platformVars
  <1>8. CASE FetchFails(l)
    BY <1>0, <1>8 DEF FetchFails, platformVars
  <1>9. CASE MissKey(l)
    BY <1>0, <1>9 DEF MissKey, platformVars
  <1>10. CASE CheckSignature(l)
    BY <1>0, <1>10 DEF CheckSignature, platformVars
  <1>11. CASE ValidateMessage(l)
    BY <1>0, <1>11 DEF ValidateMessage, platformVars
  <1> QED BY <1>1, <1>2, <1>3, <1>4, <1>5, <1>6, <1>7, <1>8, <1>9, <1>10, <1>11 DEF LaunchStep

LEMMA PastStep ==
  ASSUME VerificationTypeOK, Past, [Next]_vars
  PROVE  Past'
  <1>1. ASSUME NEW l \in Launches, LaunchStep(l) PROVE Past'
    <2>1. \A k \in Keys : /\ publishedAt'[k] # Never => publishedAt'[k] <= clock'
                          /\ retiredAt'[k] # Never => retiredAt'[k] <= clock'
      BY <1>1, HeldStep DEF Past
    <2>2. ASSUME NEW p \in Prefixes PROVE keySets'[p].given <= clock'
      <3>1. keySets'[p].given \in {keySets[p].given, held[l].given} /\ clock' = clock
        BY <1>1, HeldStep
      <3> QED BY <3>1 DEF Past
    <2>3. ASSUME NEW m \in Launches
          PROVE  held'[m].given <= clock' /\ heldAt'[m] <= clock' /\ sentAt'[m] <= clock'
      <3>1. CASE m = l
        BY <1>1, <3>1, HeldStep, Numbers DEF Past
      <3>2. CASE m # l
        BY <1>1, <3>2, HeldStep DEF Past
      <3> QED BY <3>1, <3>2
    <2>4. \A p \in Prefixes : keySets'[p].given <= clock'
      BY <2>2
    <2>5. \A m \in Launches : held'[m].given <= clock' /\ heldAt'[m] <= clock' /\ sentAt'[m] <= clock'
      BY <2>3
    <2> QED BY <2>1, <2>4, <2>5 DEF Past
  <1>2. CASE Rotate
    <2>1. ASSUME NEW k \in Keys
          PROVE  publishedAt'[k] \in {publishedAt[k], clock} /\ retiredAt'[k] \in {retiredAt[k], clock}
      BY <1>2 DEF Rotate, Publish, SignWithNext, Retire, VerificationTypeOK
    <2> QED BY <1>2, <2>1, Numbers DEF Past, Rotate
  <1>3. CASE Tick
    BY <1>3, Numbers DEF Past, Tick, platformVars
  <1>4. CASE UNCHANGED vars
    BY <1>4 DEF Past, vars, platformVars
  <1> QED BY <1>1, <1>2, <1>3, <1>4 DEF Next

\* A rotation comes after every key set that was given before.
LEMMA RotationKeepsTruth ==
  ASSUME VerificationTypeOK, Past, Rotate, NEW e \in KeySets, e.given <= clock, TrueOnce(e)
  PROVE  /\ \A k \in e.keys : publishedAt'[k] <= e.given /\ e.given <= retiredAt'[k]
         /\ \/ e.keys = {}
            \/ \A k \in Keys \ e.keys : e.given <= publishedAt'[k] \/ retiredAt'[k] <= e.given
  <1>1. e.keys \subseteq Keys /\ e.given \in Nat
    BY KeySetType, TimeType
  <1>2. ASSUME NEW k \in Keys
        PROVE  /\ publishedAt'[k] = publishedAt[k] \/ (publishedAt'[k] = clock /\ publishedAt[k] = Never)
               /\ retiredAt'[k] = retiredAt[k] \/ (retiredAt'[k] = clock /\ retiredAt[k] = Never)
    BY DEF Rotate, Publish, SignWithNext, Retire, Published, VerificationTypeOK
  <1>3. ASSUME NEW k \in e.keys PROVE publishedAt'[k] <= e.given /\ e.given <= retiredAt'[k]
    BY <1>1, <1>2, Numbers DEF TrueOnce
  <1>4. ASSUME NEW k \in Keys \ e.keys, e.given <= publishedAt[k] \/ retiredAt[k] <= e.given
        PROVE  e.given <= publishedAt'[k] \/ retiredAt'[k] <= e.given
    BY <1>1, <1>2, <1>4, Numbers
  <1> QED BY <1>3, <1>4 DEF TrueOnce

LEMMA TrueStep ==
  ASSUME VerificationTypeOK, Past, SetsTrueOnce, [Next]_vars
  PROVE  SetsTrueOnce'
  <1>0. held \in [Launches -> KeySets] /\ keySets \in [Prefixes -> KeySets]
    BY DEF VerificationTypeOK
  <1>1. ASSUME NEW l \in Launches, LaunchStep(l) PROVE SetsTrueOnce'
    <2>1. publishedAt' = publishedAt /\ retiredAt' = retiredAt
      BY <1>1, HeldStep
    <2>2. ASSUME NEW p \in Prefixes PROVE TrueOnce(keySets[p])'
      <3>1. \/ keySets'[p] = keySets[p]
            \/ keySets'[p].keys = held[l].keys /\ keySets'[p].given = held[l].given
        BY <1>1, HeldStep
      <3> QED BY <2>1, <3>1 DEF SetsTrueOnce, TrueOnce
    <2>3. ASSUME NEW m \in Launches PROVE TrueOnce(held[m])'
      <3>1. CASE m # l
        BY <1>1, <2>1, <3>1, HeldStep DEF SetsTrueOnce, TrueOnce
      <3>2. CASE /\ m = l
                 /\ held'[l].keys \in {held[l].keys, keySets[KeySetName(l)].keys}
                 /\ \/ held'[l].keys = held[l].keys /\ held'[l].given = held[l].given
                    \/ /\ held'[l].keys = keySets[KeySetName(l)].keys
                       /\ held'[l].given = keySets[KeySetName(l)].given
        BY <2>1, <3>2, Numbers DEF SetsTrueOnce, TrueOnce
      <3>3. CASE m = l /\ held'[l].keys = {}
        BY <3>3 DEF TrueOnce
      <3>4. CASE m = l /\ held'[l].keys = Published /\ held'[l].given = clock
        BY <2>1, <3>4, Numbers DEF TrueOnce, Published, Past
      <3> QED BY <1>1, <3>1, <3>2, <3>3, <3>4, HeldStep
    <2> QED BY <2>2, <2>3 DEF SetsTrueOnce
  <1>2. CASE Rotate
    <2>1. keySets' = keySets /\ held' = held
      BY <1>2 DEF Rotate
    <2> QED BY <1>0, <1>2, <2>1, RotationKeepsTruth DEF SetsTrueOnce, TrueOnce, Past
  <1>3. CASE Tick
    BY <1>3 DEF SetsTrueOnce, TrueOnce, Tick, platformVars
  <1>4. CASE UNCHANGED vars
    BY <1>4 DEF SetsTrueOnce, TrueOnce, vars, platformVars
  <1> QED BY <1>1, <1>2, <1>3, <1>4 DEF Next

LEMMA StoredStep ==
  ASSUME VerificationTypeOK, StoredExpires, OpenBriefly, [Next]_vars
  PROVE  StoredExpires'
  <1>1. ASSUME NEW l \in Launches, LaunchStep(l), NEW p \in Prefixes
        PROVE  keySets'[p].exp <= keySets'[p].given + CacheLifetime + FetchTime
    <2>1. CASE keySets'[p] = keySets[p]
      BY <2>1 DEF StoredExpires
    <2>2. CASE /\ pc[l] = "answered" /\ keySets'[p].given = held[l].given
               /\ keySets'[p].exp = clock + Lifetime
      <3>1. clock <= sentAt[l] + FetchTime /\ sentAt[l] <= held[l].given
        BY <2>2 DEF OpenBriefly, Fetching
      <3> QED BY <2>2, <3>1, Numbers DEF Lifetime
    <2> QED BY <1>1, <2>1, <2>2, HeldStep
  <1>2. CASE Rotate \/ Tick \/ UNCHANGED vars
    BY <1>2 DEF StoredExpires, Rotate, Tick, vars
  <1> QED BY <1>1, <1>2 DEF Next, StoredExpires

LEMMA OpenStep ==
  ASSUME VerificationTypeOK, Past, OpenBriefly, [Next]_vars
  PROVE  OpenBriefly'
  <1>0. /\ pc \in [Launches -> Phases] /\ sentAt \in [Launches -> Times]
        /\ held \in [Launches -> KeySets]
    BY DEF VerificationTypeOK
  <1>1. ASSUME NEW l \in Launches, LaunchStep(l), NEW m \in Launches \ {l}
        PROVE  /\ pc'[m] \in Fetching => clock' <= sentAt'[m] + FetchTime
               /\ pc'[m] = "answered" => sentAt'[m] <= held'[m].given
    BY <1>1, HeldStep DEF OpenBriefly
  <1>2. ASSUME NEW l \in Launches, LaunchStep(l)
        PROVE  /\ pc'[l] \in Fetching => clock' <= sentAt'[l] + FetchTime
               /\ pc'[l] = "answered" => sentAt'[l] <= held'[l].given
    <2>1. CASE AskForKeys(l)
      <3>1. pc'[l] = "fetching" /\ sentAt'[l] = clock /\ clock' = clock
        BY <1>0, <2>1 DEF AskForKeys
      <3> QED BY <3>1, Numbers
    <2>2. CASE PlatformAnswers(l)
      <3>1. /\ pc[l] \in Fetching /\ sentAt' = sentAt /\ clock' = clock
            /\ held'[l].given = clock
        BY <1>0, <2>2 DEF PlatformAnswers, Fetching
      <3> QED BY <3>1 DEF OpenBriefly, Past
    <2>3. CASE ~AskForKeys(l) /\ ~PlatformAnswers(l)
      <3>1. pc'[l] \notin Fetching
        <4>1. CASE Arrive(l) \/ Again(l) \/ Enter(l) \/ UseStored(l)
          BY <1>0, <4>1 DEF Arrive, Again, Enter, UseStored, Fetching
        <4>2. CASE Receive(l) \/ FetchFails(l) \/ MissKey(l)
          BY <1>0, <4>2 DEF Receive, FetchFails, MissKey, Fetching
        <4>3. CASE CheckSignature(l) \/ ValidateMessage(l)
          BY <1>0, <4>3 DEF CheckSignature, ValidateMessage, Fetching
        <4> QED BY <1>2, <2>3, <4>1, <4>2, <4>3 DEF LaunchStep
      <3> QED BY <3>1 DEF Fetching
    <2> QED BY <2>1, <2>2, <2>3
  <1>3. ASSUME NEW l \in Launches, LaunchStep(l) PROVE OpenBriefly'
    BY <1>1, <1>2, <1>3 DEF OpenBriefly
  <1>4. CASE Tick
    BY <1>4, Numbers DEF OpenBriefly, Tick
  <1>5. CASE Rotate \/ UNCHANGED vars
    BY <1>5 DEF OpenBriefly, Rotate, vars
  <1> QED BY <1>3, <1>4, <1>5 DEF Next

\* What HeldIsFresh says of one launch.
Fresh(l) ==
  /\ pc[l] \in {"have", "nokey"} => heldAt[l] < held[l].given + CacheLifetime + FetchTime
  /\ pc[l] = "nokey" => kid[l] \notin held[l].keys
  /\ pc[l] \in {"verified", "accepted"} =>
       heldAt[l] < retiredAt[kid[l]] + CacheLifetime + FetchTime

\* The step of the launch itself.
LEMMA FreshOwnStep ==
  ASSUME VerificationTypeOK, KeysInv, NEW l \in Launches, LaunchStep(l)
  PROVE  Fresh(l)'
  <1>0. /\ pc \in [Launches -> Phases] /\ heldAt \in [Launches -> Times]
        /\ held \in [Launches -> KeySets] /\ kid \in [Launches -> Keys]
    BY DEF VerificationTypeOK
  <1>1. CASE Arrive(l) \/ Again(l) \/ Enter(l)
    BY <1>0, <1>1 DEF Arrive, Again, Enter, Fresh
  <1>2. CASE AskForKeys(l) \/ PlatformAnswers(l) \/ FetchFails(l)
    BY <1>0, <1>2 DEF AskForKeys, PlatformAnswers, FetchFails, Fresh
  <1>3. CASE UseStored(l)
    <2>1. pc'[l] = "have" /\ heldAt'[l] = clock /\ clock < keySets[KeySetName(l)].exp
      BY <1>0, <1>3 DEF UseStored, Usable, Live
    <2>2. held'[l].given = keySets[KeySetName(l)].given
      <3>1. held'[l] = [keySets[KeySetName(l)] EXCEPT !.exp = 0]
        BY <1>0, <1>3 DEF UseStored
      <3> QED BY <3>1, StoredType, KeySetType
    <2>3. keySets[KeySetName(l)].exp <= keySets[KeySetName(l)].given + CacheLifetime + FetchTime
      BY Numbers DEF KeysInv, StoredExpires
    <2>4. heldAt'[l] < held'[l].given + CacheLifetime + FetchTime
      BY <2>1, <2>2, <2>3, Numbers
    <2> QED BY <2>1, <2>4 DEF Fresh
  <1>4. CASE Receive(l)
    <2>1. pc[l] = "answered" /\ pc'[l] = "have" /\ heldAt'[l] = clock /\ held' = held
      BY <1>0, <1>4 DEF Receive
    <2>2. clock <= sentAt[l] + FetchTime /\ sentAt[l] <= held[l].given
      BY <2>1 DEF KeysInv, OpenBriefly, Fetching
    <2>3. heldAt'[l] < held'[l].given + CacheLifetime + FetchTime
      BY <2>1, <2>2, Numbers
    <2> QED BY <2>1, <2>3 DEF Fresh
  <1>5. CASE MissKey(l)
    BY <1>0, <1>5 DEF MissKey, Fresh, KeysInv, HeldIsFresh
  <1>6. CASE CheckSignature(l)
    <2>1. CASE pc'[l] = "failed"
      BY <2>1 DEF Fresh
    <2>2. CASE pc'[l] = "verified" /\ heldAt' = heldAt
      <3>1. /\ pc[l] = "have" /\ kid[l] \in held[l].keys /\ kid' = kid /\ retiredAt' = retiredAt
        BY <1>6 DEF CheckSignature, platformVars
      <3>2. held[l].given <= retiredAt[kid[l]]
        BY <3>1 DEF KeysInv, SetsTrueOnce, TrueOnce
      <3>3. heldAt[l] < held[l].given + CacheLifetime + FetchTime
        BY <3>1 DEF KeysInv, HeldIsFresh
      <3>4. heldAt'[l] < retiredAt'[kid'[l]] + CacheLifetime + FetchTime
        BY <2>2, <3>1, <3>2, <3>3, Numbers
      <3> QED BY <2>2, <3>4 DEF Fresh
    <2> QED BY <1>0, <1>6, <2>1, <2>2 DEF CheckSignature
  <1>7. CASE ValidateMessage(l)
    <2>1. CASE pc'[l] = "rejected"
      BY <2>1 DEF Fresh
    <2>2. CASE pc'[l] = "accepted" /\ heldAt' = heldAt
      <3>1. pc[l] = "verified" /\ kid' = kid /\ retiredAt' = retiredAt
        BY <1>7 DEF ValidateMessage, platformVars
      <3> QED BY <2>2, <3>1 DEF Fresh, KeysInv, HeldIsFresh
    <2> QED BY <1>0, <1>7, <2>1, <2>2 DEF ValidateMessage
  <1> QED BY <1>1, <1>2, <1>3, <1>4, <1>5, <1>6, <1>7 DEF LaunchStep

LEMMA FreshStep ==
  ASSUME VerificationTypeOK, KeysInv, [Next]_vars
  PROVE  HeldIsFresh'
  <1>0. \A l \in Launches : Fresh(l)
    BY DEF KeysInv, HeldIsFresh, Fresh
  <1>1. ASSUME NEW l \in Launches, LaunchStep(l), NEW m \in Launches \ {l} PROVE Fresh(m)'
    BY <1>0, <1>1, HeldStep DEF Fresh
  <1>2. ASSUME NEW l \in Launches, LaunchStep(l) PROVE HeldIsFresh'
    <2>1. \A m \in Launches : Fresh(m)'
      BY <1>1, <1>2, FreshOwnStep
    <2> QED BY <2>1 DEF HeldIsFresh, Fresh
  <1>3. CASE Rotate
    <2>1. ASSUME NEW k \in Keys PROVE retiredAt'[k] \in {retiredAt[k], clock}
      BY <1>3 DEF Rotate, Publish, SignWithNext, Retire, VerificationTypeOK
    <2>2. pc' = pc /\ heldAt' = heldAt /\ held' = held /\ kid' = kid
      BY <1>3 DEF Rotate
    <2>3. ASSUME NEW l \in Launches PROVE Fresh(l)'
      <3>1. heldAt[l] <= clock /\ kid[l] \in Keys
        BY Numbers DEF KeysInv, Past
      <3>2. heldAt[l] < clock + CacheLifetime + FetchTime
        BY <3>1, Numbers
      <3> QED BY <1>0, <2>1, <2>2, <3>1, <3>2 DEF Fresh
    <2>4. \A l \in Launches : Fresh(l)'
      BY <2>3
    <2> QED BY <2>4 DEF HeldIsFresh, Fresh
  <1>4. CASE Tick
    BY <1>4 DEF KeysInv, HeldIsFresh, Tick, platformVars
  <1>5. CASE UNCHANGED vars
    BY <1>5 DEF KeysInv, HeldIsFresh, vars, platformVars
  <1> QED BY <1>2, <1>3, <1>4, <1>5 DEF Next

LEMMA KeysStep == VerificationTypeOK /\ KeysInv /\ [Next]_vars => KeysInv'
  <1> SUFFICES ASSUME VerificationTypeOK, KeysInv, [Next]_vars PROVE KeysInv'
    OBVIOUS
  <1> QED BY PastStep, TrueStep, StoredStep, OpenStep, FreshStep DEF KeysInv

LEMMA KeysInvariant == VerificationSpec => [](VerificationTypeOK /\ KeysInv)
  <1>1. Init => VerificationTypeOK /\ KeysInv
    BY InitType, InitKeys
  <1>2. (VerificationTypeOK /\ KeysInv) /\ [Next]_vars => (VerificationTypeOK /\ KeysInv)'
    BY NextType, KeysStep
  <1> QED BY <1>1, <1>2, PTL DEF VerificationSpec

-----------------------------------------------------------------------------
(* Where the key set and the launches are stored.                            *)

\* Only the name without a session id is ever used for the key set.
SharedKeySet == \A p \in Prefixes : p # NoSid => keySets[p] = NoKeySet

LEMMA InitShared == Init => SharedKeySet
  BY DEF Init, SharedKeySet

LEMMA SharedStep ==
  ASSUME VerificationTypeOK, SharedKeySet, [Next]_vars
  PROVE  SharedKeySet'
  <1>1. ASSUME NEW l \in Launches, Receive(l) PROVE SharedKeySet'
    <2>1. KeySetName(l) = NoSid
      BY <1>1 DEF Receive, KeySetName, VerificationTypeOK, AsideOnlyInside, Fetching
    <2>2. \A p \in Prefixes : p # NoSid => keySets'[p] = keySets[p]
      BY <1>1, <2>1 DEF Receive, VerificationTypeOK
    <2> QED BY <2>2 DEF SharedKeySet
  <1>2. ASSUME NEW l \in Launches, LaunchStep(l), ~Receive(l) PROVE keySets' = keySets
    BY <1>2 DEF LaunchStep, Arrive, Again, Enter, UseStored, AskForKeys, PlatformAnswers,
                FetchFails, MissKey, CheckSignature, ValidateMessage
  <1>3. CASE Rotate \/ Tick \/ UNCHANGED vars
    BY <1>3 DEF SharedKeySet, Rotate, Tick, vars
  <1> QED BY <1>1, <1>2, <1>3 DEF Next, SharedKeySet

LEMMA DueStep ==
  ASSUME VerificationTypeOK, SharedKeySet, [Next]_vars,
         NEW l \in Launches, pc[l] # "fetching", pc'[l] = "fetching",
         NEW p \in Prefixes
  PROVE  clock >= keySets[p].exp \/ keySets[p].json = "empty"
  <1>0. pc \in [Launches -> Phases]
    BY DEF VerificationTypeOK
  <1>1. AskForKeys(l)
    <2>1. PICK m \in Launches : LaunchStep(m)
      BY DEF Next, Rotate, Tick, vars
    <2>2. CASE m # l
      BY <2>1, <2>2, HeldStep
    <2>3. CASE m = l /\ ~AskForKeys(l)
      BY <1>0, <2>1, <2>3 DEF LaunchStep, Arrive, Again, Enter, UseStored, PlatformAnswers,
                          Receive, FetchFails, MissKey, CheckSignature, ValidateMessage
    <2> QED BY <2>2, <2>3
  <1>2. KeySetName(l) = NoSid
    BY <1>1 DEF AskForKeys, KeySetName, VerificationTypeOK, AsideOnlyInside
  <1>3. ~(clock < keySets[NoSid].exp) \/ keySets[NoSid].json = "empty"
    <2>1. keySets[NoSid] \in KeySets
      BY <1>2, StoredType
    <2>2. keySets[NoSid].json \in {"empty", "filled"}
      BY <2>1 DEF KeySets
    <2> QED BY <1>1, <1>2, <2>2 DEF AskForKeys, Usable, Live
  <1>4. p # NoSid => keySets[p].exp = 0
    BY DEF SharedKeySet, NoKeySet
  <1> QED BY <1>3, <1>4, Numbers

LEMMA InitSaved == Init => SavedUnderItsSession
  BY DEF Init, SavedUnderItsSession

LEMMA SavedStep ==
  ASSUME VerificationTypeOK, SavedUnderItsSession, [Next]_vars
  PROVE  SavedUnderItsSession'
  <1>1. ASSUME NEW l \in Launches, ValidateMessage(l) PROVE SavedUnderItsSession'
    <2>1. KeySetName(l) = SidOf[l]
      BY <1>1 DEF ValidateMessage, KeySetName, VerificationTypeOK, AsideOnlyInside, Fetching
    <2>2. saved' \subseteq saved \cup {<<SidOf[l], l>>}
      BY <1>1, <2>1 DEF ValidateMessage
    <2> QED BY <2>2 DEF SavedUnderItsSession
  <1>2. ASSUME NEW l \in Launches, LaunchStep(l), ~ValidateMessage(l) PROVE saved' \subseteq saved
    BY <1>2 DEF LaunchStep, Arrive, Again, Enter, UseStored, AskForKeys, PlatformAnswers,
                Receive, FetchFails, MissKey, CheckSignature
  <1>3. CASE Rotate \/ Tick \/ UNCHANGED vars
    BY <1>3 DEF SavedUnderItsSession, Rotate, Tick, vars
  <1> QED BY <1>1, <1>2, <1>3 DEF Next, SavedUnderItsSession

-----------------------------------------------------------------------------
\* A key the platform retired is accepted for at most the lifetime of a stored key set
\* and the time of one request, whatever the order in which fetch_public_key's answers
\* arrive and are stored.
THEOREM RetiredIsDropped == VerificationSpec => []RetiredKeyIsDropped
  <1>1. VerificationTypeOK /\ KeysInv => RetiredKeyIsDropped
    BY DEF KeysInv, HeldIsFresh, RetiredKeyIsDropped
  <1> QED BY <1>1, KeysInvariant, PTL

\* get_public_key fails to find a key only in a set from before its publication or
\* after its retirement, or in no key set at all, and in none that is older than that.
THEOREM MissedBriefly == VerificationSpec => []KeyIsMissedBriefly
  <1>1. VerificationTypeOK /\ KeysInv => KeyIsMissedBriefly
    <2> SUFFICES ASSUME VerificationTypeOK, KeysInv, NEW l \in Launches, pc[l] = "nokey"
                 PROVE  /\ \/ held[l].keys = {}
                           \/ held[l].given <= publishedAt[kid[l]]
                           \/ retiredAt[kid[l]] <= held[l].given
                        /\ heldAt[l] < held[l].given + CacheLifetime + FetchTime
      BY DEF KeyIsMissedBriefly
    <2>1. kid[l] \in Keys \ held[l].keys
      BY Numbers DEF KeysInv, HeldIsFresh
    <2>2. TrueOnce(held[l])
      BY DEF KeysInv, SetsTrueOnce
    <2> QED BY <2>1, <2>2 DEF TrueOnce, KeysInv, HeldIsFresh
  <1> QED BY <1>1, KeysInvariant, PTL

\* No launch asks for the key set while one is stored and live that is not empty, under
\* whatever name: DisableSessionId makes all sessions use the same one.
THEOREM FetchedWhenDue == VerificationSpec => FetchedOnlyWhenDue
  <1>1. VerificationTypeOK /\ SharedKeySet /\ [Next]_vars =>
          [\A l \in Launches : pc[l] # "fetching" /\ pc'[l] = "fetching" =>
             \A p \in Prefixes : clock >= keySets[p].exp \/ keySets[p].json = "empty"]_vars
    BY DueStep
  <1>2. Init => VerificationTypeOK /\ SharedKeySet
    BY InitType, InitShared
  <1>3. (VerificationTypeOK /\ SharedKeySet) /\ [Next]_vars => (VerificationTypeOK /\ SharedKeySet)'
    BY NextType, SharedStep
  <1> QED BY <1>1, <1>2, <1>3, PTL DEF VerificationSpec, FetchedOnlyWhenDue

\* save_launch_data stores every launch under the session id of its own browser, after
\* any number of fetches that failed.
THEOREM SavedInItsSession == VerificationSpec => []SavedUnderItsSession
  <1>1. (VerificationTypeOK /\ SavedUnderItsSession) /\ [Next]_vars
        => (VerificationTypeOK /\ SavedUnderItsSession)'
    BY NextType, SavedStep
  <1> QED BY <1>1, InitType, InitSaved, PTL DEF VerificationSpec

-----------------------------------------------------------------------------
(* What the validators let pass.                                              *)

\* validate() of the one validator that can_validate asks for everything the application
\* takes from such a message, but for the return URL of deep linking.
LEMMA PassesIsUsable ==
  ASSUME NEW m \in Messages, Passes(m)
  PROVE  Used[m.type] \ m.has \subseteq {"return_url"}
  <1>1. /\ Used["resource"] \subseteq Required["resource"]
        /\ Used["deep"] \ {"return_url"} \subseteq Required["deep"]
        /\ Used["privacy"] \subseteq Required["privacy"]
        /\ Used["review"] \subseteq Required["review"]
    BY DEF Used, Required, ResourceRequires, DeepLinkRequires, PrivacyRequires, ReviewRequires
  <1>2. m.type \in {"resource", "deep", "privacy", "review"} /\ Required[m.type] \subseteq m.has
    BY DEF Passes, Types
  <1> QED BY <1>1, <1>2

LEMMA UsableStep ==
  ASSUME VerificationTypeOK, AcceptedIsUsable, [Next]_vars
  PROVE  AcceptedIsUsable'
  <1>0. /\ pc \in [Launches -> Phases]
        /\ lacks \in [Launches -> SUBSET Claims]
    BY DEF VerificationTypeOK
  <1>1. ASSUME NEW l \in Launches, ValidateMessage(l) PROVE AcceptedIsUsable'
    <2>1. PICK m \in Inputs :
            \/ Passes(m) /\ pc' = [pc EXCEPT ![l] = "accepted"]
               /\ lacks' = [lacks EXCEPT ![l] = Used[m.type] \ m.has]
            \/ pc' = [pc EXCEPT ![l] = "rejected"] /\ lacks' = lacks
      BY <1>1 DEF ValidateMessage
    <2>2. Passes(m) => Used[m.type] \ m.has \subseteq {"return_url"}
      BY PassesIsUsable, VerificationParametersOK
    <2> QED BY <1>0, <2>1, <2>2 DEF AcceptedIsUsable
  <1>2. ASSUME NEW l \in Launches, Arrive(l) PROVE AcceptedIsUsable'
    BY <1>0, <1>2 DEF Arrive, AcceptedIsUsable
  <1>3. ASSUME NEW l \in Launches, LaunchStep(l), ~ValidateMessage(l), ~Arrive(l)
        PROVE  AcceptedIsUsable'
    BY <1>0, <1>3 DEF AcceptedIsUsable, LaunchStep, Again, Enter, UseStored, AskForKeys,
                      PlatformAnswers, Receive, FetchFails, MissKey, CheckSignature
  <1>4. CASE Rotate \/ Tick \/ UNCHANGED vars
    BY <1>4 DEF AcceptedIsUsable, Rotate, Tick, vars
  <1> QED BY <1>1, <1>2, <1>3, <1>4 DEF Next

\* The application finds in every accepted launch what it takes from it without asking,
\* but for the return URL, which the deep linking validator does not look for.
THEOREM AcceptedCanBeUsed == VerificationSpec => []AcceptedIsUsable
  <1>1. Init => AcceptedIsUsable
    BY DEF Init, AcceptedIsUsable
  <1>2. (VerificationTypeOK /\ AcceptedIsUsable) /\ [Next]_vars
        => (VerificationTypeOK /\ AcceptedIsUsable)'
    BY NextType, UsableStep
  <1> QED BY <1>1, <1>2, InitType, PTL DEF VerificationSpec

-----------------------------------------------------------------------------
(* The refinement: each step of TokenVerification is a step of               *)
(* VerificationContract or leaves what a launch can rely on as it was.       *)

Verdicts == [l \in Launches |-> Verdict(l)]

\* What is hidden from the contract does not show in its variables.
Hidden == UNCHANGED <<clock, publishedAt, retiredAt, kid, Verdicts, saved>>

\* A step of one launch decides nothing about another.
LEMMA VerdictBecomes ==
  ASSUME VerificationTypeOK, NEW l \in Launches, LaunchStep(l)
  PROVE  Verdicts' = [Verdicts EXCEPT ![l] = Verdict(l)']
  <1>1. ASSUME NEW m \in Launches \ {l} PROVE Verdict(m)' = Verdict(m)
    BY <1>1, HeldStep DEF Verdict
  <1>2. \A m \in Launches : Verdicts'[m] = [Verdicts EXCEPT ![l] = Verdict(l)'][m]
    BY <1>1 DEF Verdicts
  <1> QED BY <1>2 DEF Verdicts

\* The steps on the way to the key set and from it to the signature.
LEMMA HiddenSteps ==
  ASSUME VerificationTypeOK, NEW l \in Launches,
         Enter(l) \/ AskForKeys(l) \/ PlatformAnswers(l) \/ MissKey(l)
  PROVE  Hidden
  <1>1. LaunchStep(l)
    BY DEF LaunchStep
  <1>2. pc \in [Launches -> Phases] /\ Verdicts[l] = Verdict(l)
    BY DEF VerificationTypeOK, Verdicts
  <1>3. Verdict(l)' = Verdict(l)
    <2>1. CASE Enter(l)
      BY <1>2, <2>1 DEF Enter, Verdict, Undecided
    <2>2. CASE AskForKeys(l) \/ PlatformAnswers(l)
      BY <1>2, <2>2 DEF AskForKeys, PlatformAnswers, Verdict, Undecided, Fetching
    <2>3. CASE MissKey(l)
      BY <1>2, <2>3 DEF MissKey, Verdict, Undecided, Fetching
    <2> QED BY <2>1, <2>2, <2>3
  <1>4. Verdicts' = [Verdicts EXCEPT ![l] = Verdicts[l]]
    BY <1>1, <1>2, <1>3, VerdictBecomes
  <1>5. Verdicts' = Verdicts
    BY <1>4 DEF Verdicts
  <1> QED BY <1>5 DEF Hidden, Enter, AskForKeys, PlatformAnswers, MissKey, platformVars

\* A launch that gets a key set in hand is judged by it, and the set is recent.
LEMMA JudgedByRecent ==
  ASSUME VerificationTypeOK, KeysInv, NEW l \in Launches, UseStored(l) \/ Receive(l)
  PROVE  /\ Verdict(l) = "asked" /\ UNCHANGED <<clock, publishedAt, retiredAt, kid, saved>>
         /\ \/ Verdict(l)' = "noset"
            \/ \E given \in 0 .. clock :
                 /\ clock < given + (CacheLifetime + FetchTime)
                 /\ \/ /\ Verdict(l)' = "trusted"
                       /\ publishedAt[kid[l]] <= given /\ given <= retiredAt[kid[l]]
                    \/ /\ Verdict(l)' = "missing"
                       /\ given <= publishedAt[kid[l]] \/ retiredAt[kid[l]] <= given
  <1>0. LaunchStep(l) /\ pc \in [Launches -> Phases]
    BY DEF LaunchStep, VerificationTypeOK
  <1>1. /\ Verdict(l) = "asked" /\ pc'[l] = "have" /\ heldAt'[l] = clock
        /\ UNCHANGED <<clock, publishedAt, retiredAt, kid, saved>>
    BY <1>0 DEF VerificationTypeOK, UseStored, Receive, Verdict, Undecided, Fetching, platformVars
  <1>2. VerificationTypeOK' /\ KeysInv'
    BY <1>0, NextType, KeysStep DEF Next
  <1>3. /\ TrueOnce(held[l])' /\ held'[l].given <= clock
        /\ clock < held'[l].given + CacheLifetime + FetchTime
    BY <1>1, <1>2 DEF KeysInv, SetsTrueOnce, Past, HeldIsFresh
  <1>4. /\ held'[l].given \in Nat /\ clock \in Nat /\ CacheLifetime \in Nat /\ FetchTime \in Nat
        /\ kid[l] \in Keys
    <2>1. held'[l] \in KeySets
      BY <1>2 DEF VerificationTypeOK
    <2> QED BY <2>1, KeySetType, TimeType, Numbers
  <1>5. /\ held'[l].given \in 0 .. clock
        /\ clock < held'[l].given + (CacheLifetime + FetchTime)
    BY <1>3, <1>4
  <1>6. CASE kid[l] \in held'[l].keys
    <2>1. Verdict(l)' = "trusted"
      BY <1>1, <1>6 DEF Verdict, Undecided, Fetching
    <2>2. publishedAt[kid[l]] <= held'[l].given /\ held'[l].given <= retiredAt[kid[l]]
      BY <1>1, <1>3, <1>6 DEF TrueOnce
    <2> QED BY <1>1, <1>5, <2>1, <2>2
  <1>7. CASE kid[l] \notin held'[l].keys /\ held'[l].keys # {}
    <2>1. Verdict(l)' = "missing"
      BY <1>1, <1>7 DEF Verdict, Undecided, Fetching
    <2>2. held'[l].given <= publishedAt[kid[l]] \/ retiredAt[kid[l]] <= held'[l].given
      BY <1>1, <1>3, <1>4, <1>7 DEF TrueOnce
    <2> QED BY <1>1, <1>5, <2>1, <2>2
  <1>8. CASE held'[l].keys = {}
    <2>1. Verdict(l)' = "noset"
      BY <1>1, <1>8 DEF Verdict, Undecided, Fetching
    <2> QED BY <1>1, <2>1
  <1> QED BY <1>6, <1>7, <1>8

\* What the other steps of a launch make of it.
LEMMA DecidedSteps ==
  ASSUME VerificationTypeOK, KeysInv, NEW l \in Launches
  PROVE  /\ Arrive(l) => /\ Verdict(l) \in Contract!Retried \cup {"idle", "accepted", "rejected"}
                         /\ Verdict(l)' = "asked"
         /\ Again(l) => Verdict(l) \in Contract!Retried /\ Verdict(l)' = "asked"
         /\ FetchFails(l) => Verdict(l) = "asked" /\ Verdict(l)' = "failed"
         /\ CheckSignature(l) => Verdict(l) = "trusted" /\ Verdict(l)' \in {"trusted", "failed"}
         /\ ValidateMessage(l) => /\ Verdict(l) = "trusted"
                                  /\ \/ Verdict(l)' = "rejected" /\ saved' = saved
                                     \/ /\ Verdict(l)' = "accepted"
                                        /\ saved' = saved \cup {<<SidOf[l], l>>}
  <1>0. /\ pc \in [Launches -> Phases]
        /\ pc[l] = "nokey" => kid[l] \notin held[l].keys
    BY DEF VerificationTypeOK, KeysInv, HeldIsFresh
  <1>1. pc[l] \in {"failed", "nokey"} => Verdict(l) \in Contract!Retried
    BY <1>0 DEF Verdict, Undecided, Fetching, Contract!Retried
  <1>2. pc[l] \in {"idle", "accepted", "rejected"} => Verdict(l) = pc[l]
    BY DEF Verdict, Undecided, Fetching
  <1>3. Arrive(l) => /\ Verdict(l) \in Contract!Retried \cup {"idle", "accepted", "rejected"}
                     /\ Verdict(l)' = "asked"
    <2>1. Arrive(l) => Verdict(l) \in Contract!Retried \cup {"idle", "accepted", "rejected"}
      BY <1>1, <1>2 DEF Arrive, Ended
    <2>2. Arrive(l) => Verdict(l)' = "asked"
      BY <1>0 DEF Arrive, Verdict, Undecided
    <2> QED BY <2>1, <2>2
  <1>4. Again(l) => Verdict(l) \in Contract!Retried /\ Verdict(l)' = "asked"
    <2>1. Again(l) => Verdict(l)' = "asked"
      BY <1>0 DEF Again, Verdict, Undecided
    <2> QED BY <1>1, <2>1 DEF Again
  <1>5. FetchFails(l) => Verdict(l) = "asked" /\ Verdict(l)' = "failed"
    BY <1>0 DEF FetchFails, Verdict, Undecided, Fetching
  <1>6. CheckSignature(l) => Verdict(l) = "trusted" /\ Verdict(l)' \in {"trusted", "failed"}
    BY <1>0 DEF CheckSignature, Verdict, Undecided, Fetching
  <1>7. ValidateMessage(l) => /\ Verdict(l) = "trusted"
                              /\ \/ Verdict(l)' = "rejected" /\ saved' = saved
                                 \/ /\ Verdict(l)' = "accepted"
                                    /\ saved' = saved \cup {<<SidOf[l], l>>}
    <2>1. pc[l] = "verified" => KeySetName(l) = SidOf[l]
      BY DEF KeySetName, VerificationTypeOK, AsideOnlyInside, Fetching
    <2> QED BY <1>0, <2>1 DEF ValidateMessage, Verdict, Undecided, Fetching
  <1> QED BY <1>3, <1>4, <1>5, <1>6, <1>7

\* A launch's step, seen by the contract.
LEMMA LaunchImplements ==
  ASSUME VerificationTypeOK, KeysInv, NEW l \in Launches, LaunchStep(l)
  PROVE  Contract!Next \/ Hidden
  <1>1. /\ Verdicts' = [Verdicts EXCEPT ![l] = Verdict(l)'] /\ Verdicts[l] = Verdict(l)
        /\ UNCHANGED <<clock, publishedAt, retiredAt>>
    BY VerdictBecomes, HeldStep DEF Verdicts
  <1>2. CASE Enter(l) \/ AskForKeys(l) \/ PlatformAnswers(l) \/ MissKey(l)
    BY <1>2, HiddenSteps
  <1>3. CASE UseStored(l) \/ Receive(l)
    <2>1. CASE Verdict(l)' = "noset"
      <3>1. Contract!Fail(l)
        BY <1>1, <1>3, <2>1, JudgedByRecent DEF Contract!Fail, Contract!Become, Verdicts
      <3> QED BY <3>1 DEF Contract!Next
    <2>2. CASE \E given \in 0 .. clock :
                 /\ clock < given + (CacheLifetime + FetchTime)
                 /\ Verdict(l)' = "trusted"
                 /\ publishedAt[kid[l]] <= given /\ given <= retiredAt[kid[l]]
      <3>1. Contract!Trust(l)
        BY <1>1, <1>3, <2>2, JudgedByRecent
           DEF Contract!Trust, Contract!Become, Contract!Recent, Verdicts
      <3> QED BY <3>1 DEF Contract!Next
    <2>3. CASE \E given \in 0 .. clock :
                 /\ clock < given + (CacheLifetime + FetchTime)
                 /\ Verdict(l)' = "missing"
                 /\ given <= publishedAt[kid[l]] \/ retiredAt[kid[l]] <= given
      <3>1. Contract!Miss(l)
        BY <1>1, <1>3, <2>3, JudgedByRecent
           DEF Contract!Miss, Contract!Become, Contract!Recent, Verdicts
      <3> QED BY <3>1 DEF Contract!Next
    <2> QED BY <1>3, <2>1, <2>2, <2>3, JudgedByRecent
  <1>4. CASE Arrive(l)
    <2>1. PICK k \in 1 .. signer : kid' = [kid EXCEPT ![l] = k]
      BY <1>4 DEF Arrive
    <2>2. k \in Keys
      BY VerificationParametersOK DEF VerificationTypeOK, Published, Keys
    <2>3. Contract!Arrive(l, k)
      BY <1>1, <1>4, <2>1, DecidedSteps DEF Arrive, Contract!Arrive, Verdicts
    <2> QED BY <2>2, <2>3 DEF Contract!Next
  <1>5. CASE Again(l)
    <2>1. Contract!Again(l)
      BY <1>1, <1>5, DecidedSteps DEF Again, Contract!Again, Contract!Become, Verdicts
    <2> QED BY <2>1 DEF Contract!Next
  <1>6. CASE FetchFails(l)
    <2>1. Contract!Fail(l)
      BY <1>1, <1>6, DecidedSteps DEF FetchFails, Contract!Fail, Contract!Become, Verdicts
    <2> QED BY <2>1 DEF Contract!Next
  <1>7. CASE CheckSignature(l)
    <2>1. UNCHANGED <<kid, saved>>
      BY <1>7 DEF CheckSignature
    <2>2. CASE Verdict(l)' = "failed"
      <3>1. Contract!Refuse(l)
        BY <1>1, <1>7, <2>1, <2>2, DecidedSteps DEF Contract!Refuse, Contract!Become, Verdicts
      <3> QED BY <3>1 DEF Contract!Next
    <2>3. CASE Verdict(l)' = Verdict(l)
      <3>1. Verdicts' = Verdicts
        BY <1>1, <2>3 DEF Verdicts
      <3> QED BY <1>1, <2>1, <3>1 DEF Hidden
    <2> QED BY <1>7, <2>2, <2>3, DecidedSteps
  <1>8. CASE ValidateMessage(l)
    <2>1. kid' = kid
      BY <1>8 DEF ValidateMessage
    <2>2. Contract!Refuse(l) \/ Contract!Accept(l)
      BY <1>1, <1>8, <2>1, DecidedSteps
         DEF Contract!Refuse, Contract!Accept, Contract!Become, Verdicts
    <2> QED BY <2>2 DEF Contract!Next
  <1> QED BY <1>2, <1>3, <1>4, <1>5, <1>6, <1>7, <1>8 DEF LaunchStep

\* A rotation, step by step, and time.
LEMMA EnvironmentImplements ==
  ASSUME VerificationTypeOK, Rotate \/ Tick
  PROVE  Contract!Next \/ Hidden
  <1>1. Verdicts' = Verdicts
    BY DEF Rotate, Tick, Verdicts, Verdict
  <1>2. Contract!Never = Never
    BY DEF Contract!Never, Never
  <1>3. CASE Tick
    <2>1. Contract!Tick
      BY <1>1, <1>3 DEF Tick, Contract!Tick, Verdicts, platformVars
    <2> QED BY <2>1 DEF Contract!Next
  <1>4. CASE Rotate /\ Publish
    <2>1. signer + 1 \in Keys
      BY <1>4, VerificationParametersOK DEF Publish, VerificationTypeOK, Published, Keys
    <2>2. Contract!Publish(signer + 1)
      BY <1>1, <1>2, <1>4 DEF Rotate, Publish, Contract!Publish, Verdicts
    <2> QED BY <2>1, <2>2 DEF Contract!Next
  <1>5. CASE Rotate /\ SignWithNext
    BY <1>1, <1>5 DEF Rotate, SignWithNext, Hidden
  <1>6. ASSUME NEW k \in Keys, Rotate, Retire(k) PROVE Contract!Next
    <2>1. Contract!Retire(k)
      BY <1>1, <1>2, <1>6 DEF Rotate, Retire, Published, Contract!Retire, Verdicts
    <2> QED BY <2>1 DEF Contract!Next
  <1> QED BY <1>3, <1>4, <1>5, <1>6 DEF Rotate

\* Verifying a launch keeps to VerificationContract: whatever the launches of all
\* sessions store, ask for and put aside, each is judged by the keys of one moment no
\* longer ago than the lifetime of a stored key set and the time of a request, and is
\* saved for its own session, once it was trusted and its message let through.
THEOREM VerificationImplements == VerificationSpec => ImplementsVerification
  <1>1. Init => Contract!Init
    <2> SUFFICES ASSUME Init PROVE Contract!Init
      OBVIOUS
    <2>1. VerificationTypeOK /\ Contract!Never = Never
      BY InitType DEF Contract!Never, Never
    <2>2. publishedAt \in [Keys -> {0, Never}] /\ retiredAt = [k \in Keys |-> Never]
      BY DEF Init
    <2>3. Verdicts = [l \in Launches |-> "idle"]
      BY DEF Init, Verdicts, Verdict, Undecided, Fetching
    <2> QED BY <2>1, <2>2, <2>3 DEF Init, VerificationTypeOK, Contract!Init, Verdicts
  <1>2. VerificationTypeOK /\ KeysInv /\ [Next]_vars =>
          [Contract!Next]_<<clock, publishedAt, retiredAt, kid, Verdicts, saved>>
    <2> SUFFICES ASSUME VerificationTypeOK, KeysInv, [Next]_vars
                 PROVE  Contract!Next \/ Hidden
      BY DEF Hidden
    <2>1. CASE UNCHANGED vars
      BY <2>1 DEF vars, platformVars, Hidden, Verdicts, Verdict
    <2> QED BY <2>1, LaunchImplements, EnvironmentImplements DEF Next
  <1> QED BY <1>1, <1>2, KeysInvariant, PTL
          DEF VerificationSpec, ImplementsVerification, Contract!Spec, Verdicts
=============================================================================
