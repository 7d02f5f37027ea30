-------------------------- MODULE LaunchFlow_proofs --------------------------
(***************************************************************************)
(* Proofs about LaunchFlow, for every set of logins and browsers, every    *)
(* storage and every bound.                                                *)
(***************************************************************************)
EXTENDS LaunchFlow, TLAPS

(* The storage helpers.                                                      *)

\* Saving adds the new entries and invents no other.
LEMMA PutSubset == ASSUME NEW view, NEW new PROVE Put(view, new) \subseteq view \cup new
  BY DEF Put

\* What one of the four kinds of save writes is an entry of the storage.
LEMMA EntryType ==
  ASSUME TypeOK, NEW sid \in Sids, NEW key \in Keys, NEW val \in 0 .. MaxPosts
  PROVE  Entry(sid, key, val) \in Entries
  <1>0. clock \in 0 .. MaxClock
    BY DEF TypeOK
  <1>1. clock + DataTtl \in 0 .. MaxClock + DataTtl
    BY <1>0, ConstantsOK
  <1> QED BY <1>1 DEF Entry, PrepareKey, Entries

LEMMA KeyType ==
  /\ \A f \in Logins : NonceKey(f) \in Keys /\ ParamsKey(f) \in Keys /\ HashKey(f) \in Keys
  /\ \A p \in Posts : LaunchKey(p) \in Keys
  BY DEF Keys, NonceKey, ParamsKey, HashKey, LaunchKey

LEMMA PostType ==
  ASSUME NEW p \in Posts
  PROVE  p[1] \in Logins /\ p[2] \in 1 .. MaxPosts /\ p[2] \in 0 .. MaxPosts
                         /\ p = <<p[1], p[2]>>
                         /\ \A i \in 1 .. p[2] - 1 : <<p[1], i>> \in Posts
  BY ConstantsOK DEF Posts

\* A request carries what the browser has, or less.
LEMMA CarriedType ==
  ASSUME TypeOK, NEW b \in Browsers, NEW sent \in BOOLEAN
  PROVE  /\ Carried(b, sent).session \in SUBSET Entries
         /\ Carried(b, sent).sid \in Sids
         /\ Carried(b, sent).states \in SUBSET Logins
  <1>1. jar[b] \in Cookies
    BY DEF TypeOK
  <1> QED BY <1>1 DEF Carried, Cookies, Sids

LEMMA SaveType ==
  ASSUME NEW r, r.session \in SUBSET Entries, store \in SUBSET Entries,
         NEW new \in SUBSET Entries
  PROVE  SessionAfter(r, new) \in SUBSET Entries /\ StoreAfter(new) \in SUBSET Entries
  BY PutSubset DEF SessionAfter, StoreAfter

\* Changing one field of a launch, or two, leaves a launch.
LEMMA LaunchUpdate ==
  ASSUME NEW g \in [Posts -> LaunchRequest], NEW p \in Posts, NEW pc \in Phases
  PROVE  /\ [g EXCEPT ![p].pc = pc] \in [Posts -> LaunchRequest]
         /\ \A why \in Reasons :
              [g EXCEPT ![p].pc = pc, ![p].why = why] \in [Posts -> LaunchRequest]
         /\ \A s \in SUBSET Entries :
              [g EXCEPT ![p].pc = pc, ![p].session = s] \in [Posts -> LaunchRequest]
  <1>0. ASSUME NEW r \in LaunchRequest
        PROVE  /\ [r EXCEPT !.pc = pc] \in LaunchRequest
               /\ \A why \in Reasons : [r EXCEPT !.why = why] \in LaunchRequest
               /\ \A s \in SUBSET Entries : [r EXCEPT !.session = s] \in LaunchRequest
    <2>1. [r EXCEPT !.pc = pc] \in LaunchRequest
      BY DEF LaunchRequest
    <2>2. \A why \in Reasons : [r EXCEPT !.why = why] \in LaunchRequest
      BY DEF LaunchRequest
    <2>3. \A s \in SUBSET Entries : [r EXCEPT !.session = s] \in LaunchRequest
      BY DEF LaunchRequest
    <2> QED BY <2>1, <2>2, <2>3
  <1>1. \A h \in [Posts -> LaunchRequest] : [h EXCEPT ![p].pc = pc] \in [Posts -> LaunchRequest]
    BY <1>0
  <1>2. \A h \in [Posts -> LaunchRequest] : \A why \in Reasons :
          [h EXCEPT ![p].why = why] \in [Posts -> LaunchRequest]
    BY <1>0
  <1>3. \A h \in [Posts -> LaunchRequest] : \A s \in SUBSET Entries :
          [h EXCEPT ![p].session = s] \in [Posts -> LaunchRequest]
    BY <1>0
  <1>4. \A why \in Reasons :
          [g EXCEPT ![p].pc = pc, ![p].why = why] \in [Posts -> LaunchRequest]
    BY <1>1, <1>2
  <1>5. \A s \in SUBSET Entries :
          [g EXCEPT ![p].pc = pc, ![p].session = s] \in [Posts -> LaunchRequest]
    BY <1>1, <1>3
  <1> QED BY <1>1, <1>4, <1>5

\* Every step that changes only launches leaves them well typed.
LEMMA LaunchStepType ==
  ASSUME launch \in [Posts -> LaunchRequest], NEW p \in Posts,
         \/ CheckState(p) \/ CheckFormat(p) \/ CheckNonce(p) \/ Verify(p) \/ FetchFails(p)
         \/ SaveFails(p) \/ Revalidate(p) \/ LaunchResponds(p)
  PROVE  launch' \in [Posts -> LaunchRequest]
  <1>1. ASSUME NEW from, NEW to \in Phases, NEW ok, NEW why \in Reasons,
               Step(p, from, to, ok, why)
        PROVE  launch' \in [Posts -> LaunchRequest]
    <2>1. PICK x \in Phases, y \in Reasons :
            launch' = [launch EXCEPT ![p].pc = x, ![p].why = y]
      <3>1. "rejected" \in Phases /\ "" \in Reasons
        BY DEF Phases, Reasons
      <3>2. /\ (IF ok THEN to ELSE "rejected") \in Phases
            /\ (IF ok THEN "" ELSE why) \in Reasons
        BY <3>1
      <3>3. launch' = [launch EXCEPT ![p].pc = IF ok THEN to ELSE "rejected",
                                     ![p].why = IF ok THEN "" ELSE why]
        BY <1>1 DEF Step
      <3> QED BY <3>2, <3>3
    <2> QED BY <2>1, LaunchUpdate
  <1>2. CASE CheckState(p) \/ CheckFormat(p) \/ CheckNonce(p) \/ FetchFails(p)
    BY <1>1, <1>2 DEF CheckState, CheckFormat, CheckNonce, FetchFails, Phases, Reasons
  <1>3. CASE Verify(p) \/ SaveFails(p)
    <2>1. \/ launch' = [launch EXCEPT ![p].pc = "verified"]
          \/ \E why \in Reasons : launch' = [launch EXCEPT ![p].pc = "rejected", ![p].why = why]
      BY <1>3 DEF Verify, SaveFails, Reasons
    <2>2. "verified" \in Phases /\ "rejected" \in Phases
      BY DEF Phases
    <2> QED BY <2>1, <2>2, LaunchUpdate
  <1>4. CASE Revalidate(p) \/ LaunchResponds(p)
    <2>1. \E pc \in Phases : launch' = [launch EXCEPT ![p].pc = pc]
      BY <1>4 DEF Revalidate, LaunchResponds, Phases
    <2> QED BY <2>1, LaunchUpdate
  <1> QED BY <1>2, <1>3, <1>4

-----------------------------------------------------------------------------
(* Type correctness.                                                         *)

\* Every state of LaunchFlow is well typed.
THEOREM TypeCorrect == Spec => []TypeOK
<1>1. Init => TypeOK
  <2> SUFFICES ASSUME Init PROVE TypeOK
    OBVIOUS
  <2>1. jar \in [Browsers -> Cookies]
    <3>1. 0 \in 0 .. MaxClock + StateTtl
      BY ConstantsOK
    <3>2. jar = [b \in Browsers |-> [session |-> {}, sid |-> NoSid, state |-> [f \in Logins |-> 0]]]
      BY DEF Init
    <3> QED BY <3>1, <3>2 DEF Cookies, Sids
  <2>2. login \in [Logins -> LoginRequest]
    BY DEF Init, LoginRequest, Sids
  <2>3. launch \in [Posts -> LaunchRequest]
    <3>1. 0 \in 0 .. MaxPosts
      BY ConstantsOK
    <3> QED BY <3>1 DEF Init, LaunchRequest, Sids, Phases, Reasons
  <2>4. store = {} /\ vetted = {} /\ accepted = {} /\ restored = {} /\ clock = 0
    BY DEF Init
  <2>5. 0 \in 0 .. MaxClock
    BY ConstantsOK
  <2> QED BY <2>1, <2>2, <2>3, <2>4, <2>5 DEF TypeOK
<1>2. TypeOK /\ [Next]_vars => TypeOK'
  <2> SUFFICES ASSUME TypeOK, [Next]_vars PROVE TypeOK'
    OBVIOUS
  <2>a. jar \in [Browsers -> Cookies] /\ clock \in 0 .. MaxClock /\ store \subseteq Entries
    BY DEF TypeOK
  <2>b. login \in [Logins -> LoginRequest]
    BY DEF TypeOK
  <2>c. launch \in [Posts -> LaunchRequest]
    BY DEF TypeOK
  <2>1. ASSUME NEW f \in Logins, NEW b \in Browsers, LoginArrives(f, b) PROVE TypeOK'
    <3>1. PICK sent \in BOOLEAN :
            login' = [login EXCEPT ![f] =
                  [pc |-> "arrived", browser |-> b,
                   session |-> Carried(b, sent).session, sid |-> Carried(b, sent).sid]]
      BY <2>1 DEF LoginArrives, Sending
    <3>2. login' \in [Logins -> LoginRequest]
      BY <2>b, <3>1, CarriedType DEF LoginRequest
    <3> QED BY <2>1, <3>2 DEF LoginArrives, TypeOK
  <2>2. ASSUME NEW f \in Logins, LoginHandled(f) PROVE TypeOK'
    <3> DEFINE sid == IF UsesSessionId /\ login[f].sid = NoSid THEN f ELSE login[f].sid
               new == {Entry(sid, NonceKey(f), 0), Entry(sid, ParamsKey(f), 0)}
    <3>1. /\ login[f].sid \in Sids /\ login[f].session \in SUBSET Entries
          /\ login[f].browser \in Browsers \cup {NoBrowser}
      BY <2>b DEF LoginRequest
    <3>2. sid \in Sids
      BY <3>1 DEF Sids
    <3>3. new \in SUBSET Entries
      BY <3>2, EntryType, KeyType, ConstantsOK
    <3>4. SessionAfter(login[f], new) \in SUBSET Entries /\ StoreAfter(new) \in SUBSET Entries
      BY <2>a, <3>1, <3>3, SaveType
    <3>5. /\ login' = [login EXCEPT ![f] =
                          [pc |-> "handled", browser |-> login[f].browser,
                           session |-> SessionAfter(login[f], new), sid |-> sid]]
          /\ store' = StoreAfter(new)
          /\ UNCHANGED <<jar, launch, vetted, accepted, restored, clock>>
      BY <2>2 DEF LoginHandled
    <3> HIDE DEF new, sid
    <3>6. login' \in [Logins -> LoginRequest]
      BY <2>b, <3>1, <3>2, <3>4, <3>5 DEF LoginRequest
    <3> QED BY <3>4, <3>5, <3>6 DEF TypeOK
  <2>3. ASSUME NEW f \in Logins, LoginRefused(f) PROVE TypeOK'
    <3>1. login' \in [Logins -> LoginRequest]
      BY <2>b, <2>3 DEF LoginRefused, LoginRequest
    <3> QED BY <2>3, <3>1 DEF LoginRefused, TypeOK
  <2>4. ASSUME NEW f \in Logins, LoginResponds(f) PROVE TypeOK'
    <3>1. clock + StateTtl \in 0 .. MaxClock + StateTtl
      BY <2>a, ConstantsOK
    <3>2. login[f].session \in SUBSET Entries /\ login[f].sid \in Sids
      BY <2>b DEF LoginRequest
    <3>3. \A b \in Browsers :
            [session |-> login[f].session,
             sid |-> IF login[f].sid = f THEN f ELSE jar[b].sid,
             state |-> [jar[b].state EXCEPT ![f] = clock + StateTtl]] \in Cookies
      BY <2>a, <3>1, <3>2 DEF Cookies, Sids
    <3>4. jar' \in [Browsers -> Cookies]
      BY <2>a, <2>4, <3>3 DEF LoginResponds
    <3>5. login' \in [Logins -> LoginRequest]
      BY <2>b, <2>4 DEF LoginResponds, LoginRequest
    <3> QED BY <2>4, <3>4, <3>5 DEF LoginResponds, TypeOK
  <2>5. ASSUME NEW p \in Posts, NEW b \in Browsers, PostArrives(p, b) PROVE TypeOK'
    <3>1. PICK sent \in BOOLEAN, t \in PostedTokens(p) :
            LET c == Carried(b, sent)
                missing == UsesSessionId /\ c.sid = NoSid
            IN  launch' = [launch EXCEPT ![p] =
                       [pc |-> IF missing THEN "rejected" ELSE "arrived",
                        browser |-> b, session |-> c.session, sid |-> c.sid,
                        states |-> c.states, tok |-> t.tok, fault |-> t.fault,
                        why |-> IF missing THEN "no_session_id" ELSE ""]]
      BY <2>5 DEF PostArrives, Sending
    <3>2. \A q \in Posts : launch[q].tok \in 0 .. MaxPosts /\ launch[q].fault \in Faults \cup {"none"}
      BY <2>c DEF LaunchRequest
    <3>3. t.tok \in 0 .. MaxPosts /\ t.fault \in Faults \cup {"none"}
      <4>1. \A i \in 1 .. p[2] - 1 : <<p[1], i>> \in Posts
        BY PostType
      <4>2. p[2] \in 0 .. MaxPosts
        BY PostType
      <4>3. CASE t \in {[tok |-> p[2], fault |-> x] : x \in Faults \cup {"none"}}
        BY <4>2, <4>3
      <4>4. CASE t \in {[tok |-> launch[<<p[1], i>>].tok, fault |-> launch[<<p[1], i>>].fault] :
                          i \in 1 .. p[2] - 1}
        <5>1. PICK i \in 1 .. p[2] - 1 :
                t = [tok |-> launch[<<p[1], i>>].tok, fault |-> launch[<<p[1], i>>].fault]
          BY <4>4
        <5>2. PICK q \in Posts : t = [tok |-> launch[q].tok, fault |-> launch[q].fault]
          BY <4>1, <5>1
        <5> QED BY <3>2, <5>2
      <4> QED BY <4>3, <4>4 DEF PostedTokens
    <3>4. Carried(b, sent).session \in SUBSET Entries /\ Carried(b, sent).sid \in Sids
      BY CarriedType
    <3>5. Carried(b, sent).states \in SUBSET Logins
      BY CarriedType
    <3>6. PICK r \in LaunchRequest : launch' = [launch EXCEPT ![p] = r]
      <4> DEFINE c == Carried(b, sent)
                 missing == UsesSessionId /\ c.sid = NoSid
                 pc == IF missing THEN "rejected" ELSE "arrived"
                 why == IF missing THEN "no_session_id" ELSE ""
      <4>1. pc \in Phases /\ why \in Reasons
        BY DEF Phases, Reasons
      <4>2. launch' = [launch EXCEPT ![p] =
                [pc |-> pc, browser |-> b, session |-> c.session, sid |-> c.sid,
                 states |-> c.states, tok |-> t.tok, fault |-> t.fault, why |-> why]]
        BY <3>1
      <4>3. c.session \in SUBSET Entries /\ c.sid \in Sids /\ c.states \in SUBSET Logins
        BY <3>4, <3>5
      <4> HIDE DEF c, pc, why
      <4>4. [pc |-> pc, browser |-> b, session |-> c.session, sid |-> c.sid,
             states |-> c.states, tok |-> t.tok, fault |-> t.fault, why |-> why] \in LaunchRequest
        BY <3>3, <4>1, <4>3 DEF LaunchRequest
      <4> QED BY <4>2, <4>4
    <3>7. launch' \in [Posts -> LaunchRequest]
      BY <2>c, <3>6
    <3> QED BY <2>5, <3>7 DEF PostArrives, TypeOK
  <2>6. ASSUME NEW p \in Posts, CheckState(p) PROVE TypeOK'
    <3>1. launch' \in [Posts -> LaunchRequest]
      BY <2>c, <2>6, LaunchStepType
    <3> QED BY <2>6, <3>1 DEF CheckState, Step, TypeOK
  <2>7. ASSUME NEW p \in Posts, CheckFormat(p) \/ CheckNonce(p) PROVE TypeOK'
    <3>1. launch' \in [Posts -> LaunchRequest]
      BY <2>c, <2>7, LaunchStepType
    <3> QED BY <2>7, <3>1 DEF CheckFormat, CheckNonce, Step, TypeOK
  <2>8. ASSUME NEW p \in Posts, Verify(p) PROVE TypeOK'
    <3>1. launch' \in [Posts -> LaunchRequest]
      BY <2>c, <2>8, LaunchStepType
    <3> QED BY <2>8, <3>1 DEF Verify, TypeOK
  <2>9. ASSUME NEW p \in Posts, FetchFails(p) PROVE TypeOK'
    <3>1. launch' \in [Posts -> LaunchRequest]
      BY <2>c, <2>9, LaunchStepType
    <3> QED BY <2>9, <3>1 DEF FetchFails, Step, TypeOK
  <2>10. ASSUME NEW p \in Posts, Save(p) PROVE TypeOK'
    <3> DEFINE r == launch[p]
               new == {Entry(r.sid, LaunchKey(p), r.tok), Entry(r.sid, HashKey(p[1]), r.tok)}
    <3>1. r.sid \in Sids /\ r.tok \in 0 .. MaxPosts /\ r.session \in SUBSET Entries
      BY <2>c DEF LaunchRequest
    <3>2. new \in SUBSET Entries
      BY <3>1, EntryType, KeyType, PostType
    <3>3. SessionAfter(r, new) \in SUBSET Entries /\ StoreAfter(new) \in SUBSET Entries
      BY <2>a, <3>1, <3>2, SaveType
    <3>4. /\ launch' = [launch EXCEPT ![p].pc = "saved", ![p].session = SessionAfter(r, new)]
          /\ store' = StoreAfter(new)
          /\ accepted' = accepted \cup {p}
          /\ UNCHANGED <<jar, login, vetted, restored, clock>>
      BY <2>10 DEF Save
    <3> HIDE DEF new, r
    <3>5. launch' \in [Posts -> LaunchRequest]
      BY <2>c, <3>3, <3>4, LaunchUpdate DEF Phases
    <3> QED BY <3>3, <3>4, <3>5 DEF TypeOK
  <2>11. ASSUME NEW p \in Posts, SaveFails(p) PROVE TypeOK'
    <3> DEFINE new == {Entry(launch[p].sid, LaunchKey(p), launch[p].tok)}
    <3>1. /\ launch[p].sid \in Sids /\ launch[p].tok \in 0 .. MaxPosts
          /\ launch[p].session \in SUBSET Entries
      BY <2>c DEF LaunchRequest
    <3>2. new \in SUBSET Entries
      BY <3>1, EntryType, KeyType
    <3>3. StoreAfter(new) \in SUBSET Entries
      BY <2>a, <3>1, <3>2, SaveType
    <3>4. launch' \in [Posts -> LaunchRequest]
      BY <2>c, <2>11, LaunchStepType
    <3> QED BY <2>11, <3>3, <3>4 DEF SaveFails, TypeOK
  <2>12. ASSUME NEW p \in Posts, Revalidate(p) PROVE TypeOK'
    <3>1. launch' \in [Posts -> LaunchRequest]
      BY <2>c, <2>12, LaunchStepType
    <3> QED BY <2>12, <3>1 DEF Revalidate, TypeOK
  <2>13. ASSUME NEW p \in Posts, LaunchResponds(p) PROVE TypeOK'
    <3>1. launch' \in [Posts -> LaunchRequest]
      BY <2>c, <2>13, LaunchStepType
    <3>2. launch[p].session \in SUBSET Entries
      BY <2>c DEF LaunchRequest
    <3>3. jar' \in [Browsers -> Cookies]
      BY <2>a, <2>13, <3>2 DEF LaunchResponds, Cookies
    <3> QED BY <2>13, <3>1, <3>3 DEF LaunchResponds, TypeOK
  <2>14. ASSUME NEW p \in Posts, NEW b \in Browsers, Restore(b, p) PROVE TypeOK'
    <3>1. restored' \subseteq Restorations
      BY <2>14, ConstantsOK DEF Restore, Restorations, TypeOK
    <3> QED BY <2>14, <3>1 DEF Restore, TypeOK
  <2>15. CASE Tick
    <3>1. clock' \in 0 .. MaxClock
      BY <2>a, <2>15, ConstantsOK DEF Tick
    <3> QED BY <2>15, <3>1 DEF Tick, TypeOK
  <2>16. CASE UNCHANGED vars
    BY <2>16 DEF vars, TypeOK
  <2> QED
    BY <2>1, <2>2, <2>3, <2>4, <2>5, <2>6, <2>7, <2>8, <2>9, <2>10, <2>11, <2>12, <2>13,
       <2>14, <2>15, <2>16 DEF Next, Server, Delivery, User
<1> QED BY <1>1, <1>2, PTL DEF Spec

-----------------------------------------------------------------------------
(* What each step does, field by field: the facts the invariants need of it.  *)

OthersKept(f) == \A g \in Logins \ {f} : login'[g] = login[g]
OtherLaunchesKept(p) == \A q \in Posts \ {p} : launch'[q] = launch[q]

\* Request r brings what browser b carries when it sends its cookies, or when not.
Brings(r, b) == \E sent \in Sending : /\ r.session = Carried(b, sent).session
                                      /\ r.sid = Carried(b, sent).sid
BringsStates(r, b) == \E sent \in Sending : r.states = Carried(b, sent).states

LEMMA LoginArrivesStep ==
  ASSUME TypeOK, NEW f \in Logins, NEW b \in Browsers, LoginArrives(f, b)
  PROVE  /\ login[f].pc = "idle" /\ MayRequest(b) /\ OthersKept(f)
         /\ login'[f].pc = "arrived" /\ login'[f].browser = b
         /\ Brings(login'[f], b)
         /\ UNCHANGED <<jar, store, launch, vetted, accepted, restored, clock>>
  <1>1. login \in [Logins -> LoginRequest]
    BY DEF TypeOK
  <1>2. PICK sent \in Sending :
          login' = [login EXCEPT ![f] =
                [pc |-> "arrived", browser |-> b,
                 session |-> Carried(b, sent).session, sid |-> Carried(b, sent).sid]]
    BY DEF LoginArrives
  <1>3. /\ OthersKept(f)
        /\ login'[f] = [pc |-> "arrived", browser |-> b,
                 session |-> Carried(b, sent).session, sid |-> Carried(b, sent).sid]
    BY <1>1, <1>2 DEF OthersKept
  <1>4. Brings(login'[f], b)
    BY <1>3 DEF Brings
  <1> QED BY <1>3, <1>4 DEF LoginArrives

\* The entries that login f saves under session id sid.
LoginEntries(f, sid) == {Entry(sid, NonceKey(f), 0), Entry(sid, ParamsKey(f), 0)}
SidOf(f) == IF UsesSessionId /\ login[f].sid = NoSid THEN f ELSE login[f].sid

LEMMA LoginHandledStep ==
  ASSUME TypeOK, NEW f \in Logins, LoginHandled(f)
  PROVE  /\ login[f].pc = "arrived" /\ OthersKept(f)
         /\ login'[f].pc = "handled" /\ login'[f].browser = login[f].browser
         /\ login'[f].sid = SidOf(f) /\ SidOf(f) \in Sids
         /\ login'[f].session = SessionAfter(login[f], LoginEntries(f, SidOf(f)))
         /\ store' = StoreAfter(LoginEntries(f, SidOf(f)))
         /\ LoginEntries(f, SidOf(f)) \in SUBSET Entries
         /\ UNCHANGED <<jar, launch, vetted, accepted, restored, clock>>
  <1>1. login \in [Logins -> LoginRequest]
    BY DEF TypeOK
  <1>2. SidOf(f) \in Sids
    BY <1>1 DEF SidOf, LoginRequest, Sids
  <1>3. LoginEntries(f, SidOf(f)) \in SUBSET Entries
    BY <1>2, EntryType, KeyType, ConstantsOK DEF LoginEntries
  <1>4. /\ login' = [login EXCEPT ![f] =
              [pc |-> "handled", browser |-> login[f].browser,
               session |-> SessionAfter(login[f], LoginEntries(f, SidOf(f))),
               sid |-> SidOf(f)]]
        /\ store' = StoreAfter(LoginEntries(f, SidOf(f)))
    BY DEF LoginHandled, LoginEntries, SidOf
  <1>5. /\ OthersKept(f)
        /\ login'[f] = [pc |-> "handled", browser |-> login[f].browser,
               session |-> SessionAfter(login[f], LoginEntries(f, SidOf(f))),
               sid |-> SidOf(f)]
    BY <1>1, <1>4 DEF OthersKept
  <1> QED BY <1>2, <1>3, <1>4, <1>5 DEF LoginHandled

\* A login is answered, with an error or with the redirect.
LEMMA LoginEndsStep ==
  ASSUME TypeOK, NEW f \in Logins, LoginRefused(f) \/ LoginResponds(f)
  PROVE  /\ OthersKept(f)
         /\ login'[f].browser = login[f].browser /\ login'[f].session = login[f].session
         /\ login'[f].sid = login[f].sid
         /\ LoginRefused(f) => login[f].pc = "arrived" /\ login'[f].pc = "refused" /\ jar' = jar
         /\ LoginResponds(f) =>
              /\ login[f].pc = "handled" /\ login'[f].pc = "redirected"
              /\ \A b \in Browsers : IF b = login[f].browser
                   THEN /\ jar'[b].session = login[f].session
                        /\ jar'[b].sid = IF login[f].sid = f THEN f ELSE jar[b].sid
                        /\ jar'[b].state = [jar[b].state EXCEPT ![f] = clock + StateTtl]
                   ELSE jar'[b] = jar[b]
         /\ UNCHANGED <<store, launch, vetted, accepted, restored, clock>>
  <1>1. login \in [Logins -> LoginRequest] /\ jar \in [Browsers -> Cookies]
    BY DEF TypeOK
  <1>2. CASE LoginRefused(f)
    <2>1. ~LoginResponds(f)
      BY <1>2 DEF LoginRefused, LoginResponds
    <2> QED BY <1>1, <1>2, <2>1 DEF LoginRefused, LoginRequest, OthersKept
  <1>3. CASE LoginResponds(f)
    <2>1. ~LoginRefused(f)
      BY <1>3 DEF LoginRefused, LoginResponds
    <2>2. /\ OthersKept(f) /\ login'[f].pc = "redirected"
          /\ login'[f].browser = login[f].browser /\ login'[f].session = login[f].session
          /\ login'[f].sid = login[f].sid
      BY <1>1, <1>3 DEF LoginResponds, LoginRequest, OthersKept
    <2>3. ASSUME NEW b \in Browsers, b = login[f].browser
          PROVE  /\ jar'[b].session = login[f].session
                 /\ jar'[b].sid = IF login[f].sid = f THEN f ELSE jar[b].sid
                 /\ jar'[b].state = [jar[b].state EXCEPT ![f] = clock + StateTtl]
      <3> DEFINE sid == IF login[f].sid = f THEN f ELSE jar[b].sid
                 state == [jar[b].state EXCEPT ![f] = clock + StateTtl]
      <3>1. jar'[b] = [session |-> login[f].session, sid |-> sid, state |-> state]
        BY <1>1, <1>3, <2>3 DEF LoginResponds
      <3> HIDE DEF sid, state
      <3>2. jar'[b].session = login[f].session /\ jar'[b].sid = sid /\ jar'[b].state = state
        BY <3>1
      <3> QED BY <3>2 DEF sid, state
    <2>4. \A b \in Browsers : b # login[f].browser => jar'[b] = jar[b]
      BY <1>1, <1>3 DEF LoginResponds
    <2> QED BY <1>3, <2>1, <2>2, <2>3, <2>4 DEF LoginResponds
  <1> QED BY <1>2, <1>3

\* The token of launch p is its own, or that of an earlier launch of the login.
TokenPosted(p) ==
  /\ \A i \in 1 .. p[2] - 1 : launch[<<p[1], i>>].pc # "idle"
  /\ \/ launch'[p].tok = p[2]
     \/ \E i \in 1 .. p[2] - 1 : launch'[p].tok = launch[<<p[1], i>>].tok

LEMMA PostArrivesStep ==
  ASSUME TypeOK, NEW p \in Posts, NEW b \in Browsers, PostArrives(p, b)
  PROVE  /\ launch[p].pc = "idle" /\ login[p[1]].pc = "redirected" /\ MayRequest(b)
         /\ OtherLaunchesKept(p)
         /\ launch'[p].browser = b
         /\ Brings(launch'[p], b) /\ BringsStates(launch'[p], b)
         /\ IF UsesSessionId /\ launch'[p].sid = NoSid
            THEN launch'[p].pc = "rejected" /\ launch'[p].why = "no_session_id"
            ELSE launch'[p].pc = "arrived" /\ launch'[p].why = ""
         /\ TokenPosted(p)
         /\ UNCHANGED <<jar, store, login, vetted, accepted, restored, clock>>
  <1>1. launch \in [Posts -> LaunchRequest]
    BY DEF TypeOK
  <1>2. PICK sent \in Sending, t \in PostedTokens(p) :
          LET c == Carried(b, sent)
              missing == UsesSessionId /\ c.sid = NoSid
          IN  launch' = [launch EXCEPT ![p] =
                     [pc |-> IF missing THEN "rejected" ELSE "arrived",
                      browser |-> b, session |-> c.session, sid |-> c.sid,
                      states |-> c.states, tok |-> t.tok, fault |-> t.fault,
                      why |-> IF missing THEN "no_session_id" ELSE ""]]
    BY DEF PostArrives
  <1>3. \A q \in Posts \ {p} : launch'[q] = launch[q]
    BY <1>1, <1>2
  <1>4. /\ launch'[p].browser = b
        /\ launch'[p].session = Carried(b, sent).session
        /\ launch'[p].sid = Carried(b, sent).sid
        /\ launch'[p].states = Carried(b, sent).states
        /\ launch'[p].tok = t.tok
        /\ IF UsesSessionId /\ launch'[p].sid = NoSid
           THEN launch'[p].pc = "rejected" /\ launch'[p].why = "no_session_id"
           ELSE launch'[p].pc = "arrived" /\ launch'[p].why = ""
    BY <1>1, <1>2
  <1>5. t.tok = p[2] \/ \E i \in 1 .. p[2] - 1 : t.tok = launch[<<p[1], i>>].tok
    BY DEF PostedTokens
  <1>6. TokenPosted(p)
    <2>1. \A i \in 1 .. p[2] - 1 : launch[<<p[1], i>>].pc # "idle"
      BY DEF PostArrives
    <2>2. \/ launch'[p].tok = p[2]
          \/ \E i \in 1 .. p[2] - 1 : launch'[p].tok = launch[<<p[1], i>>].tok
      BY <1>4, <1>5
    <2> QED BY <2>1, <2>2 DEF TokenPosted
  <1>7. Brings(launch'[p], b) /\ BringsStates(launch'[p], b)
    BY <1>4 DEF Brings, BringsStates
  <1> QED BY <1>3, <1>4, <1>6, <1>7 DEF PostArrives, OtherLaunchesKept

\* Every step of a launch request but its arrival and Save.
Chain(p) ==
  \/ CheckState(p) \/ CheckFormat(p) \/ CheckNonce(p) \/ Verify(p) \/ FetchFails(p)
  \/ SaveFails(p) \/ Revalidate(p) \/ LaunchResponds(p)

\* Launch p comes to phase pc, for the reason why; nothing else in launch changes.
MovesTo(p, pc, why) ==
  /\ OtherLaunchesKept(p)
  /\ launch'[p].pc = pc /\ launch'[p].why = why
  /\ launch'[p].tok = launch[p].tok /\ launch'[p].fault = launch[p].fault
  /\ launch'[p].session = launch[p].session /\ launch'[p].sid = launch[p].sid
  /\ launch'[p].browser = launch[p].browser /\ launch'[p].states = launch[p].states

\* A step of the chain is one of these moves.
ChainMove(p, pc, why) ==
  LET r == launch[p] IN
  \/ /\ r.pc = "arrived" /\ pc = "state" /\ why = ""
     /\ Holds(r, HashKey(p[1]), r.tok) \/ p[1] \in r.states
  \/ /\ r.pc = "arrived" /\ pc = "rejected" /\ why = "state"
     /\ ~Holds(r, HashKey(p[1]), r.tok) /\ p[1] \notin r.states
  \/ r.pc = "state" /\ pc = "nonce" /\ why = "" /\ Holds(r, NonceKey(p[1]), 0)
  \/ r.pc = "state" /\ pc = "rejected" /\ why = "nonce" /\ ~Holds(r, NonceKey(p[1]), 0)
  \/ r.pc = "state" /\ pc = "rejected" /\ why = "format"
  \/ r.pc = "nonce" /\ pc = "verified" /\ why = r.why /\ r.fault = "none"
  \/ r.pc = "nonce" /\ pc = "rejected" /\ why \in {"claims", "fetch"}
  \/ r.pc = "verified" /\ pc = "rejected" /\ why = "storage" /\ SaveFails(p)
  \/ r.pc = "rejected" /\ pc = "arrived" /\ why = r.why /\ r.why # "no_session_id"
  \/ r.pc \in {"saved", "rejected"} /\ pc = "done" /\ why = r.why

LEMMA MoveLaunch ==
  ASSUME launch \in [Posts -> LaunchRequest], NEW p \in Posts, NEW pc, NEW why,
         \/ launch' = [launch EXCEPT ![p].pc = pc] /\ why = launch[p].why
         \/ launch' = [launch EXCEPT ![p].pc = pc, ![p].why = why]
  PROVE  MovesTo(p, pc, why)
  <1>1. CASE launch' = [launch EXCEPT ![p].pc = pc] /\ why = launch[p].why
    BY <1>1 DEF MovesTo, OtherLaunchesKept, LaunchRequest
  <1>2. CASE launch' = [launch EXCEPT ![p].pc = pc, ![p].why = why]
    BY <1>2 DEF MovesTo, OtherLaunchesKept, LaunchRequest
  <1> QED BY <1>1, <1>2

LEMMA ChainStep ==
  ASSUME TypeOK, NEW p \in Posts, Chain(p)
  PROVE  /\ \E pc \in Phases, why \in Reasons :
              /\ MovesTo(p, pc, why) /\ ChainMove(p, pc, why)
              /\ vetted' = IF pc = "verified" THEN vetted \cup {p} ELSE vetted
              /\ \A b \in Browsers :
                   /\ jar'[b].sid = jar[b].sid /\ jar'[b].state = jar[b].state
                   /\ \/ jar'[b].session = jar[b].session
                      \/ b = launch[p].browser /\ jar'[b].session = launch[p].session
                   /\ launch[p].pc = "saved" /\ Storage = "session" /\ b = launch[p].browser =>
                        jar'[b].session = launch[p].session
         /\ \/ store' = store
            \/ /\ SaveFails(p)
               /\ store' = StoreAfter({Entry(launch[p].sid, LaunchKey(p), launch[p].tok)})
         /\ UNCHANGED <<login, accepted, restored, clock>>
  <1>1. launch \in [Posts -> LaunchRequest] /\ jar \in [Browsers -> Cookies]
    BY DEF TypeOK
  <1> DEFINE Jars == \A b \in Browsers :
               /\ jar'[b].sid = jar[b].sid /\ jar'[b].state = jar[b].state
               /\ \/ jar'[b].session = jar[b].session
                  \/ b = launch[p].browser /\ jar'[b].session = launch[p].session
               /\ launch[p].pc = "saved" /\ Storage = "session" /\ b = launch[p].browser =>
                    jar'[b].session = launch[p].session
             Rest == /\ \/ store' = store
                        \/ /\ SaveFails(p)
                           /\ store' = StoreAfter({Entry(launch[p].sid, LaunchKey(p),
                                                         launch[p].tok)})
                     /\ UNCHANGED <<login, accepted, restored, clock>>
             Moved == \E pc \in Phases, why \in Reasons :
                        /\ MovesTo(p, pc, why) /\ ChainMove(p, pc, why)
                        /\ vetted' = IF pc = "verified" THEN vetted \cup {p} ELSE vetted
  <1>2. ASSUME jar' = jar, launch[p].pc # "saved" PROVE Jars
    BY <1>2
  <1>3. CASE CheckState(p)
    <2>1. /\ launch[p].pc = "arrived" /\ jar' = jar /\ Rest /\ vetted' = vetted
          /\ \/ /\ launch' = [launch EXCEPT ![p].pc = "state", ![p].why = ""]
                /\ Holds(launch[p], HashKey(p[1]), launch[p].tok) \/ p[1] \in launch[p].states
             \/ /\ launch' = [launch EXCEPT ![p].pc = "rejected", ![p].why = "state"]
                /\ ~Holds(launch[p], HashKey(p[1]), launch[p].tok)
                /\ p[1] \notin launch[p].states
      BY <1>3 DEF CheckState, Step
    <2>2. Moved
      BY <1>1, <2>1, MoveLaunch DEF ChainMove, Phases, Reasons
    <2> QED BY <1>2, <2>1, <2>2
  <1>4. CASE CheckFormat(p) \/ CheckNonce(p)
    <2>1. /\ launch[p].pc = "state" /\ jar' = jar /\ Rest /\ vetted' = vetted
          /\ \/ /\ launch' = [launch EXCEPT ![p].pc = "nonce", ![p].why = ""]
                /\ Holds(launch[p], NonceKey(p[1]), 0)
             \/ /\ launch' = [launch EXCEPT ![p].pc = "rejected", ![p].why = "nonce"]
                /\ ~Holds(launch[p], NonceKey(p[1]), 0)
             \/ launch' = [launch EXCEPT ![p].pc = "rejected", ![p].why = "format"]
      BY <1>4 DEF CheckFormat, CheckNonce, Step
    <2>2. Moved
      BY <1>1, <2>1, MoveLaunch DEF ChainMove, Phases, Reasons
    <2> QED BY <1>2, <2>1, <2>2
  <1>5. CASE Verify(p)
    <2>1. /\ launch[p].pc = "nonce" /\ jar' = jar /\ Rest
          /\ \/ /\ launch' = [launch EXCEPT ![p].pc = "verified"]
                /\ launch[p].fault = "none" /\ vetted' = vetted \cup {p}
             \/ /\ launch' = [launch EXCEPT ![p].pc = "rejected", ![p].why = "claims"]
                /\ vetted' = vetted
      BY <1>5 DEF Verify
    <2>2. launch[p].why \in Reasons
      BY <1>1 DEF LaunchRequest
    <2>3. Moved
      BY <1>1, <2>1, <2>2, MoveLaunch DEF ChainMove, Phases, Reasons
    <2> QED BY <1>2, <2>1, <2>3
  <1>6. CASE FetchFails(p)
    <2>1. /\ launch[p].pc = "nonce" /\ jar' = jar /\ Rest /\ vetted' = vetted
          /\ launch' = [launch EXCEPT ![p].pc = "rejected", ![p].why = "fetch"]
      BY <1>6 DEF FetchFails, Step
    <2>2. Moved
      BY <1>1, <2>1, MoveLaunch DEF ChainMove, Phases, Reasons
    <2> QED BY <1>2, <2>1, <2>2
  <1>7. CASE SaveFails(p)
    <2>1. /\ launch[p].pc = "verified" /\ jar' = jar /\ Rest /\ vetted' = vetted
          /\ launch' = [launch EXCEPT ![p].pc = "rejected", ![p].why = "storage"]
      BY <1>7 DEF SaveFails
    <2>2. Moved
      BY <1>1, <1>7, <2>1, MoveLaunch DEF ChainMove, Phases, Reasons
    <2> QED BY <1>2, <2>1, <2>2
  <1>8. CASE Revalidate(p)
    <2>1. /\ launch[p].pc = "rejected" /\ jar' = jar /\ Rest /\ vetted' = vetted
          /\ launch' = [launch EXCEPT ![p].pc = "arrived"] /\ launch[p].why # "no_session_id"
      BY <1>8 DEF Revalidate
    <2>2. launch[p].why \in Reasons
      BY <1>1 DEF LaunchRequest
    <2>3. Moved
      BY <1>1, <2>1, <2>2, MoveLaunch DEF ChainMove, Phases, Reasons
    <2> QED BY <1>2, <2>1, <2>3
  <1>9. CASE LaunchResponds(p)
    <2>1. /\ launch[p].pc \in {"saved", "rejected"} /\ Rest /\ vetted' = vetted
          /\ launch' = [launch EXCEPT ![p].pc = "done"]
          /\ \/ jar' = [jar EXCEPT ![launch[p].browser].session =
                          IF Storage = "session" THEN launch[p].session ELSE @]
             \/ jar' = jar /\ launch[p].pc = "rejected"
      BY <1>9 DEF LaunchResponds
    <2>2. launch[p].why \in Reasons
      BY <1>1 DEF LaunchRequest
    <2>3. Moved
      BY <1>1, <2>1, <2>2, MoveLaunch DEF ChainMove, Phases, Reasons
    <2>4. Jars
      BY <1>1, <2>1 DEF Cookies
    <2> QED BY <2>1, <2>3, <2>4
  <1> QED BY <1>3, <1>4, <1>5, <1>6, <1>7, <1>8, <1>9 DEF Chain

\* The entries that Save writes about launch p.
LaunchEntries(p) ==
  {Entry(launch[p].sid, LaunchKey(p), launch[p].tok),
   Entry(launch[p].sid, HashKey(p[1]), launch[p].tok)}

LEMMA SaveStep ==
  ASSUME TypeOK, NEW p \in Posts, Save(p)
  PROVE  /\ launch[p].pc = "verified"
         /\ OtherLaunchesKept(p)
         /\ launch'[p].pc = "saved" /\ launch'[p].why = launch[p].why
         /\ launch'[p].tok = launch[p].tok /\ launch'[p].fault = launch[p].fault
         /\ launch'[p].sid = launch[p].sid /\ launch'[p].browser = launch[p].browser
         /\ launch'[p].states = launch[p].states
         /\ launch'[p].session = SessionAfter(launch[p], LaunchEntries(p))
         /\ store' = StoreAfter(LaunchEntries(p))
         /\ LaunchEntries(p) \in SUBSET Entries
         /\ accepted' = accepted \cup {p}
         /\ UNCHANGED <<jar, login, vetted, restored, clock>>
  <1>1. launch \in [Posts -> LaunchRequest]
    BY DEF TypeOK
  <1>2. /\ launch' = [launch EXCEPT ![p].pc = "saved",
                                    ![p].session = SessionAfter(launch[p], LaunchEntries(p))]
        /\ store' = StoreAfter(LaunchEntries(p))
    BY DEF Save, LaunchEntries
  <1>3. launch[p].sid \in Sids /\ launch[p].tok \in 0 .. MaxPosts
    BY <1>1 DEF LaunchRequest
  <1>4. LaunchEntries(p) \in SUBSET Entries
    BY <1>3, EntryType, KeyType, PostType DEF LaunchEntries
  <1> HIDE DEF LaunchEntries
  <1> QED BY <1>1, <1>2, <1>4 DEF Save, OtherLaunchesKept, LaunchRequest

\* An entry that a save leaves behind was there or is new.
LEMMA SavedEntries ==
  ASSUME NEW r, NEW new
  PROVE  /\ \A e \in SessionAfter(r, new) : e \in r.session \/ (Storage = "session" /\ e \in new)
         /\ \A e \in StoreAfter(new) : e \in store \/ (Storage # "session" /\ e \in new)
  BY PutSubset DEF SessionAfter, StoreAfter

\* The steps of the system.
LEMMA StepCases ==
  ASSUME [Next]_vars
  PROVE  \/ \E f \in Logins : LoginHandled(f) \/ LoginRefused(f) \/ LoginResponds(f)
         \/ \E p \in Posts : Chain(p) \/ Save(p)
         \/ \E b \in Browsers, f \in Logins : LoginArrives(f, b)
         \/ \E b \in Browsers, p \in Posts : PostArrives(p, b) \/ Restore(b, p)
         \/ Tick \/ UNCHANGED vars
  BY DEF Next, Server, Delivery, User, Chain

-----------------------------------------------------------------------------
(* Stored data is trustworthy.  StoredOnlyIfVetted speaks of the storage;   *)
(* it is kept because the copies of the session that requests hold, which   *)
(* become the browser's, satisfy it too, and because a launch is saved only *)
(* from the phase that Verify alone leads to.                               *)

VettedInv ==
  /\ \A e \in store : Trusted(e)
  /\ \A b \in Browsers : \A e \in jar[b].session : Trusted(e)
  /\ \A f \in Logins : \A e \in login[f].session : Trusted(e)
  /\ \A p \in Posts : \A e \in launch[p].session : Trusted(e)
  /\ \A p \in vetted : launch[p].pc # "idle" /\ launch[p].fault = "none"
  /\ \A p \in Posts : launch[p].pc \in {"verified", "saved"} => p \in vetted

\* An entry that is trustworthy stays so as long as no vetted launch is undone
\* or changes its token.
TokensKept ==
  \A p \in vetted : /\ p \in vetted' /\ launch'[p].tok = launch[p].tok
                    /\ launch'[p].fault = launch[p].fault

LEMMA TrustedStable ==
  ASSUME TokensKept, NEW e, Trusted(e)
  PROVE  Trusted(e)'
  BY DEF TokensKept, Trusted

\* What validate may save about launch p is trustworthy if p is vetted.
LEMMA SavedTrusted ==
  ASSUME NEW p \in Posts, p \in vetted, launch[p].fault = "none", NEW sid
  PROVE  /\ Trusted(Entry(sid, LaunchKey(p), launch[p].tok))
         /\ Trusted(Entry(sid, HashKey(p[1]), launch[p].tok))
  BY DEF Trusted, Entry, PrepareKey, LaunchKey, HashKey

\* What a login saves says nothing about a launch.
LEMMA LoginTrusted ==
  ASSUME NEW f, NEW sid
  PROVE  \A e \in LoginEntries(f, sid) : Trusted(e)
  BY DEF LoginEntries, Trusted, Entry, PrepareKey, NonceKey, ParamsKey

\* VettedInv holds in every state.
LEMMA VettedAlways == Spec => []VettedInv
<1>1. Init => VettedInv
  <2> SUFFICES ASSUME Init PROVE VettedInv
    OBVIOUS
  <2>1. store = {} /\ vetted = {}
    BY DEF Init
  <2>2. \A b \in Browsers : jar[b].session = {}
    BY DEF Init
  <2>3. \A f \in Logins : login[f].session = {}
    BY DEF Init
  <2>4. \A p \in Posts : launch[p].session = {} /\ launch[p].pc = "idle"
    BY DEF Init
  <2> QED BY <2>1, <2>2, <2>3, <2>4 DEF VettedInv
<1>2. TypeOK /\ VettedInv /\ [Next]_vars => VettedInv'
  <2> SUFFICES ASSUME TypeOK, VettedInv, [Next]_vars PROVE VettedInv'
    OBVIOUS
  <2>a. vetted \subseteq Posts
    BY DEF TypeOK
  <2>b. ASSUME NEW r, NEW b \in Browsers, Brings(r, b) PROVE \A e \in r.session : Trusted(e)
    BY <2>b DEF Brings, Carried, VettedInv
  <2>1. ASSUME NEW f \in Logins, NEW b \in Browsers, LoginArrives(f, b) PROVE VettedInv'
    <3>1. jar' = jar /\ store' = store /\ launch' = launch /\ vetted' = vetted
      BY <2>1, LoginArrivesStep
    <3>2. TokensKept
      BY <3>1 DEF TokensKept
    <3>3. \A g \in Logins : \A e \in login'[g].session : Trusted(e)
      <4>1. OthersKept(f) /\ Brings(login'[f], b)
        BY <2>1, LoginArrivesStep
      <4> QED BY <2>b, <4>1 DEF OthersKept, VettedInv
    <3> QED BY <3>1, <3>2, <3>3, TrustedStable DEF VettedInv
  <2>2. ASSUME NEW f \in Logins, LoginHandled(f) PROVE VettedInv'
    <3> DEFINE new == LoginEntries(f, SidOf(f))
    <3>1. jar' = jar /\ launch' = launch /\ vetted' = vetted
      BY <2>2, LoginHandledStep
    <3>2. TokensKept
      BY <3>1 DEF TokensKept
    <3>3. \A e \in new : Trusted(e)
      BY LoginTrusted
    <3>4. \A g \in Logins : \A e \in login'[g].session : e \in login[g].session \cup new
      BY <2>2, LoginHandledStep, SavedEntries DEF OthersKept
    <3>5. \A e \in store' : e \in store \cup new
      BY <2>2, LoginHandledStep, SavedEntries
    <3> QED BY <3>1, <3>2, <3>3, <3>4, <3>5, TrustedStable DEF VettedInv
  <2>3. ASSUME NEW f \in Logins, LoginRefused(f) \/ LoginResponds(f) PROVE VettedInv'
    <3>1. store' = store /\ launch' = launch /\ vetted' = vetted
      BY <2>3, LoginEndsStep
    <3>2. TokensKept
      BY <3>1 DEF TokensKept
    <3>3. \A g \in Logins : login'[g].session = login[g].session
      BY <2>3, LoginEndsStep DEF OthersKept
    <3>4. \A b \in Browsers : jar'[b].session \in {jar[b].session, login[f].session}
      BY <2>3, LoginEndsStep
    <3>5. \A b \in Browsers : \A e \in jar'[b].session : Trusted(e)
      BY <3>4 DEF VettedInv
    <3> QED BY <3>1, <3>2, <3>3, <3>5, TrustedStable DEF VettedInv
  <2>4. ASSUME NEW p \in Posts, NEW b \in Browsers, PostArrives(p, b) PROVE VettedInv'
    <3>1. jar' = jar /\ store' = store /\ login' = login /\ vetted' = vetted
      BY <2>4, PostArrivesStep
    <3>2. p \notin vetted
      BY <2>4, PostArrivesStep DEF VettedInv
    <3>a. OtherLaunchesKept(p) /\ Brings(launch'[p], b)
      BY <2>4, PostArrivesStep
    <3>3. \A q \in Posts : q # p => launch'[q] = launch[q]
      BY <3>a DEF OtherLaunchesKept
    <3>4. TokensKept
      BY <2>a, <3>1, <3>2, <3>3 DEF TokensKept
    <3>5. launch'[p].pc \in {"arrived", "rejected"}
      BY <2>4, PostArrivesStep
    <3>6. \A q \in Posts : \A e \in launch'[q].session : Trusted(e)
      BY <2>b, <3>a, <3>3 DEF VettedInv
    <3> QED BY <2>a, <3>1, <3>2, <3>3, <3>4, <3>5, <3>6, TrustedStable DEF VettedInv
  <2>5. ASSUME NEW p \in Posts, Chain(p) PROVE VettedInv'
    <3>1. PICK pc \in Phases, why \in Reasons :
            /\ MovesTo(p, pc, why) /\ ChainMove(p, pc, why)
            /\ vetted' = IF pc = "verified" THEN vetted \cup {p} ELSE vetted
            /\ \A b \in Browsers : jar'[b].session \in {jar[b].session, launch[p].session}
      BY <2>5, ChainStep
    <3>2. login' = login
      BY <2>5, ChainStep
    <3>3. \A q \in Posts : /\ launch'[q].tok = launch[q].tok
                           /\ launch'[q].fault = launch[q].fault
                           /\ launch'[q].session = launch[q].session
                           /\ launch'[q].pc = IF q = p THEN pc ELSE launch[q].pc
      BY <3>1 DEF MovesTo, OtherLaunchesKept
    <3>4. TokensKept
      BY <2>a, <3>1, <3>3 DEF TokensKept
    <3>5. pc \notin {"idle", "saved"} /\ (pc = "verified" => launch[p].fault = "none")
      BY <3>1 DEF ChainMove
    <3>6. \A e \in store' : Trusted(e)
      <4>1. CASE store' = store
        BY <4>1 DEF VettedInv
      <4>2. CASE /\ SaveFails(p)
                 /\ store' = StoreAfter({Entry(launch[p].sid, LaunchKey(p), launch[p].tok)})
        <5>1. p \in vetted /\ launch[p].fault = "none"
          BY <4>2 DEF SaveFails, VettedInv
        <5> DEFINE new == {Entry(launch[p].sid, LaunchKey(p), launch[p].tok)}
        <5>2. \A e \in new : Trusted(e)
          BY <5>1, SavedTrusted
        <5>3. store' = StoreAfter(new)
          BY <4>2
        <5> HIDE DEF new
        <5> QED BY <5>2, <5>3, SavedEntries DEF VettedInv
      <4> QED BY <2>5, <4>1, <4>2, ChainStep
    <3>7. \A b \in Browsers : \A e \in jar'[b].session : Trusted(e)
      BY <3>1 DEF VettedInv
    <3>8. \A q \in vetted' : launch'[q].pc # "idle" /\ launch'[q].fault = "none"
      BY <2>a, <3>1, <3>3, <3>5 DEF VettedInv
    <3>9. \A q \in Posts : launch'[q].pc \in {"verified", "saved"} => q \in vetted'
      BY <3>1, <3>3, <3>5 DEF VettedInv
    <3>10. \A q \in Posts : \A e \in launch'[q].session : Trusted(e)
      BY <3>3 DEF VettedInv
    <3> QED BY <3>2, <3>4, <3>6, <3>7, <3>8, <3>9, <3>10, TrustedStable DEF VettedInv
  <2>6. ASSUME NEW p \in Posts, Save(p) PROVE VettedInv'
    <3>1. jar' = jar /\ login' = login /\ vetted' = vetted
      BY <2>6, SaveStep
    <3>2. p \in vetted /\ launch[p].fault = "none"
      BY <2>6, SaveStep DEF VettedInv
    <3>3. \A e \in LaunchEntries(p) : Trusted(e)
      BY <3>2, SavedTrusted DEF LaunchEntries
    <3>4. \A q \in Posts : /\ launch'[q].tok = launch[q].tok
                           /\ launch'[q].fault = launch[q].fault
                           /\ launch'[q].pc = IF q = p THEN "saved" ELSE launch[q].pc
      BY <2>6, SaveStep DEF OtherLaunchesKept
    <3>5. TokensKept
      BY <2>a, <3>1, <3>4 DEF TokensKept
    <3>6. \A q \in Posts : \A e \in launch'[q].session : e \in launch[q].session \cup LaunchEntries(p)
      BY <2>6, SaveStep, SavedEntries DEF OtherLaunchesKept
    <3>7. \A e \in store' : e \in store \cup LaunchEntries(p)
      BY <2>6, SaveStep, SavedEntries
    <3>8. \A q \in vetted : launch'[q].pc # "idle" /\ launch'[q].fault = "none"
      BY <2>a, <3>4 DEF VettedInv
    <3>9. \A q \in Posts : launch'[q].pc \in {"verified", "saved"} => q \in vetted
      BY <3>2, <3>4 DEF VettedInv
    <3> QED BY <3>1, <3>3, <3>5, <3>6, <3>7, <3>8, <3>9, TrustedStable DEF VettedInv
  <2>7. ASSUME UNCHANGED <<jar, store, login, launch, vetted>> PROVE VettedInv'
    <3>1. TokensKept
      BY <2>7 DEF TokensKept
    <3> QED BY <2>7, <3>1, TrustedStable DEF VettedInv
  <2>8. ASSUME NEW p \in Posts, NEW b \in Browsers, Restore(b, p) PROVE VettedInv'
    BY <2>7, <2>8 DEF Restore
  <2>9. CASE Tick
    BY <2>7, <2>9 DEF Tick
  <2>10. CASE UNCHANGED vars
    BY <2>7, <2>10 DEF vars
  <2> QED
    BY <2>1, <2>2, <2>3, <2>4, <2>5, <2>6, <2>8, <2>9, <2>10, StepCases
<1> QED BY <1>1, <1>2, TypeCorrect, PTL DEF Spec

\* Launch data and state marks in the storage always come from a launch that
\* passed every check.
THEOREM StoredIsVetted == Spec => []StoredOnlyIfVetted
  <1>1. VettedInv => StoredOnlyIfVetted
    BY DEF VettedInv, StoredOnlyIfVetted, Shared
  <1> QED BY <1>1, VettedAlways, PTL

-----------------------------------------------------------------------------
(* Launches without their state cookie.  A state mark lets a launch through  *)
(* without the cookie; it is there only because a launch of the same login   *)
(* was accepted with the same token and did bring the cookie.                *)

\* Of the launches ps, of which acc are accepted: one of login f had token tok
\* and the state cookie.
Seen(ps, acc, f, tok) ==
  \E q \in Posts : q[1] = f /\ q \in acc /\ ps[q].tok = tok /\ f \in ps[q].states

Marked(ps, acc, e) == e.key.kind = "id-token-hash" => Seen(ps, acc, e.key.of, e.val)

SeenLaunch(p) ==
  /\ \A e \in launch[p].session : Marked(launch, accepted, e)
  /\ launch[p].pc \in {"state", "nonce", "verified"} =>
       p[1] \in launch[p].states \/ Seen(launch, accepted, p[1], launch[p].tok)
  /\ p \in accepted => /\ launch[p].pc \in {"saved", "done"}
                       /\ Seen(launch, accepted, p[1], launch[p].tok)

SeenInv ==
  /\ \A e \in store : Marked(launch, accepted, e)
  /\ \A b \in Browsers : \A e \in jar[b].session : Marked(launch, accepted, e)
  /\ \A f \in Logins : \A e \in login[f].session : Marked(launch, accepted, e)
  /\ \A p \in Posts : SeenLaunch(p)

\* An accepted launch stays accepted, with its token and its cookies.
AcceptedKept ==
  \A q \in accepted : /\ q \in accepted' /\ launch'[q].tok = launch[q].tok
                      /\ launch'[q].states = launch[q].states

LEMMA SeenStable ==
  ASSUME AcceptedKept, NEW f, NEW tok, Seen(launch, accepted, f, tok)
  PROVE  Seen(launch', accepted', f, tok)
  BY DEF AcceptedKept, Seen

LEMMA MarkedStable ==
  ASSUME AcceptedKept, NEW e, Marked(launch, accepted, e)
  PROVE  Marked(launch', accepted', e)
  BY SeenStable DEF Marked

\* The entries a step leaves behind are marked if the new ones are.
LEMMA SeenLaunchKept ==
  ASSUME AcceptedKept, SeenInv, NEW p \in Posts, launch'[p] = launch[p],
         p \in accepted' => p \in accepted
  PROVE  SeenLaunch(p)'
  <1>1. SeenLaunch(p)
    BY DEF SeenInv
  <1>2. Seen(launch, accepted, p[1], launch[p].tok) => Seen(launch', accepted', p[1], launch[p].tok)
    BY SeenStable
  <1>3. \A e \in launch[p].session : Marked(launch', accepted', e)
    BY <1>1, MarkedStable DEF SeenLaunch
  <1> QED BY <1>1, <1>2, <1>3 DEF SeenLaunch

\* SeenInv holds in every state.
LEMMA SeenAlways == Spec => []SeenInv
<1>1. Init => SeenInv
  <2> SUFFICES ASSUME Init PROVE SeenInv
    OBVIOUS
  <2>1. store = {} /\ accepted = {}
    BY DEF Init
  <2>2. \A b \in Browsers : jar[b].session = {}
    BY DEF Init
  <2>3. \A f \in Logins : login[f].session = {}
    BY DEF Init
  <2>4. \A p \in Posts : launch[p].session = {} /\ launch[p].pc = "idle"
    BY DEF Init
  <2> QED BY <2>1, <2>2, <2>3, <2>4 DEF SeenInv, SeenLaunch
<1>2. TypeOK /\ SeenInv /\ [Next]_vars => SeenInv'
  <2> SUFFICES ASSUME TypeOK, SeenInv, [Next]_vars PROVE SeenInv'
    OBVIOUS
  <2>a. accepted \subseteq Posts
    BY DEF TypeOK
  <2>b. ASSUME NEW r, NEW b \in Browsers, Brings(r, b)
        PROVE  \A e \in r.session : Marked(launch, accepted, e)
    BY <2>b DEF Brings, Carried, SeenInv
  <2>c. ASSUME launch' = launch, accepted' = accepted
        PROVE  AcceptedKept /\ \A p \in Posts : SeenLaunch(p)'
    <3>1. AcceptedKept
      BY <2>c DEF AcceptedKept
    <3> QED BY <2>c, <3>1, SeenLaunchKept
  <2>1. ASSUME NEW f \in Logins, NEW b \in Browsers, LoginArrives(f, b) PROVE SeenInv'
    <3>1. /\ jar' = jar /\ store' = store /\ launch' = launch /\ accepted' = accepted
          /\ OthersKept(f) /\ Brings(login'[f], b)
      BY <2>1, LoginArrivesStep
    <3>2. \A e \in login'[f].session : Marked(launch, accepted, e)
      BY <2>b, <3>1
    <3>3. \A g \in Logins : \A e \in login'[g].session : Marked(launch, accepted, e)
      BY <3>1, <3>2 DEF OthersKept, SeenInv
    <3> QED BY <2>c, <3>1, <3>3, MarkedStable DEF SeenInv
  <2>2. ASSUME NEW f \in Logins, LoginHandled(f) PROVE SeenInv'
    <3> DEFINE new == LoginEntries(f, SidOf(f))
    <3>1. jar' = jar /\ launch' = launch /\ accepted' = accepted
      BY <2>2, LoginHandledStep
    <3>2. \A e \in new : Marked(launch, accepted, e)
      BY DEF LoginEntries, Entry, PrepareKey, NonceKey, ParamsKey, Marked
    <3>3. \A g \in Logins : \A e \in login'[g].session : e \in login[g].session \cup new
      BY <2>2, LoginHandledStep, SavedEntries DEF OthersKept
    <3>4. \A e \in store' : e \in store \cup new
      BY <2>2, LoginHandledStep, SavedEntries
    <3> HIDE DEF new
    <3> QED BY <2>c, <3>1, <3>2, <3>3, <3>4, MarkedStable DEF SeenInv
  <2>3. ASSUME NEW f \in Logins, LoginRefused(f) \/ LoginResponds(f) PROVE SeenInv'
    <3>1. store' = store /\ launch' = launch /\ accepted' = accepted
      BY <2>3, LoginEndsStep
    <3>2. \A g \in Logins : login'[g].session = login[g].session
      BY <2>3, LoginEndsStep DEF OthersKept
    <3>3. \A b \in Browsers : jar'[b].session \in {jar[b].session, login[f].session}
      BY <2>3, LoginEndsStep
    <3>4. \A b \in Browsers : \A e \in jar'[b].session : Marked(launch, accepted, e)
      BY <3>3 DEF SeenInv
    <3> QED BY <2>c, <3>1, <3>2, <3>4, MarkedStable DEF SeenInv
  <2>4. ASSUME NEW p \in Posts, NEW b \in Browsers, PostArrives(p, b) PROVE SeenInv'
    <3>1. jar' = jar /\ store' = store /\ login' = login /\ accepted' = accepted
      BY <2>4, PostArrivesStep
    <3>2. OtherLaunchesKept(p) /\ Brings(launch'[p], b) /\ launch'[p].pc \in {"arrived", "rejected"}
      BY <2>4, PostArrivesStep
    <3>3. launch[p].pc = "idle"
      BY <2>4, PostArrivesStep
    <3>4. p \notin accepted
      BY <3>3 DEF SeenInv, SeenLaunch
    <3>5. AcceptedKept
      BY <2>a, <3>1, <3>2, <3>4 DEF AcceptedKept, OtherLaunchesKept
    <3>6. \A e \in launch'[p].session : Marked(launch', accepted', e)
      BY <2>b, <3>2, <3>5, MarkedStable
    <3>7. SeenLaunch(p)'
      BY <3>1, <3>2, <3>4, <3>6 DEF SeenLaunch
    <3>8. \A q \in Posts : q # p => SeenLaunch(q)'
      BY <3>1, <3>2, <3>5, SeenLaunchKept DEF OtherLaunchesKept
    <3> QED BY <3>1, <3>5, <3>7, <3>8, MarkedStable DEF SeenInv
  <2>5. ASSUME NEW p \in Posts, Chain(p) PROVE SeenInv'
    <3>1. PICK pc \in Phases, why \in Reasons :
            /\ MovesTo(p, pc, why) /\ ChainMove(p, pc, why)
            /\ \A b \in Browsers : jar'[b].session \in {jar[b].session, launch[p].session}
      BY <2>5, ChainStep
    <3>2. login' = login /\ accepted' = accepted
      BY <2>5, ChainStep
    <3>3. /\ OtherLaunchesKept(p) /\ launch'[p].pc = pc /\ launch'[p].tok = launch[p].tok
          /\ launch'[p].states = launch[p].states /\ launch'[p].session = launch[p].session
      BY <3>1 DEF MovesTo
    <3>4. AcceptedKept
      BY <2>a, <3>2, <3>3 DEF AcceptedKept, OtherLaunchesKept
    <3>5. SeenLaunch(p)
      BY DEF SeenInv
    <3> DEFINE seen == Seen(launch, accepted, p[1], launch[p].tok)
    <3>6. pc = "state" => p[1] \in launch[p].states \/ seen
      <4>1. ASSUME Holds(launch[p], HashKey(p[1]), launch[p].tok) PROVE seen
        <5>1. PICK e \in View(launch[p]) : e.key = HashKey(p[1]) /\ e.val = launch[p].tok
          BY <4>1 DEF Holds, PrepareKey
        <5>2. Marked(launch, accepted, e)
          BY <3>5, <5>1 DEF View, SeenLaunch, SeenInv
        <5> QED BY <5>1, <5>2 DEF Marked, HashKey
      <4> QED BY <3>1, <4>1 DEF ChainMove
    <3>7. pc \in {"nonce", "verified"} => launch[p].pc \in {"state", "nonce", "verified"}
      BY <3>1 DEF ChainMove
    <3>8. pc \in {"state", "nonce", "verified"} => p[1] \in launch[p].states \/ seen
      BY <3>5, <3>6, <3>7 DEF SeenLaunch
    <3>9. p \in accepted => pc = "done" /\ seen
      BY <3>1, <3>5 DEF SeenLaunch, ChainMove
    <3>10. seen => Seen(launch', accepted', p[1], launch[p].tok)
      BY <3>4, SeenStable
    <3>11. \A e \in launch[p].session : Marked(launch', accepted', e)
      BY <3>4, <3>5, MarkedStable DEF SeenLaunch
    <3> HIDE DEF seen
    <3>12. SeenLaunch(p)'
      BY <3>2, <3>3, <3>8, <3>9, <3>10, <3>11 DEF SeenLaunch
    <3>13. \A q \in Posts : q # p => SeenLaunch(q)'
      BY <3>2, <3>3, <3>4, SeenLaunchKept DEF OtherLaunchesKept
    <3>14. \A b \in Browsers : \A e \in jar'[b].session : Marked(launch, accepted, e)
      BY <3>1, <3>5 DEF SeenInv, SeenLaunch
    <3>15. \A e \in store' : Marked(launch, accepted, e)
      <4> DEFINE new == {Entry(launch[p].sid, LaunchKey(p), launch[p].tok)}
      <4>1. \A e \in new : Marked(launch, accepted, e)
        BY DEF Marked, Entry, PrepareKey, LaunchKey
      <4>2. store' = store \/ store' = StoreAfter(new)
        BY <2>5, ChainStep
      <4> HIDE DEF new
      <4> QED BY <4>1, <4>2, SavedEntries DEF SeenInv
    <3> QED BY <3>2, <3>4, <3>12, <3>13, <3>14, <3>15, MarkedStable DEF SeenInv
  <2>6. ASSUME NEW p \in Posts, Save(p) PROVE SeenInv'
    <3> DEFINE new == LaunchEntries(p)
    <3>1. /\ launch[p].pc = "verified" /\ OtherLaunchesKept(p)
          /\ launch'[p].pc = "saved" /\ launch'[p].tok = launch[p].tok
          /\ launch'[p].states = launch[p].states
          /\ launch'[p].session = SessionAfter(launch[p], new)
          /\ store' = StoreAfter(new)
          /\ accepted' = accepted \cup {p} /\ jar' = jar /\ login' = login
      BY <2>6, SaveStep
    <3>2. AcceptedKept
      BY <2>a, <3>1 DEF AcceptedKept, OtherLaunchesKept
    <3>3. SeenLaunch(p)
      BY DEF SeenInv
    <3>4. Seen(launch', accepted', p[1], launch[p].tok)
      <4>1. CASE p[1] \in launch[p].states
        BY <3>1, <4>1 DEF Seen
      <4>2. CASE Seen(launch, accepted, p[1], launch[p].tok)
        BY <3>2, <4>2, SeenStable
      <4> QED BY <3>1, <3>3, <4>1, <4>2 DEF SeenLaunch
    <3>5. \A e \in new : Marked(launch', accepted', e)
      BY <3>4 DEF LaunchEntries, Marked, Entry, PrepareKey, LaunchKey, HashKey
    <3>6. /\ \A e \in launch'[p].session : e \in launch[p].session \/ e \in new
          /\ \A e \in store' : e \in store \/ e \in new
      BY <3>1, SavedEntries
    <3> HIDE DEF new
    <3>7. \A e \in launch'[p].session : Marked(launch', accepted', e)
      BY <3>2, <3>3, <3>5, <3>6, MarkedStable DEF SeenLaunch
    <3>8. SeenLaunch(p)'
      BY <3>1, <3>4, <3>7 DEF SeenLaunch
    <3>9. \A q \in Posts : q # p => SeenLaunch(q)'
      BY <3>1, <3>2, SeenLaunchKept DEF OtherLaunchesKept
    <3> QED BY <3>1, <3>2, <3>5, <3>6, <3>8, <3>9, MarkedStable DEF SeenInv
  <2>7. ASSUME UNCHANGED <<jar, store, login, launch, accepted>> PROVE SeenInv'
    BY <2>c, <2>7, MarkedStable DEF SeenInv
  <2>8. ASSUME NEW p \in Posts, NEW b \in Browsers, Restore(b, p) PROVE SeenInv'
    BY <2>7, <2>8 DEF Restore
  <2>9. CASE Tick
    BY <2>7, <2>9 DEF Tick
  <2>10. CASE UNCHANGED vars
    BY <2>7, <2>10 DEF vars
  <2> QED
    BY <2>1, <2>2, <2>3, <2>4, <2>5, <2>6, <2>8, <2>9, <2>10, StepCases
<1> QED BY <1>1, <1>2, TypeCorrect, PTL DEF Spec

\* Without its state cookie a launch is accepted only as the repetition of a
\* token that was accepted with the cookie for the same login.
THEOREM NoCookieWasRepeated == Spec => []NoCookieOnlyIfRepeated
  <1>1. TypeOK /\ SeenInv => NoCookieOnlyIfRepeated
    BY DEF TypeOK, SeenInv, SeenLaunch, Seen, NoCookieOnlyIfRepeated
  <1> QED BY <1>1, SeenAlways, TypeCorrect, PTL

-----------------------------------------------------------------------------
(* What a login leaves in the browser, and what a user and an application    *)
(* may count on because of it.                                               *)
(*                                                                           *)
(* First, where things belong: LaunchFlow implements LaunchContract, for     *)
(* both storages, requests that overlap and cookies that are withheld.  A    *)
(* cache over http is excepted: its keys have no session id, and with them   *)
(* browsers share nonces and launch data.                                    *)
(*                                                                           *)
(* Then, that it lasts, for a user who sends one request at a time from a    *)
(* browser that keeps its cookies: with requests that overlap the session    *)
(* storage loses entries.                                                    *)

Apart == Storage = "session" \/ Secure

-----------------------------------------------------------------------------
(* Where things belong.  Nonces and launch data lie where only the browser   *)
(* finds them that began the login, or ran the launch: in its session, or in *)
(* the cache under a session id that was made for a login of that browser.   *)

\* Of the logins ls and the launches ps: entry e, or session id sid, is browser b's.
OfBrowser(ls, ps, e, b) ==
  /\ e.key.kind = "nonce" => ls[e.key.of].browser = b
  /\ e.key.kind = "launch" => ps[e.key.of].browser = b

SidOfBrowser(ls, sid, b) == sid # NoSid => ls[sid].browser = b

JarHome(b) ==
  /\ \A e \in jar[b].session : OfBrowser(login, launch, e, b)
  /\ SidOfBrowser(login, jar[b].sid, b)

LoginHome(f) ==
  /\ login[f].pc = "idle" <=> login[f].browser = NoBrowser
  /\ login[f].pc # "idle" => /\ \A e \in login[f].session : OfBrowser(login, launch, e, login[f].browser)
                             /\ SidOfBrowser(login, login[f].sid, login[f].browser)

\* A launch past the check of its nonce runs where its login began.
LaunchHome(p) ==
  /\ launch[p].pc = "idle" <=> launch[p].browser = NoBrowser
  /\ launch[p].pc # "idle" =>
       /\ login[p[1]].pc = "redirected" /\ launch[p].tok # 0
       /\ \A e \in launch[p].session : OfBrowser(login, launch, e, launch[p].browser)
       /\ SidOfBrowser(login, launch[p].sid, launch[p].browser)
       /\ UsesSessionId /\ launch[p].sid = NoSid =>
            \/ launch[p].pc = "done"
            \/ launch[p].pc = "rejected" /\ launch[p].why = "no_session_id"
  /\ launch[p].pc \in {"nonce", "verified"} \/ p \in vetted \/ p \in accepted =>
       launch[p].pc # "idle" /\ launch[p].browser = login[p[1]].browser

EntryHome(ls, ps, e) == /\ e.sid # NoSid /\ ls[e.sid].browser # NoBrowser
                        /\ OfBrowser(ls, ps, e, ls[e.sid].browser)

StoreHome ==
  /\ \A e \in store : EntryHome(login, launch, e)
  /\ Storage = "session" => store = {}

HomeInv ==
  /\ \A b \in Browsers : JarHome(b)
  /\ \A f \in Logins : LoginHome(f)
  /\ \A p \in Posts : LaunchHome(p)
  /\ StoreHome

\* No login or launch that has begun changes its browser.
BrowsersKept ==
  /\ \A f \in Logins : login[f].browser # NoBrowser => login'[f].browser = login[f].browser
  /\ \A p \in Posts : launch[p].browser # NoBrowser => launch'[p].browser = launch[p].browser

LEMMA OfBrowserStable ==
  ASSUME BrowsersKept, NEW e \in Entries, NEW b \in Browsers, OfBrowser(login, launch, e, b)
  PROVE  OfBrowser(login', launch', e, b)
  <1>1. /\ e.key.kind = "nonce" => e.key.of \in Logins
        /\ e.key.kind = "launch" => e.key.of \in Posts
    BY DEF Entries, Keys
  <1> QED BY <1>1, ConstantsOK DEF OfBrowser, BrowsersKept

LEMMA SidStable ==
  ASSUME BrowsersKept, NEW sid \in Sids, NEW b \in Browsers, SidOfBrowser(login, sid, b)
  PROVE  SidOfBrowser(login', sid, b)
  BY ConstantsOK DEF SidOfBrowser, BrowsersKept, Sids

\* What a request of browser b finds in the storage belongs to b.
LEMMA HeldIsHome ==
  ASSUME HomeInv, Apart, NEW b, NEW r, NEW key, NEW val,
         \A e \in r.session : OfBrowser(login, launch, e, b),
         UsesSessionId => r.sid # NoSid /\ SidOfBrowser(login, r.sid, b),
         Holds(r, key, val)
  PROVE  \E e \in View(r) : e.key = key /\ e.val = val /\ OfBrowser(login, launch, e, b)
  <1>1. PICK e \in View(r) : e.sid = r.sid /\ e.key = key /\ e.val = val
    BY DEF Holds, PrepareKey
  <1>2. CASE Storage = "session"
    BY <1>1, <1>2 DEF View
  <1>3. CASE Storage # "session"
    <2>1. UsesSessionId
      BY <1>3, ConstantsOK DEF Apart, UsesSessionId
    <2>2. e \in store
      BY <1>1, <1>3 DEF View
    <2>3. OfBrowser(login, launch, e, login[e.sid].browser)
      BY <2>2 DEF HomeInv, StoreHome, EntryHome
    <2>4. login[e.sid].browser = b
      BY <1>1, <2>1 DEF SidOfBrowser
    <2> QED BY <1>1, <2>3, <2>4
  <1> QED BY <1>2, <1>3

\* What a request brings from browser b belongs to b, now and after a step.
LEMMA BroughtIsHome ==
  ASSUME TypeOK, HomeInv, BrowsersKept, NEW b \in Browsers, NEW r, Brings(r, b)
  PROVE  (\A e \in r.session : OfBrowser(login', launch', e, b)) /\ SidOfBrowser(login', r.sid, b)
  <1>1. PICK sent \in Sending : /\ r.session = Carried(b, sent).session
                                /\ r.sid = Carried(b, sent).sid
    BY DEF Brings
  <1>2. r.session = {} \/ r.session = jar[b].session
    BY <1>1 DEF Carried
  <1>3. r.sid = NoSid \/ r.sid = jar[b].sid
    BY <1>1 DEF Carried
  <1>4. jar[b].session \in SUBSET Entries /\ jar[b].sid \in Sids /\ NoSid \in Sids
    BY DEF TypeOK, Cookies, Sids
  <1>5. (\A e \in r.session : OfBrowser(login, launch, e, b)) /\ SidOfBrowser(login, r.sid, b)
    BY <1>2, <1>3 DEF HomeInv, JarHome, SidOfBrowser
  <1> QED BY <1>2, <1>3, <1>4, <1>5, OfBrowserStable, SidStable

\* What a step leaves alone stays where it belongs.
LEMMA JarHomeKept ==
  ASSUME TypeOK, HomeInv, BrowsersKept, NEW b \in Browsers,
         jar'[b].session = jar[b].session, jar'[b].sid = jar[b].sid
  PROVE  JarHome(b)'
  <1>1. jar[b].session \in SUBSET Entries /\ jar[b].sid \in Sids
    BY DEF TypeOK, Cookies
  <1> QED BY <1>1, OfBrowserStable, SidStable DEF HomeInv, JarHome

LEMMA LoginHomeKept ==
  ASSUME TypeOK, HomeInv, BrowsersKept, NEW f \in Logins,
         login'[f].browser = login[f].browser, login'[f].session = login[f].session,
         login'[f].sid = login[f].sid, login'[f].pc = "idle" <=> login[f].pc = "idle"
  PROVE  LoginHome(f)'
  <1>1. /\ login[f].session \in SUBSET Entries /\ login[f].sid \in Sids
        /\ login[f].browser \in Browsers \cup {NoBrowser}
    BY DEF TypeOK, LoginRequest
  <1>2. LoginHome(f)
    BY DEF HomeInv
  <1> QED BY <1>1, <1>2, OfBrowserStable, SidStable DEF LoginHome

LEMMA LaunchHomeKept ==
  ASSUME TypeOK, HomeInv, BrowsersKept, NEW p \in Posts, launch'[p] = launch[p],
         p \in vetted' => p \in vetted, p \in accepted' => p \in accepted,
         login[p[1]].pc = "redirected" => login'[p[1]].pc = "redirected"
  PROVE  LaunchHome(p)'
  <1>1. /\ launch[p].session \in SUBSET Entries /\ launch[p].sid \in Sids
        /\ launch[p].browser \in Browsers \cup {NoBrowser}
    BY DEF TypeOK, LaunchRequest
  <1>2. LaunchHome(p) /\ p[1] \in Logins
    BY PostType DEF HomeInv
  <1>3. LoginHome(p[1])
    BY <1>2 DEF HomeInv
  <1>4. launch[p].pc # "idle" => login'[p[1]].browser = login[p[1]].browser
    BY <1>2, <1>3 DEF LaunchHome, LoginHome, BrowsersKept
  <1>5. launch[p].pc # "idle" =>
          /\ \A e \in launch[p].session : OfBrowser(login', launch', e, launch[p].browser)
          /\ SidOfBrowser(login', launch[p].sid, launch[p].browser)
    BY <1>1, <1>2, OfBrowserStable, SidStable DEF LaunchHome
  <1>6. UsesSessionId' = UsesSessionId
    BY DEF UsesSessionId
  <1> QED BY <1>2, <1>4, <1>5, <1>6 DEF LaunchHome

LEMMA EntryHomeKept ==
  ASSUME TypeOK, HomeInv, BrowsersKept, NEW e \in store
  PROVE  EntryHome(login', launch', e)
  <1>1. e \in Entries /\ e.sid \in Sids /\ EntryHome(login, launch, e)
    BY DEF TypeOK, Entries, HomeInv, StoreHome
  <1>2. e.sid \in Logins
    BY <1>1 DEF EntryHome, Sids
  <1>3. /\ login[e.sid].browser \in Browsers
        /\ login'[e.sid].browser = login[e.sid].browser
    BY <1>1, <1>2 DEF EntryHome, BrowsersKept, TypeOK, LoginRequest
  <1> QED BY <1>1, <1>2, <1>3, OfBrowserStable DEF EntryHome

LEMMA StoreHomeKept ==
  ASSUME TypeOK, HomeInv, BrowsersKept, store' = store
  PROVE  StoreHome'
  BY EntryHomeKept DEF HomeInv, StoreHome

LEMMA InitHome == Init => HomeInv
  <1> SUFFICES ASSUME Init PROVE HomeInv
    OBVIOUS
  <1>1. \A b \in Browsers : jar[b].session = {} /\ jar[b].sid = NoSid
    BY DEF Init
  <1>2. \A f \in Logins : login[f].pc = "idle" /\ login[f].browser = NoBrowser
    BY DEF Init
  <1>3. \A p \in Posts : launch[p].pc = "idle" /\ launch[p].browser = NoBrowser
    BY DEF Init
  <1>4. store = {} /\ vetted = {} /\ accepted = {}
    BY DEF Init
  <1> QED BY <1>1, <1>2, <1>3, <1>4
          DEF HomeInv, JarHome, LoginHome, LaunchHome, StoreHome, SidOfBrowser

\* A login arrives: it had no browser before.
LEMMA HomeLoginArrives ==
  ASSUME TypeOK, HomeInv, NEW f \in Logins, NEW b \in Browsers, LoginArrives(f, b)
  PROVE  HomeInv'
  <1>1. /\ login[f].pc = "idle" /\ OthersKept(f) /\ Brings(login'[f], b)
        /\ login'[f].pc = "arrived" /\ login'[f].browser = b
        /\ UNCHANGED <<jar, store, launch, vetted, accepted>>
    BY LoginArrivesStep
  <1>2. login[f].browser = NoBrowser
    BY <1>1 DEF HomeInv, LoginHome
  <1>3. BrowsersKept
    BY <1>1, <1>2 DEF BrowsersKept, OthersKept
  <1>4. \A c \in Browsers : JarHome(c)'
    BY <1>1, <1>3, JarHomeKept
  <1>5. LoginHome(f)'
    BY <1>1, <1>3, BroughtIsHome, ConstantsOK DEF LoginHome
  <1>6. \A g \in Logins : LoginHome(g)'
    BY <1>1, <1>3, <1>5, LoginHomeKept DEF OthersKept
  <1>7. \A g \in Logins : login[g].pc = "redirected" => login'[g].pc = "redirected"
    BY <1>1 DEF OthersKept
  <1>8. \A p \in Posts : LaunchHome(p)'
    BY <1>1, <1>3, <1>7, LaunchHomeKept, PostType
  <1>9. StoreHome'
    BY <1>1, <1>3, StoreHomeKept
  <1> QED BY <1>4, <1>6, <1>8, <1>9 DEF HomeInv

\* It saves its nonce under a session id of its browser, or under its own.
LEMMA HomeLoginHandled ==
  ASSUME TypeOK, HomeInv, Apart, NEW f \in Logins, LoginHandled(f)
  PROVE  HomeInv'
  <1> DEFINE sid == SidOf(f)
             new == LoginEntries(f, sid)
             b == login[f].browser
  <1>1. /\ login[f].pc = "arrived" /\ OthersKept(f)
        /\ login'[f].pc = "handled" /\ login'[f].browser = b /\ login'[f].sid = sid
        /\ login'[f].session = SessionAfter(login[f], new) /\ store' = StoreAfter(new)
        /\ new \in SUBSET Entries /\ sid \in Sids
        /\ UNCHANGED <<jar, launch, vetted, accepted>>
    BY LoginHandledStep
  <1>2. /\ b \in Browsers /\ SidOfBrowser(login, login[f].sid, b)
        /\ login[f].session \in SUBSET Entries
        /\ \A e \in login[f].session : OfBrowser(login, launch, e, b)
    BY <1>1 DEF HomeInv, LoginHome, TypeOK, LoginRequest
  <1>3. BrowsersKept
    BY <1>1 DEF BrowsersKept, OthersKept
  <1>4. \A e \in new : OfBrowser(login, launch, e, b) /\ e.sid = sid
    BY DEF LoginEntries, OfBrowser, Entry, PrepareKey, NonceKey, ParamsKey
  <1>5. SidOfBrowser(login, sid, b)
    BY <1>2 DEF SidOf, SidOfBrowser
  <1>6. /\ \A e \in login'[f].session : e \in login[f].session \/ e \in new
        /\ \A e \in store' : e \in store \/ (e \in new /\ Storage # "session")
    BY <1>1, SavedEntries
  <1> HIDE DEF sid, new, b
  <1>7. \A e \in new \cup login[f].session : OfBrowser(login', launch', e, b)
    BY <1>1, <1>2, <1>3, <1>4, OfBrowserStable
  <1>8. LoginHome(f)'
    BY <1>1, <1>2, <1>3, <1>5, <1>6, <1>7, SidStable, ConstantsOK DEF LoginHome
  <1>9. \A g \in Logins : LoginHome(g)'
    BY <1>1, <1>3, <1>8, LoginHomeKept DEF OthersKept
  <1>10. \A c \in Browsers : JarHome(c)'
    BY <1>1, <1>3, JarHomeKept
  <1>11. \A g \in Logins : login[g].pc = "redirected" => login'[g].pc = "redirected"
    BY <1>1 DEF OthersKept
  <1>12. \A p \in Posts : LaunchHome(p)'
    BY <1>1, <1>3, <1>11, LaunchHomeKept, PostType
  <1>13. ASSUME NEW e \in new, Storage # "session"
         PROVE  EntryHome(login', launch', e)
    <2>1. UsesSessionId
      BY <1>13, ConstantsOK DEF Apart, UsesSessionId
    <2>2. sid # NoSid
      BY <2>1, ConstantsOK DEF SidOf, sid
    <2>3. SidOfBrowser(login', sid, b)
      BY <1>1, <1>2, <1>3, <1>5, SidStable
    <2> QED BY <1>2, <1>4, <1>7, <2>2, <2>3, ConstantsOK DEF SidOfBrowser, EntryHome
  <1>14. StoreHome'
    BY <1>3, <1>6, <1>13, EntryHomeKept DEF StoreHome, HomeInv
  <1> QED BY <1>9, <1>10, <1>12, <1>14 DEF HomeInv

\* It is answered: the browser takes over the session and the session id.
LEMMA HomeLoginEnds ==
  ASSUME TypeOK, HomeInv, NEW f \in Logins, LoginRefused(f) \/ LoginResponds(f)
  PROVE  HomeInv'
  <1> DEFINE b == login[f].browser
  <1>1. /\ OthersKept(f) /\ login'[f].browser = b /\ login'[f].session = login[f].session
        /\ login'[f].sid = login[f].sid
        /\ login[f].pc \in {"arrived", "handled"} /\ login'[f].pc \in {"refused", "redirected"}
        /\ UNCHANGED <<store, launch, vetted, accepted>>
    BY LoginEndsStep
  <1>2. \A c \in Browsers :
          \/ jar'[c].session = jar[c].session /\ jar'[c].sid = jar[c].sid
          \/ c = b /\ jar'[c].session = login[f].session /\ jar'[c].sid \in {f, jar[c].sid}
    <2>1. CASE LoginRefused(f)
      <3>1. jar' = jar
        BY <2>1, LoginEndsStep
      <3> QED BY <3>1
    <2>2. CASE LoginResponds(f)
      <3>1. \A c \in Browsers :
              IF c = b THEN /\ jar'[c].session = login[f].session
                            /\ jar'[c].sid = IF login[f].sid = f THEN f ELSE jar[c].sid
                       ELSE jar'[c] = jar[c]
        <4>1. \A c \in Browsers :
                IF c = login[f].browser
                THEN /\ jar'[c].session = login[f].session
                     /\ jar'[c].sid = IF login[f].sid = f THEN f ELSE jar[c].sid
                     /\ jar'[c].state = [jar[c].state EXCEPT ![f] = clock + StateTtl]
                ELSE jar'[c] = jar[c]
          BY <2>2, LoginEndsStep
        <4> QED BY <4>1
      <3> QED BY <3>1
    <2> QED BY <2>1, <2>2
  <1>3. BrowsersKept
    BY <1>1 DEF BrowsersKept, OthersKept
  <1>4. \A g \in Logins : LoginHome(g)'
    BY <1>1, <1>3, LoginHomeKept DEF OthersKept
  <1>5. \A g \in Logins : login[g].pc = "redirected" => login'[g].pc = "redirected"
    BY <1>1 DEF OthersKept
  <1>6. \A p \in Posts : LaunchHome(p)'
    BY <1>1, <1>3, <1>5, LaunchHomeKept, PostType
  <1>7. ASSUME NEW c \in Browsers PROVE JarHome(c)'
    <2>1. CASE jar'[c].session = jar[c].session /\ jar'[c].sid = jar[c].sid
      BY <1>3, <2>1, JarHomeKept
    <2>2. CASE c = b /\ jar'[c].session = login[f].session /\ jar'[c].sid \in {f, jar[c].sid}
      <3>1. \A e \in login[f].session : OfBrowser(login', launch', e, b)
        BY <1>1, <1>4, <2>2 DEF LoginHome
      <3>2. jar[c].sid \in Sids /\ SidOfBrowser(login, jar[c].sid, c)
        BY DEF HomeInv, JarHome, TypeOK, Cookies
      <3>3. SidOfBrowser(login', jar[c].sid, c)
        BY <1>3, <3>2, SidStable
      <3>4. SidOfBrowser(login', f, c)
        BY <1>1, <2>2 DEF SidOfBrowser
      <3> QED BY <2>2, <3>1, <3>3, <3>4 DEF JarHome
    <2> QED BY <1>2, <2>1, <2>2
  <1>8. StoreHome'
    BY <1>1, <1>3, StoreHomeKept
  <1> QED BY <1>4, <1>6, <1>7, <1>8 DEF HomeInv

\* A launch arrives: it had no browser before.
LEMMA HomePostArrives ==
  ASSUME TypeOK, HomeInv, NEW p \in Posts, NEW b \in Browsers, PostArrives(p, b)
  PROVE  HomeInv'
  <1>1. /\ launch[p].pc = "idle" /\ login[p[1]].pc = "redirected"
        /\ OtherLaunchesKept(p) /\ Brings(launch'[p], b)
        /\ launch'[p].browser = b /\ TokenPosted(p)
        /\ UNCHANGED <<jar, store, login, vetted, accepted>>
    BY PostArrivesStep
  <1>2. IF UsesSessionId /\ launch'[p].sid = NoSid
        THEN launch'[p].pc = "rejected" /\ launch'[p].why = "no_session_id"
        ELSE launch'[p].pc = "arrived" /\ launch'[p].why = ""
    BY PostArrivesStep
  <1>3. launch[p].browser = NoBrowser /\ p \notin vetted /\ p \notin accepted
    BY <1>1 DEF HomeInv, LaunchHome
  <1>4. BrowsersKept
    BY <1>1, <1>3 DEF BrowsersKept, OtherLaunchesKept
  <1>5. \A c \in Browsers : JarHome(c)'
    BY <1>1, <1>4, JarHomeKept
  <1>6. \A f \in Logins : LoginHome(f)'
    BY <1>1, <1>4, LoginHomeKept
  <1>7. launch'[p].tok # 0
    <2>1. p[2] # 0 /\ \A i \in 1 .. p[2] - 1 : <<p[1], i>> \in Posts
      BY PostType
    <2>2. \A i \in 1 .. p[2] - 1 : launch[<<p[1], i>>].tok # 0
      BY <1>1, <2>1 DEF TokenPosted, HomeInv, LaunchHome
    <2> QED BY <1>1, <2>1, <2>2 DEF TokenPosted
  <1>8. UsesSessionId' = UsesSessionId
    BY DEF UsesSessionId
  <1>9. (\A e \in launch'[p].session : OfBrowser(login', launch', e, b)) /\ SidOfBrowser(login', launch'[p].sid, b)
    BY <1>1, <1>4, BroughtIsHome
  <1>10. LaunchHome(p)'
    BY <1>1, <1>2, <1>3, <1>7, <1>8, <1>9, ConstantsOK DEF LaunchHome
  <1>11. \A q \in Posts : LaunchHome(q)'
    BY <1>1, <1>4, <1>10, LaunchHomeKept, PostType DEF OtherLaunchesKept
  <1>12. StoreHome'
    BY <1>1, <1>4, StoreHomeKept
  <1> QED BY <1>5, <1>6, <1>11, <1>12 DEF HomeInv

\* What launch p saves under its session id belongs to its browser.
LEMMA SavedIsHome ==
  ASSUME TypeOK, HomeInv, Apart, BrowsersKept, Storage # "session",
         NEW p \in Posts, launch[p].pc = "verified", NEW e \in LaunchEntries(p)
  PROVE  EntryHome(login', launch', e)
  <1> DEFINE b == launch[p].browser
             sid == launch[p].sid
  <1>1. /\ b \in Browsers /\ sid \in Sids /\ SidOfBrowser(login, sid, b)
        /\ UsesSessionId => sid # NoSid
    BY DEF HomeInv, LaunchHome, TypeOK, LaunchRequest
  <1>2. UsesSessionId
    BY ConstantsOK DEF Apart, UsesSessionId
  <1>3. e.sid = sid /\ (e.key.kind = "launch" => e.key.of = p) /\ e.key.kind # "nonce"
    BY DEF LaunchEntries, Entry, PrepareKey, LaunchKey, HashKey
  <1>4. launch'[p].browser = b
    BY <1>1, ConstantsOK DEF BrowsersKept
  <1>5. SidOfBrowser(login', sid, b)
    BY <1>1, SidStable
  <1> HIDE DEF b, sid
  <1>6. login'[e.sid].browser = b /\ e.sid # NoSid
    BY <1>1, <1>2, <1>3, <1>5 DEF SidOfBrowser
  <1>7. OfBrowser(login', launch', e, b)
    BY <1>3, <1>4 DEF OfBrowser
  <1> QED BY <1>1, <1>6, <1>7, ConstantsOK DEF EntryHome

\* A launch moves on: past its nonce only in the browser whose login saved it.
LEMMA HomeChain ==
  ASSUME TypeOK, HomeInv, Apart, NEW p \in Posts, Chain(p)
  PROVE  HomeInv'
  <1> DEFINE b == launch[p].browser
  <1>1. PICK pc \in Phases, why \in Reasons :
          /\ MovesTo(p, pc, why) /\ ChainMove(p, pc, why)
          /\ vetted' = IF pc = "verified" THEN vetted \cup {p} ELSE vetted
          /\ \A c \in Browsers :
               /\ jar'[c].sid = jar[c].sid
               /\ \/ jar'[c].session = jar[c].session
                  \/ c = b /\ jar'[c].session = launch[p].session
    BY ChainStep
  <1>2. /\ login' = login /\ accepted' = accepted
        /\ \/ store' = store
           \/ /\ SaveFails(p)
              /\ store' = StoreAfter({Entry(launch[p].sid, LaunchKey(p), launch[p].tok)})
    BY ChainStep
  <1>3. /\ OtherLaunchesKept(p) /\ launch'[p].pc = pc /\ launch'[p].why = why
        /\ launch'[p].tok = launch[p].tok /\ launch'[p].session = launch[p].session
        /\ launch'[p].sid = launch[p].sid /\ launch'[p].browser = b
    BY <1>1 DEF MovesTo
  <1>4. BrowsersKept
    BY <1>2, <1>3 DEF BrowsersKept, OtherLaunchesKept
  <1>5. launch[p].pc # "idle" /\ pc # "idle" /\ LaunchHome(p)
    BY <1>1 DEF ChainMove, HomeInv
  <1>6. /\ b \in Browsers /\ launch[p].session \in SUBSET Entries /\ launch[p].sid \in Sids
    BY <1>5 DEF LaunchHome, TypeOK, LaunchRequest
  <1> HIDE DEF b
  <1>7. /\ \A e \in launch[p].session : OfBrowser(login', launch', e, b)
        /\ SidOfBrowser(login', launch[p].sid, b)
    BY <1>4, <1>5, <1>6, OfBrowserStable, SidStable DEF LaunchHome, b
  <1>8. UsesSessionId' = UsesSessionId
    BY DEF UsesSessionId
  <1>9. UsesSessionId /\ launch[p].sid = NoSid => pc = "done"
    BY <1>1, <1>5 DEF LaunchHome, ChainMove
  <1>10. ASSUME pc \in {"nonce", "verified"} \/ p \in vetted' \/ p \in accepted
         PROVE  b = login[p[1]].browser
    <2>1. CASE pc = "nonce"
      <3>1. launch[p].pc = "state" /\ Holds(launch[p], NonceKey(p[1]), 0)
        BY <1>1, <2>1 DEF ChainMove
      <3>2. UsesSessionId => launch[p].sid # NoSid
        BY <1>5, <3>1 DEF LaunchHome
      <3>3. /\ \A e \in launch[p].session : OfBrowser(login, launch, e, b)
            /\ SidOfBrowser(login, launch[p].sid, b)
        BY <1>5 DEF LaunchHome, b
      <3>4. \E e \in View(launch[p]) : e.key = NonceKey(p[1]) /\ OfBrowser(login, launch, e, b)
        BY <3>1, <3>2, <3>3, HeldIsHome
      <3> QED BY <3>4 DEF OfBrowser, NonceKey
    <2>2. CASE pc = "verified"
      BY <1>1, <1>5, <2>2 DEF ChainMove, LaunchHome, b
    <2>3. CASE p \in vetted \/ p \in accepted
      BY <1>5, <2>3 DEF LaunchHome, b
    <2> QED BY <1>1, <1>10, <2>1, <2>2, <2>3
  <1>11. LaunchHome(p)'
    <2>1. launch[p].tok # 0 /\ login[p[1]].pc = "redirected"
      BY <1>5 DEF LaunchHome
    <2>2. b # NoBrowser
      BY <1>6, ConstantsOK
    <2> QED BY <1>2, <1>3, <1>5, <1>7, <1>8, <1>9, <1>10, <2>1, <2>2 DEF LaunchHome
  <1>12. ASSUME NEW q \in Posts PROVE LaunchHome(q)'
    <2>1. CASE q = p
      BY <1>11, <2>1
    <2>2. CASE q # p
      BY <1>1, <1>2, <1>3, <1>4, <2>2, LaunchHomeKept, PostType DEF OtherLaunchesKept
    <2> QED BY <2>1, <2>2
  <1>13. \A f \in Logins : LoginHome(f)'
    BY <1>2, <1>4, LoginHomeKept
  <1>14. ASSUME NEW c \in Browsers PROVE JarHome(c)'
    <2>1. jar'[c].session = jar[c].session => JarHome(c)'
      BY <1>1, <1>4, JarHomeKept
    <2>2. CASE c = b /\ jar'[c].session = launch[p].session
      <3>1. jar[c].sid \in Sids /\ SidOfBrowser(login, jar[c].sid, c)
        BY DEF HomeInv, JarHome, TypeOK, Cookies
      <3>2. SidOfBrowser(login', jar'[c].sid, c)
        BY <1>1, <1>4, <3>1, SidStable
      <3> QED BY <1>7, <2>2, <3>2 DEF JarHome
    <2> QED BY <1>1, <2>1, <2>2
  <1>15. StoreHome'
    <2>1. CASE store' = store
      BY <1>4, <2>1, StoreHomeKept
    <2>2. CASE /\ SaveFails(p)
               /\ store' = StoreAfter({Entry(launch[p].sid, LaunchKey(p), launch[p].tok)})
      <3>1. launch[p].pc = "verified" /\ Storage # "session"
        BY <2>2 DEF SaveFails
      <3> DEFINE new == {Entry(launch[p].sid, LaunchKey(p), launch[p].tok)}
      <3>2. \A e \in new : e \in LaunchEntries(p)
        BY DEF LaunchEntries
      <3> HIDE DEF new
      <3>3. \A e \in new : EntryHome(login', launch', e)
        BY <1>4, <3>1, <3>2, SavedIsHome
      <3>4. \A e \in store' : e \in store \/ e \in new
        BY <2>2, SavedEntries DEF new
      <3> QED BY <1>4, <3>1, <3>3, <3>4, EntryHomeKept DEF StoreHome
    <2> QED BY <1>2, <2>1, <2>2
  <1> QED BY <1>12, <1>13, <1>14, <1>15 DEF HomeInv

\* A launch is saved where it runs.
LEMMA HomeSave ==
  ASSUME TypeOK, HomeInv, Apart, NEW p \in Posts, Save(p)
  PROVE  HomeInv'
  <1> DEFINE b == launch[p].browser
             new == LaunchEntries(p)
  <1>1. /\ launch[p].pc = "verified" /\ OtherLaunchesKept(p)
        /\ launch'[p].pc = "saved" /\ launch'[p].tok = launch[p].tok
        /\ launch'[p].sid = launch[p].sid /\ launch'[p].browser = b
        /\ launch'[p].session = SessionAfter(launch[p], new)
        /\ store' = StoreAfter(new) /\ new \in SUBSET Entries
        /\ accepted' = accepted \cup {p}
        /\ UNCHANGED <<jar, login, vetted>>
    BY SaveStep
  <1>2. BrowsersKept
    BY <1>1 DEF BrowsersKept, OtherLaunchesKept
  <1>3. LaunchHome(p)
    BY DEF HomeInv
  <1>4. b \in Browsers /\ launch[p].session \in SUBSET Entries /\ launch[p].sid \in Sids
    BY <1>1, <1>3 DEF LaunchHome, TypeOK, LaunchRequest
  <1>5. /\ \A e \in launch[p].session : OfBrowser(login', launch', e, b)
        /\ SidOfBrowser(login', launch[p].sid, b)
    BY <1>1, <1>2, <1>3, <1>4, OfBrowserStable, SidStable DEF LaunchHome
  <1>6. \A e \in new : OfBrowser(login', launch', e, b)
    BY <1>1 DEF LaunchEntries, OfBrowser, Entry, PrepareKey, LaunchKey, HashKey
  <1>7. /\ \A e \in launch'[p].session : e \in launch[p].session \/ e \in new
        /\ \A e \in store' : e \in store \/ (e \in new /\ Storage # "session")
    BY <1>1, SavedEntries
  <1>8. UsesSessionId' = UsesSessionId
    BY DEF UsesSessionId
  <1>9. LaunchHome(p)'
    <2>1. /\ launch[p].tok # 0 /\ login[p[1]].pc = "redirected" /\ b = login[p[1]].browser
          /\ UsesSessionId => launch[p].sid # NoSid
      BY <1>1, <1>3 DEF LaunchHome
    <2>2. b # NoBrowser
      BY <1>4, ConstantsOK
    <2>3. \A e \in launch'[p].session : OfBrowser(login', launch', e, b)
      BY <1>5, <1>6, <1>7
    <2> HIDE DEF b, new
    <2> QED BY <1>1, <1>5, <1>8, <2>1, <2>2, <2>3 DEF LaunchHome
  <1>10. ASSUME NEW q \in Posts PROVE LaunchHome(q)'
    <2>1. CASE q = p
      BY <1>9, <2>1
    <2>2. CASE q # p
      BY <1>1, <1>2, <2>2, LaunchHomeKept, PostType DEF OtherLaunchesKept
    <2> QED BY <2>1, <2>2
  <1>11. \A f \in Logins : LoginHome(f)'
    BY <1>1, <1>2, LoginHomeKept
  <1>12. \A c \in Browsers : JarHome(c)'
    BY <1>1, <1>2, JarHomeKept
  <1>13. \A e \in new : Storage # "session" => EntryHome(login', launch', e)
    BY <1>1, <1>2, SavedIsHome
  <1>14. StoreHome'
    BY <1>2, <1>7, <1>13, EntryHomeKept DEF StoreHome, HomeInv
  <1> QED BY <1>10, <1>11, <1>12, <1>14 DEF HomeInv

\* A step that leaves requests, cookies and storage alone.
LEMMA HomeStutter ==
  ASSUME TypeOK, HomeInv, UNCHANGED <<jar, store, login, launch, vetted, accepted>>
  PROVE  HomeInv'
  <1>1. BrowsersKept
    BY DEF BrowsersKept
  <1>2. \A p \in Posts : LaunchHome(p)'
    BY <1>1, LaunchHomeKept
  <1>3. \A f \in Logins : LoginHome(f)'
    BY <1>1, LoginHomeKept
  <1>4. \A b \in Browsers : JarHome(b)'
    BY <1>1, JarHomeKept
  <1> QED BY <1>1, <1>2, <1>3, <1>4, StoreHomeKept DEF HomeInv

\* HomeInv holds in every state.
LEMMA HomeAlways == ASSUME Apart PROVE Spec => []HomeInv
  <1>1. TypeOK /\ HomeInv /\ [Next]_vars => HomeInv'
    <2> SUFFICES ASSUME TypeOK, HomeInv, [Next]_vars PROVE HomeInv'
      OBVIOUS
    <2>1. ASSUME \/ \E b \in Browsers, p \in Posts : Restore(b, p)
                 \/ Tick \/ UNCHANGED vars
          PROVE  UNCHANGED <<jar, store, login, launch, vetted, accepted>>
      BY <2>1 DEF Restore, Tick, vars
    <2> QED BY <2>1, StepCases, HomeLoginArrives, HomeLoginHandled, HomeLoginEnds,
               HomePostArrives, HomeChain, HomeSave, HomeStutter
  <1> QED BY <1>1, InitHome, TypeCorrect, PTL DEF Spec

-----------------------------------------------------------------------------
(* What follows for the application.                                         *)

\* A launch is accepted only in the browser whose login it answers, whatever
\* cookies the browser withholds and however its requests interleave.
THEOREM AcceptedInItsBrowser == ASSUME Apart PROVE Spec => []AcceptedWhereBegun
  <1>1. TypeOK /\ HomeInv => AcceptedWhereBegun
    BY DEF TypeOK, HomeInv, LaunchHome, AcceptedWhereBegun
  <1> QED BY <1>1, HomeAlways, TypeCorrect, PTL

\* The abstract state: Contract's variables in those of LaunchFlow.
Begun == [f \in Logins |-> IF login[f].pc \in {"handled", "redirected"}
                             THEN login[f].browser ELSE NoBrowser]
AsVouched(p) == [post |-> p, browser |-> launch[p].browser, tok |-> launch[p].tok]
Vouched == {AsVouched(p) : p \in vetted}

\* A vetted launch stays vetted, with its token, in its browser.
VouchedKept ==
  \A p \in vetted : /\ p \in vetted' /\ launch'[p].tok = launch[p].tok
                    /\ launch'[p].browser = launch[p].browser

\* The launches that a step vets, and what becomes of the others.
LEMMA VouchedStep ==
  ASSUME VouchedKept
  PROVE  /\ vetted' = vetted => Vouched' = Vouched
         /\ \A p : vetted' = vetted \cup {p} => Vouched' = Vouched \cup {AsVouched(p)'}
  BY DEF VouchedKept, Vouched, AsVouched

\* Only Verify changes what is vetted, and no step changes a vetted launch.
LEMMA StepVets ==
  ASSUME TypeOK, VettedInv, [Next]_vars
  PROVE  /\ VouchedKept
         /\ \/ vetted' = vetted
            \/ \E p \in Posts : /\ launch[p].pc = "nonce" /\ vetted' = vetted \cup {p}
                                /\ launch'[p].tok = launch[p].tok
                                /\ launch'[p].browser = launch[p].browser
                                /\ login' = login /\ restored' = restored
  <1>0. vetted \subseteq Posts
    BY DEF TypeOK
  <1>1. ASSUME NEW f \in Logins, NEW b \in Browsers,
               \/ LoginArrives(f, b) \/ LoginHandled(f) \/ LoginRefused(f) \/ LoginResponds(f)
        PROVE  launch' = launch /\ vetted' = vetted
    BY <1>1 DEF LoginArrives, LoginHandled, LoginRefused, LoginResponds
  <1>2. CASE launch' = launch /\ vetted' = vetted
    BY <1>2 DEF VouchedKept
  <1>3. ASSUME NEW p \in Posts, NEW b \in Browsers, PostArrives(p, b)
        PROVE  VouchedKept /\ vetted' = vetted
    <2>1. launch[p].pc = "idle" /\ OtherLaunchesKept(p) /\ vetted' = vetted
      BY <1>3, PostArrivesStep
    <2>2. p \notin vetted
      BY <2>1 DEF VettedInv
    <2> QED BY <1>0, <2>1, <2>2 DEF VouchedKept, OtherLaunchesKept
  <1>4. ASSUME NEW p \in Posts, Save(p) PROVE VouchedKept /\ vetted' = vetted
    BY <1>0, <1>4, SaveStep DEF VouchedKept, OtherLaunchesKept
  <1>5. ASSUME NEW p \in Posts, Chain(p)
        PROVE  /\ VouchedKept
               /\ \/ vetted' = vetted
                  \/ /\ launch[p].pc = "nonce" /\ vetted' = vetted \cup {p}
                     /\ launch'[p].tok = launch[p].tok
                     /\ launch'[p].browser = launch[p].browser
                     /\ login' = login /\ restored' = restored
    <2>1. PICK pc \in Phases, why \in Reasons :
            /\ MovesTo(p, pc, why) /\ ChainMove(p, pc, why)
            /\ vetted' = IF pc = "verified" THEN vetted \cup {p} ELSE vetted
      BY <1>5, ChainStep
    <2>2. \A q \in Posts : /\ launch'[q].tok = launch[q].tok
                           /\ launch'[q].browser = launch[q].browser
      BY <2>1 DEF MovesTo, OtherLaunchesKept
    <2>3. VouchedKept
      BY <1>0, <2>1, <2>2 DEF VouchedKept
    <2>4. pc = "verified" => launch[p].pc = "nonce"
      BY <2>1 DEF ChainMove
    <2>5. login' = login /\ restored' = restored
      BY <1>5, ChainStep
    <2> QED BY <2>1, <2>2, <2>3, <2>4, <2>5
  <1>6. ASSUME \/ \E b \in Browsers, p \in Posts : Restore(b, p)
               \/ Tick \/ UNCHANGED vars
        PROVE  launch' = launch /\ vetted' = vetted
    BY <1>6 DEF Restore, Tick, vars
  <1>7. ASSUME NEW f \in Logins, LoginHandled(f) \/ LoginRefused(f) \/ LoginResponds(f)
        PROVE  launch' = launch /\ vetted' = vetted
    BY <1>7 DEF LoginHandled, LoginRefused, LoginResponds
  <1> QED BY <1>1, <1>2, <1>3, <1>4, <1>5, <1>6, <1>7, StepCases

\* from_cache hands out only what is vouched for, to its browser.
LEMMA RestoreHandsBack ==
  ASSUME TypeOK, VettedInv, HomeInv, Apart, NEW p \in Posts, NEW b \in Browsers, Restore(b, p)
  PROVE  /\ p \in vetted /\ launch[p].browser = b
         /\ restored' = restored \cup {AsVouched(p)}
         /\ UNCHANGED <<login, launch, vetted>>
  <1> DEFINE r == Carried(b, TRUE)
  <1>1. PICK tok : /\ Holds(r, LaunchKey(p), tok)
                   /\ restored' = restored \cup {[browser |-> b, post |-> p, tok |-> tok]}
    BY DEF Restore
  <1>2. /\ r.session = IF Storage = "session" THEN jar[b].session ELSE {}
        /\ UsesSessionId => r.sid = jar[b].sid /\ r.sid # NoSid
    BY DEF Carried, Restore
  <1>3. JarHome(b)
    BY DEF HomeInv
  <1> HIDE DEF r
  <1>4. PICK e \in View(r) : e.key = LaunchKey(p) /\ e.val = tok /\ OfBrowser(login, launch, e, b)
    <2>1. \A e \in r.session : OfBrowser(login, launch, e, b)
      BY <1>2, <1>3 DEF JarHome
    <2>2. UsesSessionId => r.sid # NoSid /\ SidOfBrowser(login, r.sid, b)
      BY <1>2, <1>3 DEF JarHome
    <2>3. Holds(r, LaunchKey(p), tok)
      BY <1>1
    <2> HIDE <1>1, <1>2, <1>3
    <2> QED BY <2>1, <2>2, <2>3, HeldIsHome
  <1>5. Trusted(e)
    BY <1>2, <1>4 DEF View, VettedInv
  <1>6. p \in vetted /\ launch[p].tok = tok /\ launch[p].browser = b
    BY <1>4, <1>5 DEF Trusted, OfBrowser, LaunchKey
  <1>7. AsVouched(p) = [browser |-> b, post |-> p, tok |-> tok]
    BY <1>6 DEF AsVouched
  <1> QED BY <1>1, <1>6, <1>7 DEF Restore

\* Only Restore hands anything out.
LEMMA OthersRestoreNothing ==
  ASSUME [Next]_vars, ~\E b \in Browsers, p \in Posts : Restore(b, p)
  PROVE  restored' = restored
  BY DEF Next, Server, Delivery, User, LoginArrives, LoginHandled, LoginRefused, LoginResponds,
         PostArrives, CheckState, CheckFormat, CheckNonce, Step, Verify, FetchFails, Save,
         SaveFails, Revalidate, LaunchResponds, Tick, vars

\* What from_cache has handed out is the body of a launch that passed every
\* check and ran in that browser.
THEOREM RestoredWasVetted == ASSUME Apart PROVE Spec => []RestoredIsVetted
  <1>1. Init => RestoredIsVetted
    BY DEF Init, RestoredIsVetted
  <1>2. TypeOK /\ VettedInv /\ HomeInv /\ RestoredIsVetted /\ [Next]_vars => RestoredIsVetted'
    <2> SUFFICES ASSUME TypeOK, VettedInv, HomeInv, RestoredIsVetted, [Next]_vars
                 PROVE  RestoredIsVetted'
      OBVIOUS
    <2>1. \A r \in restored : /\ r.post \in vetted'
                              /\ launch'[r.post].tok = r.tok
                              /\ launch'[r.post].browser = r.browser
      BY StepVets DEF VouchedKept, RestoredIsVetted
    <2>2. ASSUME NEW b \in Browsers, NEW p \in Posts, Restore(b, p)
          PROVE  RestoredIsVetted'
      BY <2>1, <2>2, RestoreHandsBack DEF RestoredIsVetted, AsVouched
    <2> QED BY <2>1, <2>2, OthersRestoreNothing DEF RestoredIsVetted
  <1> QED BY <1>1, <1>2, TypeCorrect, VettedAlways, HomeAlways, PTL DEF Spec

-----------------------------------------------------------------------------
(* The refinement: each step of LaunchFlow is a step of LaunchContract or    *)
(* leaves what the application sees as it was.                               *)

\* Every step but those of a login leaves what has begun alone.
LEMMA BegunKept ==
  ASSUME \A f \in Logins : /\ login'[f].browser = login[f].browser
                           /\ login'[f].pc \in {"handled", "redirected"} <=>
                                login[f].pc \in {"handled", "redirected"}
  PROVE  Begun' = Begun
  BY DEF Begun

\* A login begins when its nonce is saved.
LEMMA LoginHandledBegins ==
  ASSUME TypeOK, HomeInv, NEW f \in Logins, LoginHandled(f)
  PROVE  \E b \in Browsers : Begun[f] = NoBrowser /\ Begun' = [Begun EXCEPT ![f] = b]
  <1>1. /\ login[f].pc = "arrived" /\ OthersKept(f)
        /\ login'[f].pc = "handled" /\ login'[f].browser = login[f].browser
    BY LoginHandledStep
  <1>2. login[f].browser \in Browsers
    BY <1>1 DEF HomeInv, LoginHome, TypeOK, LoginRequest
  <1>3. Begun[f] = NoBrowser
    BY <1>1 DEF Begun
  <1>4. \A g \in Logins : Begun'[g] = [Begun EXCEPT ![f] = login[f].browser][g]
    BY <1>1 DEF Begun, OthersKept
  <1>5. Begun' = [Begun EXCEPT ![f] = login[f].browser]
    BY <1>4 DEF Begun
  <1> QED BY <1>2, <1>3, <1>5

\* No other step begins one.
LEMMA OthersBeginNothing ==
  ASSUME TypeOK, [Next]_vars, ~\E f \in Logins : LoginHandled(f)
  PROVE  Begun' = Begun
  <1>1. ASSUME NEW f \in Logins, NEW b \in Browsers, LoginArrives(f, b) PROVE Begun' = Begun
    <2>1. \A g \in Logins : g # f => login'[g] = login[g]
      BY <1>1, LoginArrivesStep DEF OthersKept
    <2>2. login[f].pc = "idle" /\ login'[f].pc = "arrived"
      BY <1>1, LoginArrivesStep
    <2> QED BY <2>1, <2>2 DEF Begun
  <1>2. ASSUME NEW f \in Logins, LoginRefused(f) \/ LoginResponds(f) PROVE Begun' = Begun
    <2>1. /\ OthersKept(f) /\ login'[f].browser = login[f].browser
          /\ \/ login[f].pc = "arrived" /\ login'[f].pc = "refused"
             \/ login[f].pc = "handled" /\ login'[f].pc = "redirected"
      BY <1>2, LoginEndsStep
    <2> QED BY <2>1, BegunKept DEF OthersKept
  <1>3. ASSUME login' = login PROVE Begun' = Begun
    BY <1>3 DEF Begun
  <1>4. ASSUME NEW p \in Posts, NEW b \in Browsers,
               Chain(p) \/ Save(p) \/ PostArrives(p, b) \/ Restore(b, p)
        PROVE  login' = login
    BY <1>4, ChainStep, SaveStep, PostArrivesStep DEF Restore
  <1>5. ASSUME NEW p \in Posts, Chain(p) \/ Save(p) PROVE login' = login
    BY <1>5, ChainStep, SaveStep
  <1>6. ASSUME Tick \/ UNCHANGED vars PROVE login' = login
    BY <1>6 DEF Tick, vars
  <1> QED BY <1>1, <1>2, <1>3, <1>4, <1>5, <1>6, StepCases

\* A launch is vouched for in the browser whose login it answers, with the
\* token it came with, once.
LEMMA VerifyVouches ==
  ASSUME TypeOK, HomeInv, NEW p \in Posts, launch[p].pc = "nonce", p \notin vetted
  PROVE  /\ Begun[p[1]] # NoBrowser /\ launch[p].tok \in 1 .. MaxPosts
         /\ \A v \in Vouched : v.post # p
         /\ AsVouched(p) = [post |-> p, browser |-> Begun[p[1]], tok |-> launch[p].tok]
  <1>1. p[1] \in Logins
    BY PostType
  <1>2. /\ login[p[1]].pc = "redirected" /\ launch[p].tok # 0
        /\ launch[p].browser = login[p[1]].browser /\ launch[p].browser # NoBrowser
    BY DEF HomeInv, LaunchHome
  <1>3. launch[p].tok \in 0 .. MaxPosts
    BY DEF TypeOK, LaunchRequest
  <1>4. Begun[p[1]] = launch[p].browser
    BY <1>1, <1>2 DEF Begun
  <1> QED BY <1>2, <1>3, <1>4, ConstantsOK DEF Vouched, AsVouched

LEMMA StepImplements ==
  ASSUME TypeOK, VettedInv, HomeInv, Apart, [Next]_vars
  PROVE  \/ \E f \in Logins, b \in Browsers :
              /\ Begun[f] = NoBrowser /\ Begun' = [Begun EXCEPT ![f] = b]
              /\ Vouched' = Vouched /\ restored' = restored
         \/ \E p \in Posts, tok \in 1 .. MaxPosts :
              /\ Begun[p[1]] # NoBrowser /\ \A v \in Vouched : v.post # p
              /\ Vouched' = Vouched \cup {[post |-> p, browser |-> Begun[p[1]], tok |-> tok]}
              /\ Begun' = Begun /\ restored' = restored
         \/ \E v \in Vouched : /\ restored' = restored \cup {v}
                               /\ Begun' = Begun /\ Vouched' = Vouched
         \/ Begun' = Begun /\ Vouched' = Vouched /\ restored' = restored
  <1>1. ASSUME NEW f \in Logins, LoginHandled(f)
        PROVE  /\ \E b \in Browsers : Begun[f] = NoBrowser /\ Begun' = [Begun EXCEPT ![f] = b]
               /\ Vouched' = Vouched /\ restored' = restored
    <2>1. vetted' = vetted /\ launch' = launch /\ restored' = restored
      BY <1>1, LoginHandledStep
    <2> QED BY <1>1, <2>1, LoginHandledBegins, StepVets, VouchedStep
  <1>2. ASSUME NEW b \in Browsers, NEW p \in Posts, Restore(b, p)
        PROVE  \E v \in Vouched : /\ restored' = restored \cup {v}
                                  /\ Begun' = Begun /\ Vouched' = Vouched
    <2>1. /\ p \in vetted /\ restored' = restored \cup {AsVouched(p)}
          /\ UNCHANGED <<login, launch, vetted>>
      BY <1>2, RestoreHandsBack
    <2>2. AsVouched(p) \in Vouched /\ Begun' = Begun /\ Vouched' = Vouched
      BY <2>1 DEF Vouched, AsVouched, Begun
    <2> QED BY <2>1, <2>2
  <1>3. ASSUME ~\E f \in Logins : LoginHandled(f),
               ~\E b \in Browsers, p \in Posts : Restore(b, p)
        PROVE  \/ \E p \in Posts, tok \in 1 .. MaxPosts :
                    /\ Begun[p[1]] # NoBrowser /\ \A v \in Vouched : v.post # p
                    /\ Vouched' = Vouched \cup {[post |-> p, browser |-> Begun[p[1]], tok |-> tok]}
                    /\ Begun' = Begun /\ restored' = restored
               \/ Begun' = Begun /\ Vouched' = Vouched /\ restored' = restored
    <2>1. Begun' = Begun /\ restored' = restored
      BY <1>3, OthersBeginNothing, OthersRestoreNothing
    <2>2. CASE vetted' = vetted
      BY <2>1, <2>2, StepVets, VouchedStep
    <2>3. ASSUME NEW p \in Posts, launch[p].pc = "nonce", vetted' = vetted \cup {p},
                 launch'[p].tok = launch[p].tok, launch'[p].browser = launch[p].browser
          PROVE  \/ Vouched' = Vouched
                 \/ \E tok \in 1 .. MaxPosts :
                      /\ Begun[p[1]] # NoBrowser /\ \A v \in Vouched : v.post # p
                      /\ Vouched' = Vouched \cup
                           {[post |-> p, browser |-> Begun[p[1]], tok |-> tok]}
      <3>1. CASE p \in vetted
        <4>1. vetted' = vetted
          BY <2>3, <3>1
        <4> QED BY <4>1, StepVets, VouchedStep
      <3>2. CASE p \notin vetted
        <4>1. Vouched' = Vouched \cup {AsVouched(p)'}
          BY <2>3, StepVets, VouchedStep
        <4>2. AsVouched(p)' = AsVouched(p)
          BY <2>3 DEF AsVouched
        <4> QED BY <2>3, <3>2, <4>1, <4>2, VerifyVouches
      <3> QED BY <3>1, <3>2
    <2> QED BY <2>1, <2>2, <2>3, StepVets
  <1> QED BY <1>1, <1>2, <1>3

\* LaunchFlow implements LaunchContract: an application sees a login begin once,
\* a launch vouched for once, in the browser of its login, and launch data handed
\* back as it was vouched for.
THEOREM Implements == ASSUME Apart PROVE Spec => ImplementsContract
  <1>1. Init => Contract!Init
    <2> SUFFICES ASSUME Init PROVE Contract!Init
      OBVIOUS
    <2>1. \A f \in Logins : login[f].pc = "idle"
      BY DEF Init
    <2>2. vetted = {} /\ restored = {}
      BY DEF Init
    <2> QED BY <2>1, <2>2 DEF Contract!Init
  <1>2. TypeOK /\ VettedInv /\ HomeInv /\ [Next]_vars =>
          [Contract!Next]_<<Begun, Vouched, restored>>
    BY StepImplements DEF Contract!Next, Contract!Begin, Contract!Vouch, Contract!HandBack,
         Begun, Vouched, AsVouched
  <1> QED BY <1>1, <1>2, TypeCorrect, VettedAlways, HomeAlways, PTL
          DEF Spec, ImplementsContract, Contract!Spec, Begun, Vouched, AsVouched

-----------------------------------------------------------------------------
(* What a login leaves behind lasts.                                         *)

Sequential == ~Overlap /\ ~CookiesMayBeDropped

-----------------------------------------------------------------------------
(* What a view of the storage holds.                                         *)

\* The view that a request with the copy s of the session has of the cache st.
ViewOf(s, st) == IF Storage = "session" THEN s ELSE st

\* The entries under session id sid can be asked for.
Usable(sid) == UsesSessionId => sid # NoSid

HasNonce(view, sid, f) ==
  /\ Usable(sid)
  /\ \E e \in view : e.sid = sid /\ e.key = NonceKey(f) /\ e.val = 0 /\ e.exp >= DataTtl

\* Of the launches ps, of which acc are accepted: the mark of state f is the
\* token of one that was accepted.
HasHash(ps, acc, view, sid, f) ==
  /\ Usable(sid)
  /\ \E e \in view : /\ e.sid = sid /\ e.key = HashKey(f) /\ e.exp >= DataTtl
                     /\ \E q \in Posts : q \in acc /\ q[1] = f /\ ps[q].tok = e.val

\* The view has all that browser b was promised: the nonce of each login that
\* left it a state cookie, a mark for each login with an accepted launch.
KeptFor(state, ps, acc, b, view, sid) ==
  /\ \A f \in Logins : state[f] > 0 => HasNonce(view, sid, f)
  /\ \A p \in Posts : p \in acc /\ ps[p].browser = b /\ ps[p].pc = "done" =>
                        HasHash(ps, acc, view, sid, p[1])

\* What a browser with these cookies sends with a request.
SessionNow(cookies) == IF Storage = "session" THEN cookies.session ELSE {}
SidNow(cookies) == IF UsesSessionId THEN cookies.sid ELSE NoSid

ActiveLogin(f)  == login[f].pc \in {"arrived", "handled"}
ActiveLaunch(p) == launch[p].pc \notin {"idle", "done"}

\* A browser has one request on its way or being handled at most.
OneAtATime ==
  /\ \A f \in Logins : ActiveLogin(f) => login[f].browser \in Browsers
  /\ \A p \in Posts : ActiveLaunch(p) => launch[p].browser \in Browsers
  /\ \A f, g \in Logins : ActiveLogin(f) /\ ActiveLogin(g) =>
                            f = g \/ login[f].browser # login[g].browser
  /\ \A p, q \in Posts : ActiveLaunch(p) /\ ActiveLaunch(q) =>
                           p = q \/ launch[p].browser # launch[q].browser
  /\ \A f \in Logins, p \in Posts : ActiveLogin(f) /\ ActiveLaunch(p) =>
                                      login[f].browser # launch[p].browser

KeptJar(b) ==
  KeptFor(jar[b].state, launch, accepted, b, ViewOf(SessionNow(jar[b]), store), SidNow(jar[b]))

\* A login that has saved its nonce is about to hand the browser a view that
\* has everything; before that it holds what the browser has.
KeptLogin(f) ==
  /\ login[f].pc = "arrived" => /\ login[f].session = SessionNow(jar[login[f].browser])
                                /\ login[f].sid = SidNow(jar[login[f].browser])
  /\ login[f].pc = "handled" =>
       /\ login[f].sid = IF UsesSessionId /\ SidNow(jar[login[f].browser]) = NoSid
                         THEN f ELSE SidNow(jar[login[f].browser])
       /\ KeptFor(jar[login[f].browser].state, launch, accepted, login[f].browser,
                  ViewOf(login[f].session, store), login[f].sid)
       /\ HasNonce(ViewOf(login[f].session, store), login[f].sid, f)

KeptLaunch(p) ==
  /\ ActiveLaunch(p) =>
       /\ launch[p].sid = SidNow(jar[launch[p].browser])
       /\ \A f \in launch[p].states : jar[launch[p].browser].state[f] > 0
       /\ launch[p].pc # "saved" => launch[p].session = SessionNow(jar[launch[p].browser])
       /\ Usable(launch[p].sid) \/ (launch[p].pc = "rejected" /\ launch[p].why = "no_session_id")
  /\ launch[p].pc = "saved" =>
       /\ KeptFor(jar[launch[p].browser].state, launch, accepted, launch[p].browser,
                  ViewOf(launch[p].session, store), launch[p].sid)
       /\ HasHash(launch, accepted, ViewOf(launch[p].session, store), launch[p].sid, p[1])

KeptInv ==
  /\ OneAtATime
  /\ \A b \in Browsers : KeptJar(b)
  /\ \A f \in Logins : KeptLogin(f)
  /\ \A p \in Posts : KeptLaunch(p)

-----------------------------------------------------------------------------
(* What a step leaves in the storage.                                        *)

\* Entries that can replace others: fresh, with the nonce's one value or the
\* token of an accepted launch.
Sound(ps, acc, new) ==
  \A e \in new : /\ e.exp >= DataTtl
                 /\ e.key.kind = "nonce" => e.val = 0
                 /\ e.key.kind = "id-token-hash" =>
                      \E q \in Posts : q \in acc /\ q[1] = e.key.of /\ ps[q].tok = e.val

LEMMA PutHasNonce ==
  ASSUME NEW ps, NEW acc, NEW view, NEW new, Sound(ps, acc, new), NEW sid, NEW f,
         HasNonce(view, sid, f)
  PROVE  HasNonce(Put(view, new), sid, f)
  <1>1. PICK e \in view : e.sid = sid /\ e.key = NonceKey(f) /\ e.val = 0 /\ e.exp >= DataTtl
    BY DEF HasNonce
  <1>2. CASE \E n \in new : <<e.sid, e.key>> = <<n.sid, n.key>>
    BY <1>1, <1>2 DEF HasNonce, Sound, Put, NonceKey
  <1>3. CASE \A n \in new : <<e.sid, e.key>> # <<n.sid, n.key>>
    BY <1>1, <1>3 DEF HasNonce, Put
  <1> QED BY <1>2, <1>3

LEMMA HashStable ==
  ASSUME AcceptedKept, NEW view, NEW sid, NEW f, HasHash(launch, accepted, view, sid, f)
  PROVE  HasHash(launch', accepted', view, sid, f)
  BY DEF AcceptedKept, HasHash

LEMMA PutHasHash ==
  ASSUME NEW ps, NEW acc, NEW view, NEW new, Sound(ps, acc, new), NEW sid, NEW f,
         HasHash(ps, acc, view, sid, f)
  PROVE  HasHash(ps, acc, Put(view, new), sid, f)
  <1>1. PICK e \in view : /\ e.sid = sid /\ e.key = HashKey(f) /\ e.exp >= DataTtl
                          /\ \E q \in Posts : q \in acc /\ q[1] = f /\ ps[q].tok = e.val
    BY DEF HasHash
  <1>2. CASE \E n \in new : <<e.sid, e.key>> = <<n.sid, n.key>>
    <2>1. PICK n \in new : n.sid = sid /\ n.key = HashKey(f)
      BY <1>1, <1>2
    <2>2. n.exp >= DataTtl /\ \E q \in Posts : q \in acc /\ q[1] = f /\ ps[q].tok = n.val
      BY <2>1 DEF Sound, HashKey
    <2> QED BY <2>1, <2>2 DEF HasHash, Put
  <1>3. CASE \A n \in new : <<e.sid, e.key>> # <<n.sid, n.key>>
    <2>1. e \in Put(view, new)
      BY <1>3 DEF Put
    <2> QED BY <1>1, <2>1 DEF HasHash
  <1> QED BY <1>2, <1>3

\* What a request sees of its own writes.
LEMMA ViewAfterSave ==
  ASSUME NEW r, NEW new
  PROVE  ViewOf(SessionAfter(r, new), StoreAfter(new)) = Put(ViewOf(r.session, store), new)
  BY DEF ViewOf, SessionAfter, StoreAfter

\* No view loses a nonce or a mark.
ViewsKept ==
  \A s, sid, f :
    /\ HasNonce(ViewOf(s, store), sid, f) => HasNonce(ViewOf(s, store'), sid, f)
    /\ HasHash(launch, accepted, ViewOf(s, store), sid, f) =>
         HasHash(launch', accepted', ViewOf(s, store'), sid, f)

LEMMA ViewsKeptUnchanged == ASSUME AcceptedKept, store' = store PROVE ViewsKept
  BY HashStable DEF ViewsKept

LEMMA ViewsKeptBySave ==
  ASSUME AcceptedKept, NEW new, Sound(launch', accepted', new), store' = StoreAfter(new)
  PROVE  ViewsKept
  <1> SUFFICES ASSUME NEW s, NEW sid, NEW f
               PROVE  /\ HasNonce(ViewOf(s, store), sid, f) => HasNonce(ViewOf(s, store'), sid, f)
                      /\ HasHash(launch, accepted, ViewOf(s, store), sid, f) =>
                           HasHash(launch', accepted', ViewOf(s, store'), sid, f)
    BY DEF ViewsKept
  <1>1. CASE Storage = "session"
    BY <1>1, HashStable DEF ViewOf
  <1>2. CASE Storage # "session"
    <2>1. store' = Put(store, new)
      BY <1>2 DEF StoreAfter
    <2> QED BY <1>2, <2>1, PutHasNonce, PutHasHash, HashStable DEF ViewOf
  <1> QED BY <1>1, <1>2

-----------------------------------------------------------------------------
(* A step of one browser leaves the others as they were, and its own but for  *)
(* the request that moves.                                                   *)

JarKept(b) == /\ SessionNow(jar'[b]) = SessionNow(jar[b]) /\ SidNow(jar'[b]) = SidNow(jar[b])
              /\ jar'[b].state = jar[b].state

\* The step does not complete an accepted launch of browser b.
NoNewDone(b) ==
  \A p \in Posts : p \in accepted' /\ launch'[p].browser = b /\ launch'[p].pc = "done" =>
                     p \in accepted /\ launch[p].browser = b /\ launch[p].pc = "done"

LEMMA KeptForStable ==
  ASSUME ViewsKept, NEW b, NEW s, NEW sid, NEW state, NoNewDone(b),
         KeptFor(state, launch, accepted, b, ViewOf(s, store), sid)
  PROVE  KeptFor(state, launch', accepted', b, ViewOf(s, store'), sid)
  <1>1. \A f : HasNonce(ViewOf(s, store), sid, f) => HasNonce(ViewOf(s, store'), sid, f)
    BY DEF ViewsKept
  <1>2. \A f : HasHash(launch, accepted, ViewOf(s, store), sid, f) =>
                 HasHash(launch', accepted', ViewOf(s, store'), sid, f)
    BY DEF ViewsKept
  <1> QED BY <1>1, <1>2 DEF KeptFor, NoNewDone

LEMMA JarStays ==
  ASSUME ViewsKept, NEW b \in Browsers, JarKept(b), NoNewDone(b), KeptJar(b)
  PROVE  KeptJar(b)'
  <1>1. KeptFor(jar[b].state, launch', accepted', b, ViewOf(SessionNow(jar[b]), store'), SidNow(jar[b]))
    BY KeptForStable DEF KeptJar
  <1>2. /\ SessionNow(jar'[b]) = SessionNow(jar[b]) /\ SidNow(jar'[b]) = SidNow(jar[b])
        /\ jar'[b].state = jar[b].state
    BY DEF JarKept
  <1> QED BY <1>1, <1>2 DEF KeptJar

LEMMA LoginStays ==
  ASSUME ViewsKept, NEW f \in Logins, KeptLogin(f), login'[f] = login[f],
         ActiveLogin(f) => JarKept(login[f].browser) /\ NoNewDone(login[f].browser)
  PROVE  KeptLogin(f)'
  <1> DEFINE b == login[f].browser
  <1>1. CASE login[f].pc = "arrived"
    BY <1>1 DEF KeptLogin, ActiveLogin, JarKept, SessionNow, SidNow
  <1>2. CASE login[f].pc = "handled"
    <2>1. /\ login[f].sid = IF UsesSessionId /\ SidNow(jar[b]) = NoSid THEN f ELSE SidNow(jar[b])
          /\ KeptFor(jar[b].state, launch, accepted, b, ViewOf(login[f].session, store), login[f].sid)
          /\ HasNonce(ViewOf(login[f].session, store), login[f].sid, f)
      BY <1>2 DEF KeptLogin
    <2>2. JarKept(b) /\ NoNewDone(b)
      BY <1>2 DEF ActiveLogin
    <2>3. KeptFor(jar[b].state, launch', accepted', b, ViewOf(login[f].session, store'), login[f].sid)
      BY <2>1, <2>2, KeptForStable
    <2>4. HasNonce(ViewOf(login[f].session, store'), login[f].sid, f)
      BY <2>1 DEF ViewsKept
    <2>5. jar'[b].state = jar[b].state /\ SidNow(jar'[b]) = SidNow(jar[b])
      BY <2>2 DEF JarKept
    <2> QED BY <1>2, <2>1, <2>3, <2>4, <2>5 DEF KeptLogin
  <1>3. CASE ~ActiveLogin(f)
    BY <1>3 DEF ActiveLogin, KeptLogin
  <1> QED BY <1>1, <1>2, <1>3 DEF ActiveLogin

LEMMA LaunchStays ==
  ASSUME ViewsKept, NEW p \in Posts, KeptLaunch(p), launch'[p] = launch[p],
         ActiveLaunch(p) => JarKept(launch[p].browser) /\ NoNewDone(launch[p].browser)
  PROVE  KeptLaunch(p)'
  <1> DEFINE b == launch[p].browser
  <1>1. CASE ~ActiveLaunch(p)
    BY <1>1 DEF ActiveLaunch, KeptLaunch
  <1>2. CASE ActiveLaunch(p)
    <2>1. JarKept(b) /\ NoNewDone(b)
      BY <1>2
    <2>2. launch[p].pc = "saved" =>
            /\ KeptFor(jar[b].state, launch', accepted', b, ViewOf(launch[p].session, store'), launch[p].sid)
            /\ HasHash(launch', accepted', ViewOf(launch[p].session, store'), launch[p].sid, p[1])
      BY <2>1, KeptForStable DEF KeptLaunch, ViewsKept
    <2>3. jar'[b].state = jar[b].state /\ SidNow(jar'[b]) = SidNow(jar[b]) /\ SessionNow(jar'[b]) = SessionNow(jar[b])
      BY <2>1 DEF JarKept
    <2> QED BY <1>2, <2>2, <2>3 DEF KeptLaunch, ActiveLaunch
  <1> QED BY <1>1, <1>2

\* What KeptInv says after a step that moves login f alone: of f itself and of
\* its browser there is more to show.
LEMMA OthersStay ==
  ASSUME TypeOK, KeptInv, ViewsKept, NEW b0,
         \A b \in Browsers : b # b0 => JarKept(b) /\ NoNewDone(b)
  PROVE  /\ \A b \in Browsers : b # b0 => KeptJar(b)'
         /\ \A f \in Logins : login'[f] = login[f] /\ login[f].browser # b0 => KeptLogin(f)'
         /\ \A p \in Posts : launch'[p] = launch[p] /\ launch[p].browser # b0 => KeptLaunch(p)'
  <1>1. ASSUME NEW b \in Browsers, b # b0 PROVE KeptJar(b)'
    BY <1>1, JarStays DEF KeptInv
  <1>2. ASSUME NEW f \in Logins, login'[f] = login[f], login[f].browser # b0 PROVE KeptLogin(f)'
    <2>1. ActiveLogin(f) => login[f].browser \in Browsers
      BY DEF KeptInv, OneAtATime
    <2>2. ActiveLogin(f) => JarKept(login[f].browser) /\ NoNewDone(login[f].browser)
      BY <1>2, <2>1
    <2> QED BY <1>2, <2>2, LoginStays DEF KeptInv
  <1>3. ASSUME NEW p \in Posts, launch'[p] = launch[p], launch[p].browser # b0 PROVE KeptLaunch(p)'
    <2>1. ActiveLaunch(p) => launch[p].browser \in Browsers
      BY DEF KeptInv, OneAtATime
    <2>2. ActiveLaunch(p) => JarKept(launch[p].browser) /\ NoNewDone(launch[p].browser)
      BY <1>3, <2>1
    <2> QED BY <1>3, <2>2, LaunchStays DEF KeptInv
  <1> QED BY <1>1, <1>2, <1>3

\* Requests that are not active have nothing to keep.
LEMMA InactiveKept ==
  /\ \A f \in Logins : ~ActiveLogin(f)' => KeptLogin(f)'
  /\ \A p \in Posts : ~ActiveLaunch(p)' => KeptLaunch(p)'
  BY DEF ActiveLogin, ActiveLaunch, KeptLogin, KeptLaunch

\* A login that moves on, or a launch, makes no browser busier.
LEMMA LoginMovesAlone ==
  ASSUME OneAtATime, NEW f \in Logins, OthersKept(f), launch' = launch,
         ActiveLogin(f)' => ActiveLogin(f), login'[f].browser = login[f].browser
  PROVE  OneAtATime'
  BY DEF OneAtATime, OthersKept, ActiveLogin, ActiveLaunch

LEMMA LaunchMovesAlone ==
  ASSUME OneAtATime, NEW p \in Posts, OtherLaunchesKept(p), login' = login,
         ActiveLaunch(p)' => ActiveLaunch(p), launch'[p].browser = launch[p].browser
  PROVE  OneAtATime'
  BY DEF OneAtATime, OtherLaunchesKept, ActiveLogin, ActiveLaunch

\* Only the request of browser b that moves can be active in b.
LEMMA AloneInBrowser ==
  ASSUME OneAtATime
  PROVE  /\ \A f, g \in Logins : ActiveLogin(f) /\ ActiveLogin(g) /\ g # f =>
                                   login[g].browser # login[f].browser
         /\ \A f \in Logins, p \in Posts : ActiveLogin(f) /\ ActiveLaunch(p) =>
                                             login[f].browser # launch[p].browser
         /\ \A p, q \in Posts : ActiveLaunch(p) /\ ActiveLaunch(q) /\ q # p =>
                                  launch[q].browser # launch[p].browser
  BY DEF OneAtATime

LEMMA AcceptedStay ==
  ASSUME TypeOK, SeenInv, [Next]_vars
  PROVE  AcceptedKept
  <1>0. accepted \subseteq Posts
    BY DEF TypeOK
  <1>1. ASSUME launch' = launch, accepted' = accepted PROVE AcceptedKept
    BY <1>1 DEF AcceptedKept
  <1>2. ASSUME NEW p \in Posts, NEW b \in Browsers, PostArrives(p, b) PROVE AcceptedKept
    <2>1. launch[p].pc = "idle" /\ OtherLaunchesKept(p) /\ accepted' = accepted
      BY <1>2, PostArrivesStep
    <2>2. p \notin accepted
      BY <2>1 DEF SeenInv, SeenLaunch
    <2> QED BY <1>0, <2>1, <2>2 DEF AcceptedKept, OtherLaunchesKept
  <1>3. ASSUME NEW p \in Posts, Save(p) PROVE AcceptedKept
    BY <1>0, <1>3, SaveStep DEF AcceptedKept, OtherLaunchesKept
  <1>4. ASSUME NEW p \in Posts, Chain(p) PROVE AcceptedKept
    <2>1. PICK pc \in Phases, why \in Reasons : MovesTo(p, pc, why)
      BY <1>4, ChainStep
    <2>2. accepted' = accepted
      BY <1>4, ChainStep
    <2> QED BY <1>0, <2>1, <2>2 DEF AcceptedKept, MovesTo, OtherLaunchesKept
  <1>5. ASSUME NEW f \in Logins, LoginHandled(f) \/ LoginRefused(f) \/ LoginResponds(f)
        PROVE  launch' = launch /\ accepted' = accepted
    BY <1>5 DEF LoginHandled, LoginRefused, LoginResponds
  <1>6. ASSUME NEW f \in Logins, NEW b \in Browsers, LoginArrives(f, b)
        PROVE  launch' = launch /\ accepted' = accepted
    BY <1>6 DEF LoginArrives
  <1>7. ASSUME \/ \E b \in Browsers, p \in Posts : Restore(b, p)
               \/ Tick \/ UNCHANGED vars
        PROVE  launch' = launch /\ accepted' = accepted
    BY <1>7 DEF Restore, Tick, vars
  <1> QED BY <1>1, <1>2, <1>3, <1>4, <1>5, <1>6, <1>7, StepCases

\* What a request brings that carries all its cookies.
LEMMA BroughtNow ==
  ASSUME Sequential, TypeOK, NEW b \in Browsers, NEW r
  PROVE  /\ Brings(r, b) => r.session = SessionNow(jar[b]) /\ r.sid = SidNow(jar[b])
         /\ BringsStates(r, b) => \A f \in r.states : f \in Logins /\ jar[b].state[f] > 0
  <1>1. Sending = {TRUE}
    BY DEF Sending, Sequential
  <1>2. clock \in Nat /\ \A f \in Logins : jar[b].state[f] \in Nat
    BY ConstantsOK DEF TypeOK, Cookies
  <1> QED BY <1>1, <1>2 DEF Brings, BringsStates, Carried, SessionNow, SidNow

-----------------------------------------------------------------------------
(* KeptInv is kept by each step.                                             *)

LEMMA KeptInit == Init => KeptInv
  <1> SUFFICES ASSUME Init PROVE KeptInv
    OBVIOUS
  <1>1. \A f \in Logins : login[f].pc = "idle"
    BY DEF Init
  <1>2. \A p \in Posts : launch[p].pc = "idle"
    BY DEF Init
  <1>3. accepted = {} /\ \A b \in Browsers : \A f \in Logins : jar[b].state[f] = 0
    BY DEF Init
  <1>4. OneAtATime
    BY <1>1, <1>2 DEF OneAtATime, ActiveLogin, ActiveLaunch
  <1>5. \A b \in Browsers : KeptJar(b)
    BY <1>3 DEF KeptJar, KeptFor
  <1> QED BY <1>1, <1>2, <1>4, <1>5 DEF KeptInv, KeptLogin, KeptLaunch, ActiveLaunch

LEMMA KeptLoginArrives ==
  ASSUME Sequential, TypeOK, KeptInv, AcceptedKept,
         NEW f \in Logins, NEW b \in Browsers, LoginArrives(f, b)
  PROVE  KeptInv'
  <1>1. /\ login[f].pc = "idle" /\ MayRequest(b) /\ OthersKept(f)
        /\ login'[f].pc = "arrived" /\ login'[f].browser = b /\ Brings(login'[f], b)
        /\ UNCHANGED <<jar, store, launch, accepted>>
    BY LoginArrivesStep
  <1>2. Quiet(b)
    BY <1>1 DEF MayRequest, Sequential
  <1>3. OneAtATime'
    BY <1>1, <1>2 DEF KeptInv, OneAtATime, Quiet, OthersKept, ActiveLogin, ActiveLaunch
  <1>4. ViewsKept
    BY <1>1, ViewsKeptUnchanged
  <1>5. \A c : JarKept(c) /\ NoNewDone(c)
    BY <1>1 DEF JarKept, NoNewDone
  <1>6. /\ \A c \in Browsers : KeptJar(c)'
        /\ \A g \in Logins : g # f => KeptLogin(g)'
        /\ \A p \in Posts : KeptLaunch(p)'
    BY <1>1, <1>4, <1>5, JarStays, LoginStays, LaunchStays DEF KeptInv, OthersKept
  <1>7. login'[f].session = SessionNow(jar[b]) /\ login'[f].sid = SidNow(jar[b])
    BY <1>1, BroughtNow
  <1>8. KeptLogin(f)'
    BY <1>1, <1>7 DEF KeptLogin
  <1> QED BY <1>3, <1>6, <1>8 DEF KeptInv

LEMMA KeptPostArrives ==
  ASSUME Sequential, TypeOK, KeptInv, AcceptedKept,
         NEW p \in Posts, NEW b \in Browsers, PostArrives(p, b)
  PROVE  KeptInv'
  <1>1. /\ launch[p].pc = "idle" /\ MayRequest(b) /\ OtherLaunchesKept(p)
        /\ launch'[p].browser = b /\ Brings(launch'[p], b) /\ BringsStates(launch'[p], b)
        /\ UNCHANGED <<jar, store, login, accepted>>
    BY PostArrivesStep
  <1>2. IF UsesSessionId /\ launch'[p].sid = NoSid
        THEN launch'[p].pc = "rejected" /\ launch'[p].why = "no_session_id"
        ELSE launch'[p].pc = "arrived" /\ launch'[p].why = ""
    BY PostArrivesStep
  <1>3. Quiet(b)
    BY <1>1 DEF MayRequest, Sequential
  <1>4. OneAtATime'
    BY <1>1, <1>3 DEF KeptInv, OneAtATime, Quiet, OtherLaunchesKept, ActiveLogin, ActiveLaunch
  <1>5. ViewsKept
    BY <1>1, ViewsKeptUnchanged
  <1>6. \A c : JarKept(c) /\ NoNewDone(c)
    BY <1>1, <1>2 DEF JarKept, NoNewDone, OtherLaunchesKept
  <1>7. /\ \A c \in Browsers : KeptJar(c)'
        /\ \A f \in Logins : KeptLogin(f)'
        /\ \A q \in Posts : q # p => KeptLaunch(q)'
    BY <1>1, <1>5, <1>6, JarStays, LoginStays, LaunchStays DEF KeptInv, OtherLaunchesKept
  <1>8. /\ launch'[p].session = SessionNow(jar[b]) /\ launch'[p].sid = SidNow(jar[b])
        /\ \A f \in launch'[p].states : jar[b].state[f] > 0
    BY <1>1, BroughtNow
  <1>9. KeptLaunch(p)'
    BY <1>1, <1>2, <1>8 DEF KeptLaunch, ActiveLaunch, Usable
  <1> QED BY <1>4, <1>7, <1>9 DEF KeptInv

\* A step that leaves requests, cookies and storage alone.
LEMMA KeptStutter ==
  ASSUME KeptInv, AcceptedKept, UNCHANGED <<jar, store, login, launch, accepted>>
  PROVE  KeptInv'
  <1>1. ViewsKept
    BY ViewsKeptUnchanged
  <1>2. \A c : JarKept(c) /\ NoNewDone(c)
    BY DEF JarKept, NoNewDone
  <1>3. OneAtATime'
    BY DEF KeptInv, OneAtATime, ActiveLogin, ActiveLaunch
  <1> QED BY <1>1, <1>2, <1>3, JarStays, LoginStays, LaunchStays DEF KeptInv

\* The entries that a login saves.
LEMMA LoginEntriesSound ==
  ASSUME TypeOK, NEW ps, NEW acc, NEW f, NEW sid
  PROVE  /\ Sound(ps, acc, LoginEntries(f, sid))
         /\ \A view : Usable(sid) => HasNonce(Put(view, LoginEntries(f, sid)), sid, f)
  <1>1. clock + DataTtl >= DataTtl
    BY ConstantsOK DEF TypeOK
  <1>2. Sound(ps, acc, LoginEntries(f, sid))
    BY <1>1 DEF Sound, LoginEntries, Entry, PrepareKey, NonceKey, ParamsKey
  <1>3. ASSUME NEW view, Usable(sid) PROVE HasNonce(Put(view, LoginEntries(f, sid)), sid, f)
    <2>1. Entry(sid, NonceKey(f), 0) \in Put(view, LoginEntries(f, sid))
      BY DEF Put, LoginEntries
    <2>2. /\ Entry(sid, NonceKey(f), 0).sid = sid /\ Entry(sid, NonceKey(f), 0).key = NonceKey(f)
          /\ Entry(sid, NonceKey(f), 0).val = 0 /\ Entry(sid, NonceKey(f), 0).exp >= DataTtl
      BY <1>1 DEF Entry, PrepareKey
    <2> QED BY <1>3, <2>1, <2>2 DEF HasNonce
  <1> QED BY <1>2, <1>3

\* With no session id yet, the browser was promised nothing.
LEMMA NothingPromised ==
  ASSUME NEW state, NEW ps, NEW acc, NEW b, NEW view, NEW sid, ~Usable(sid),
         KeptFor(state, ps, acc, b, view, sid)
  PROVE  \A v, s : KeptFor(state, ps, acc, b, v, s)
  BY DEF KeptFor, HasNonce, HasHash

LEMMA PutKeptFor ==
  ASSUME NEW state, NEW ps, NEW acc, NEW b, NEW view, NEW sid, NEW new, Sound(ps, acc, new),
         KeptFor(state, ps, acc, b, view, sid)
  PROVE  KeptFor(state, ps, acc, b, Put(view, new), sid)
  BY PutHasNonce, PutHasHash DEF KeptFor

LEMMA KeptLoginHandled ==
  ASSUME TypeOK, KeptInv, AcceptedKept, NEW f \in Logins, LoginHandled(f)
  PROVE  KeptInv'
  <1> DEFINE sid == SidOf(f)
             new == LoginEntries(f, sid)
             b == login[f].browser
             now == SidNow(jar[b])
  <1>1. /\ login[f].pc = "arrived" /\ OthersKept(f)
        /\ login'[f].pc = "handled" /\ login'[f].browser = b /\ login'[f].sid = sid
        /\ login'[f].session = SessionAfter(login[f], new) /\ store' = StoreAfter(new)
        /\ UNCHANGED <<jar, launch, accepted>>
    BY LoginHandledStep
  <1>2. b \in Browsers /\ login[f].session = SessionNow(jar[b]) /\ login[f].sid = now
    BY <1>1 DEF KeptInv, OneAtATime, ActiveLogin, KeptLogin
  <1>3. sid = IF UsesSessionId /\ now = NoSid THEN f ELSE now
    BY <1>2 DEF SidOf
  <1>4. Usable(sid)
    BY <1>3, ConstantsOK DEF Usable
  <1>5. Sound(launch, accepted, new) /\ Sound(launch', accepted', new)
    BY LoginEntriesSound
  <1>6. ViewsKept
    BY <1>1, <1>5, ViewsKeptBySave
  <1>7. \A c : JarKept(c) /\ NoNewDone(c)
    BY <1>1 DEF JarKept, NoNewDone
  <1>8. ViewOf(login'[f].session, store') = Put(ViewOf(login[f].session, store), new)
    BY <1>1, ViewAfterSave
  <1>9. HasNonce(ViewOf(login'[f].session, store'), sid, f)
    BY <1>4, <1>8, LoginEntriesSound
  <1> HIDE DEF sid, new
  <1>10. KeptFor(jar[b].state, launch, accepted, b, ViewOf(login'[f].session, store'), sid)
    <2>1. KeptFor(jar[b].state, launch, accepted, b, ViewOf(login[f].session, store), now)
      BY <1>2 DEF KeptInv, KeptJar
    <2>2. CASE sid = now
      BY <1>5, <1>8, <2>1, <2>2, PutKeptFor
    <2>3. CASE UsesSessionId /\ now = NoSid
      BY <2>1, <2>3, NothingPromised DEF Usable
    <2> QED BY <1>3, <2>2, <2>3
  <1> HIDE DEF b, now
  <1>11. KeptLogin(f)'
    BY <1>1, <1>3, <1>9, <1>10 DEF KeptLogin, b, now
  <1>12. /\ \A c \in Browsers : KeptJar(c)'
         /\ \A g \in Logins : g # f => KeptLogin(g)'
         /\ \A p \in Posts : KeptLaunch(p)'
    BY <1>1, <1>6, <1>7, JarStays, LoginStays, LaunchStays DEF KeptInv, OthersKept
  <1>13. OneAtATime'
    BY <1>1, LoginMovesAlone DEF KeptInv, ActiveLogin, b
  <1> QED BY <1>11, <1>12, <1>13 DEF KeptInv

LEMMA KeptLoginEnds ==
  ASSUME TypeOK, KeptInv, AcceptedKept, NEW f \in Logins, LoginRefused(f) \/ LoginResponds(f)
  PROVE  KeptInv'
  <1>0. PICK b \in Browsers : b = login[f].browser
    <2>1. ActiveLogin(f)
      BY LoginEndsStep DEF ActiveLogin
    <2> QED BY <2>1 DEF KeptInv, OneAtATime
  <1>1. /\ OthersKept(f) /\ login'[f].browser = b
        /\ login[f].pc \in {"arrived", "handled"} /\ login'[f].pc \in {"refused", "redirected"}
        /\ UNCHANGED <<store, launch, accepted>>
    BY <1>0, LoginEndsStep
  <1>2. ActiveLogin(f) /\ ~ActiveLogin(f)'
    BY <1>1 DEF ActiveLogin
  <1>3. OneAtATime'
    BY <1>0, <1>1, <1>2, LoginMovesAlone DEF KeptInv
  <1>4. ViewsKept
    BY <1>1, ViewsKeptUnchanged
  <1>5. \A c : NoNewDone(c)
    BY <1>1 DEF NoNewDone
  <1>6. \A c \in Browsers : c # b => JarKept(c)
    BY <1>0, LoginEndsStep DEF JarKept
  <1>7. /\ \A c \in Browsers : c # b => KeptJar(c)'
        /\ \A g \in Logins : login'[g] = login[g] /\ login[g].browser # b => KeptLogin(g)'
        /\ \A p \in Posts : launch'[p] = launch[p] /\ launch[p].browser # b => KeptLaunch(p)'
    BY <1>4, <1>5, <1>6, OthersStay
  <1>8. ASSUME NEW g \in Logins PROVE KeptLogin(g)'
    <2>1. CASE g = f
      BY <1>2, <2>1, InactiveKept
    <2>2. CASE g # f /\ ~ActiveLogin(g)
      BY <1>1, <2>2, InactiveKept DEF OthersKept, ActiveLogin
    <2>3. CASE g # f /\ ActiveLogin(g)
      BY <1>0, <1>1, <1>2, <1>7, <2>3, AloneInBrowser DEF KeptInv, OthersKept
    <2> QED BY <2>1, <2>2, <2>3
  <1>9. ASSUME NEW p \in Posts PROVE KeptLaunch(p)'
    <2>1. CASE ~ActiveLaunch(p)
      BY <1>1, <2>1, InactiveKept DEF ActiveLaunch
    <2>2. CASE ActiveLaunch(p)
      BY <1>0, <1>1, <1>2, <1>7, <2>2, AloneInBrowser DEF KeptInv
    <2> QED BY <2>1, <2>2
  <1>10. KeptJar(b)'
    <2>1. CASE LoginRefused(f)
      <3>1. JarKept(b)
        BY <2>1, LoginEndsStep DEF JarKept
      <3> QED BY <1>4, <1>5, <3>1, JarStays DEF KeptInv
    <2>2. CASE LoginResponds(f)
      <3>1. /\ login[f].pc = "handled" /\ jar'[b].session = login[f].session
            /\ jar'[b].sid = IF login[f].sid = f THEN f ELSE jar[b].sid
            /\ jar'[b].state = [jar[b].state EXCEPT ![f] = clock + StateTtl]
        BY <1>0, <2>2, LoginEndsStep
      <3>2. /\ login[f].sid = IF UsesSessionId /\ SidNow(jar[b]) = NoSid THEN f ELSE SidNow(jar[b])
            /\ KeptFor(jar[b].state, launch, accepted, b, ViewOf(login[f].session, store), login[f].sid)
            /\ HasNonce(ViewOf(login[f].session, store), login[f].sid, f)
        BY <1>0, <3>1 DEF KeptInv, KeptLogin
      <3>3. SidNow(jar'[b]) = login[f].sid
        BY <3>1, <3>2, ConstantsOK DEF SidNow
      <3>4. ViewOf(SessionNow(jar'[b]), store) = ViewOf(login[f].session, store)
        BY <3>1 DEF SessionNow, ViewOf
      <3>5. jar[b].state \in [Logins -> 0 .. MaxClock + StateTtl]
        BY DEF TypeOK, Cookies
      <3>6. \A g \in Logins : g # f => jar'[b].state[g] = jar[b].state[g]
        BY <3>1, <3>5
      <3>7. KeptFor(jar'[b].state, launch, accepted, b, ViewOf(SessionNow(jar'[b]), store), SidNow(jar'[b]))
        BY <3>2, <3>3, <3>4, <3>6 DEF KeptFor
      <3> QED BY <1>1, <3>7 DEF KeptJar
    <2> QED BY <2>1, <2>2
  <1> QED BY <1>3, <1>7, <1>8, <1>9, <1>10 DEF KeptInv

LEMMA KeptSave ==
  ASSUME TypeOK, KeptInv, AcceptedKept, NEW p \in Posts, Save(p)
  PROVE  KeptInv'
  <1> DEFINE new == LaunchEntries(p)
             sid == launch[p].sid
  <1>1. /\ launch[p].pc = "verified" /\ OtherLaunchesKept(p)
        /\ launch'[p].pc = "saved" /\ launch'[p].tok = launch[p].tok
        /\ launch'[p].sid = sid /\ launch'[p].browser = launch[p].browser
        /\ launch'[p].states = launch[p].states
        /\ launch'[p].session = SessionAfter(launch[p], new)
        /\ store' = StoreAfter(new) /\ accepted' = accepted \cup {p}
        /\ UNCHANGED <<jar, login>>
    BY SaveStep
  <1>2. ActiveLaunch(p) /\ ActiveLaunch(p)'
    BY <1>1 DEF ActiveLaunch
  <1>3. PICK b \in Browsers : b = launch[p].browser
    BY <1>2 DEF KeptInv, OneAtATime
  <1>4. /\ launch[p].session = SessionNow(jar[b]) /\ sid = SidNow(jar[b]) /\ Usable(sid)
        /\ \A f \in launch[p].states : jar[b].state[f] > 0
    BY <1>1, <1>2, <1>3 DEF KeptInv, KeptLaunch
  <1>5. clock + DataTtl >= DataTtl
    BY ConstantsOK DEF TypeOK
  <1>6. Sound(launch', accepted', new)
    BY <1>1, <1>5 DEF Sound, LaunchEntries, Entry, PrepareKey, LaunchKey, HashKey
  <1>7. ViewsKept
    BY <1>1, <1>6, ViewsKeptBySave
  <1>8. \A c : JarKept(c) /\ NoNewDone(c)
    BY <1>1 DEF JarKept, NoNewDone, OtherLaunchesKept
  <1>9. ViewOf(launch'[p].session, store') = Put(ViewOf(launch[p].session, store), new)
    BY <1>1, ViewAfterSave
  <1>10. HasHash(launch', accepted', ViewOf(launch'[p].session, store'), sid, p[1])
    <2> DEFINE e == Entry(sid, HashKey(p[1]), launch[p].tok)
    <2>1. e \in Put(ViewOf(launch[p].session, store), new)
      BY DEF Put, LaunchEntries
    <2>2. e.sid = sid /\ e.key = HashKey(p[1]) /\ e.val = launch[p].tok /\ e.exp >= DataTtl
      BY <1>5 DEF Entry, PrepareKey
    <2> HIDE DEF e
    <2> QED BY <1>1, <1>4, <1>9, <2>1, <2>2 DEF HasHash
  <1>11. KeptFor(jar[b].state, launch', accepted', b, ViewOf(launch'[p].session, store'), sid)
    <2>1. KeptFor(jar[b].state, launch, accepted, b, ViewOf(launch[p].session, store), sid)
      BY <1>4 DEF KeptInv, KeptJar
    <2> DEFINE s == launch[p].session
    <2>2. KeptFor(jar[b].state, launch', accepted', b, ViewOf(s, store), sid)
      BY <1>8, <2>1, HashStable DEF KeptFor, NoNewDone
    <2> QED BY <1>6, <1>9, <2>2, PutKeptFor
  <1> HIDE DEF new, sid
  <1>12. KeptLaunch(p)'
    BY <1>1, <1>3, <1>4, <1>10, <1>11 DEF KeptLaunch, sid
  <1>13. /\ \A c \in Browsers : KeptJar(c)'
         /\ \A f \in Logins : KeptLogin(f)'
         /\ \A q \in Posts : q # p => KeptLaunch(q)'
    BY <1>1, <1>7, <1>8, JarStays, LoginStays, LaunchStays DEF KeptInv, OtherLaunchesKept
  <1>14. OneAtATime'
    BY <1>1, <1>2, LaunchMovesAlone DEF KeptInv
  <1> QED BY <1>12, <1>13, <1>14 DEF KeptInv

LEMMA KeptChain ==
  ASSUME TypeOK, KeptInv, SeenInv, AcceptedKept, NEW p \in Posts, Chain(p)
  PROVE  KeptInv'
  <1>1. PICK pc \in Phases, why \in Reasons :
          /\ MovesTo(p, pc, why) /\ ChainMove(p, pc, why)
          /\ \A c \in Browsers :
               /\ jar'[c].sid = jar[c].sid /\ jar'[c].state = jar[c].state
               /\ \/ jar'[c].session = jar[c].session
                  \/ c = launch[p].browser /\ jar'[c].session = launch[p].session
               /\ launch[p].pc = "saved" /\ Storage = "session" /\ c = launch[p].browser =>
                    jar'[c].session = launch[p].session
    BY ChainStep
  <1>2. login' = login /\ accepted' = accepted
    BY ChainStep
  <1>3. /\ OtherLaunchesKept(p) /\ launch'[p].pc = pc /\ launch'[p].why = why
        /\ launch'[p].tok = launch[p].tok /\ launch'[p].states = launch[p].states
        /\ launch'[p].session = launch[p].session /\ launch'[p].sid = launch[p].sid
        /\ launch'[p].browser = launch[p].browser
    BY <1>1 DEF MovesTo
  <1>4. /\ ActiveLaunch(p) /\ pc \notin {"idle", "saved"}
        /\ pc # "done" => launch[p].pc # "saved"
        /\ pc = "done" => launch[p].pc \in {"saved", "rejected"}
        /\ launch[p].why = "no_session_id" /\ launch[p].pc = "rejected" => pc = "done"
    BY <1>1 DEF ChainMove, ActiveLaunch
  <1>5. PICK b \in Browsers : b = launch[p].browser
    BY <1>4 DEF KeptInv, OneAtATime
  <1>6. ViewsKept
    <2> DEFINE new == {Entry(launch[p].sid, LaunchKey(p), launch[p].tok)}
    <2>1. clock + DataTtl >= DataTtl
      BY ConstantsOK DEF TypeOK
    <2>2. Sound(launch', accepted', new)
      BY <2>1 DEF Sound, Entry, PrepareKey, LaunchKey
    <2>3. store' = store \/ store' = StoreAfter(new)
      BY ChainStep
    <2> HIDE DEF new
    <2> QED BY <2>2, <2>3, ViewsKeptUnchanged, ViewsKeptBySave
  <1>7. \A c \in Browsers : c # b => JarKept(c) /\ NoNewDone(c)
    BY <1>1, <1>2, <1>3, <1>5 DEF JarKept, NoNewDone, OtherLaunchesKept, SessionNow, SidNow
  <1>8. /\ \A c \in Browsers : c # b => KeptJar(c)'
        /\ \A f \in Logins : login'[f] = login[f] /\ login[f].browser # b => KeptLogin(f)'
        /\ \A q \in Posts : launch'[q] = launch[q] /\ launch[q].browser # b => KeptLaunch(q)'
    BY <1>6, <1>7, OthersStay
  <1>9. OneAtATime'
    BY <1>2, <1>3, <1>4, LaunchMovesAlone DEF KeptInv
  <1>10. ASSUME NEW f \in Logins PROVE KeptLogin(f)'
    <2>1. CASE ~ActiveLogin(f)
      BY <1>2, <2>1, InactiveKept DEF ActiveLogin
    <2>2. CASE ActiveLogin(f)
      BY <1>2, <1>4, <1>5, <1>8, <2>2, AloneInBrowser DEF KeptInv
    <2> QED BY <2>1, <2>2
  <1>11. ASSUME NEW q \in Posts, q # p PROVE KeptLaunch(q)'
    <2>1. launch'[q] = launch[q]
      BY <1>3, <1>11 DEF OtherLaunchesKept
    <2>2. CASE ~ActiveLaunch(q)
      BY <2>1, <2>2, InactiveKept DEF ActiveLaunch
    <2>3. CASE ActiveLaunch(q)
      BY <1>4, <1>5, <1>8, <1>11, <2>1, <2>3, AloneInBrowser DEF KeptInv
    <2> QED BY <2>2, <2>3
  <1>12. CASE launch[p].pc # "saved"
    <2>1. /\ launch[p].session = SessionNow(jar[b]) /\ launch[p].sid = SidNow(jar[b])
          /\ \A f \in launch[p].states : jar[b].state[f] > 0
          /\ Usable(launch[p].sid) \/ (launch[p].pc = "rejected" /\ launch[p].why = "no_session_id")
      BY <1>4, <1>5, <1>12 DEF KeptInv, KeptLaunch
    <2>2. SessionNow(jar'[b]) = SessionNow(jar[b]) /\ SidNow(jar'[b]) = SidNow(jar[b])
      BY <1>1, <1>5, <2>1 DEF SessionNow, SidNow
    <2>3. JarKept(b)
      BY <1>1, <2>2 DEF JarKept
    <2>4. pc = "done" => p \notin accepted
      BY <1>4, <1>12 DEF SeenInv, SeenLaunch
    <2>5. NoNewDone(b)
      BY <1>2, <1>3, <2>4 DEF NoNewDone, OtherLaunchesKept
    <2>6. KeptJar(b)'
      BY <1>6, <2>3, <2>5, JarStays DEF KeptInv
    <2>7. KeptLaunch(p)'
      <3>1. jar'[b].state = jar[b].state
        BY <1>1
      <3>2. pc = "done" \/ Usable(launch[p].sid)
        BY <1>4, <2>1
      <3> QED BY <1>3, <1>4, <1>5, <2>1, <2>2, <3>1, <3>2 DEF KeptLaunch, ActiveLaunch
    <2> QED BY <1>8, <1>9, <1>10, <1>11, <2>6, <2>7 DEF KeptInv
  <1>13. CASE launch[p].pc = "saved"
    <2>1. /\ KeptFor(jar[b].state, launch, accepted, b, ViewOf(launch[p].session, store), launch[p].sid)
          /\ HasHash(launch, accepted, ViewOf(launch[p].session, store), launch[p].sid, p[1])
          /\ launch[p].sid = SidNow(jar[b])
      BY <1>4, <1>5, <1>13 DEF KeptInv, KeptLaunch
    <2>2. pc = "done"
      BY <1>4, <1>13
    <2>3. KeptLaunch(p)'
      BY <1>3, <2>2, InactiveKept DEF ActiveLaunch
    <2>4. KeptJar(b)'
      <3> DEFINE view == ViewOf(launch[p].session, store')
                 sid == launch[p].sid
      <3>1. /\ \A f \in Logins : jar[b].state[f] > 0 => HasNonce(view, sid, f)
            /\ \A q \in Posts : q \in accepted /\ launch[q].browser = b /\ launch[q].pc = "done" =>
                                  HasHash(launch', accepted', view, sid, q[1])
            /\ HasHash(launch', accepted', view, sid, p[1])
        BY <1>6, <2>1 DEF KeptFor, ViewsKept
      <3>2. \A q \in Posts : q \in accepted' /\ launch'[q].browser = b /\ launch'[q].pc = "done" =>
              q = p \/ (q \in accepted /\ launch[q].browser = b /\ launch[q].pc = "done")
        BY <1>2, <1>3 DEF OtherLaunchesKept
      <3>3. jar'[b].state = jar[b].state /\ SidNow(jar'[b]) = sid
        BY <1>1, <2>1 DEF SidNow
      <3>4. ViewOf(SessionNow(jar'[b]), store') = view
        BY <1>1, <1>5, <1>13 DEF SessionNow, ViewOf
      <3> HIDE DEF view, sid
      <3>5. KeptFor(jar'[b].state, launch', accepted', b, view, sid)
        BY <3>1, <3>2, <3>3 DEF KeptFor
      <3> QED BY <3>3, <3>4, <3>5 DEF KeptJar
    <2> QED BY <1>8, <1>9, <1>10, <1>11, <2>3, <2>4 DEF KeptInv
  <1> QED BY <1>12, <1>13

\* KeptInv holds in every state.
LEMMA KeptAlways == ASSUME Sequential PROVE Spec => []KeptInv
  <1>1. TypeOK /\ SeenInv /\ KeptInv /\ [Next]_vars => KeptInv'
    <2> SUFFICES ASSUME TypeOK, SeenInv, KeptInv, [Next]_vars PROVE KeptInv'
      OBVIOUS
    <2>1. AcceptedKept
      BY AcceptedStay
    <2>2. ASSUME \/ \E b \in Browsers, p \in Posts : Restore(b, p)
                 \/ Tick \/ UNCHANGED vars
          PROVE  UNCHANGED <<jar, store, login, launch, accepted>>
      BY <2>2 DEF Restore, Tick, vars
    <2> QED BY <2>1, <2>2, StepCases, KeptLoginArrives, KeptLoginHandled, KeptLoginEnds,
               KeptPostArrives, KeptChain, KeptSave, KeptStutter
  <1> QED BY <1>1, KeptInit, TypeCorrect, SeenAlways, PTL DEF Spec

-----------------------------------------------------------------------------
(* What the user can count on.                                               *)

\* A launch changes only by its own steps, and time does not go back.
LEMMA LaunchSteps ==
  ASSUME TypeOK, [Next]_vars, NEW p \in Posts
  PROVE  /\ \/ launch'[p] = launch[p]
            \/ \E b \in Browsers : PostArrives(p, b)
            \/ Chain(p) \/ Save(p)
         /\ clock' \in Nat /\ clock <= clock'
         /\ clock' # clock => launch' = launch
  <1>0. clock \in Nat
    BY ConstantsOK DEF TypeOK
  <1>1. ASSUME NEW q \in Posts, NEW b \in Browsers, PostArrives(q, b)
        PROVE  clock' = clock /\ OtherLaunchesKept(q)
    BY <1>1, PostArrivesStep
  <1>2. ASSUME NEW q \in Posts, Save(q) PROVE clock' = clock /\ OtherLaunchesKept(q)
    BY <1>2, SaveStep
  <1>3. ASSUME NEW q \in Posts, Chain(q) PROVE clock' = clock /\ OtherLaunchesKept(q)
    BY <1>3, ChainStep DEF MovesTo
  <1>4. ASSUME NEW f \in Logins, LoginHandled(f) \/ LoginRefused(f) \/ LoginResponds(f)
        PROVE  launch' = launch /\ clock' = clock
    BY <1>4 DEF LoginHandled, LoginRefused, LoginResponds
  <1>5. ASSUME NEW f \in Logins, NEW b \in Browsers, LoginArrives(f, b)
        PROVE  launch' = launch /\ clock' = clock
    BY <1>5 DEF LoginArrives
  <1>6. ASSUME \/ \E b \in Browsers, q \in Posts : Restore(b, q)
               \/ Tick \/ UNCHANGED vars
        PROVE  launch' = launch /\ clock' \in {clock, clock + 1}
    BY <1>6 DEF Restore, Tick, vars
  <1> QED BY <1>0, <1>1, <1>2, <1>3, <1>4, <1>5, <1>6, StepCases DEF OtherLaunchesKept

\* In time, a request that is being handled finds the nonce of each login whose
\* state cookie it brought.
LEMMA NonceFound ==
  ASSUME TypeOK, KeptInv, clock < DataTtl,
         NEW p \in Posts, ActiveLaunch(p), launch[p].pc # "saved",
         NEW f \in Logins, f \in launch[p].states
  PROVE  Holds(launch[p], NonceKey(f), 0)
  <1>1. PICK b \in Browsers : b = launch[p].browser
    BY DEF KeptInv, OneAtATime
  <1>2. /\ launch[p].session = SessionNow(jar[b]) /\ launch[p].sid = SidNow(jar[b])
        /\ jar[b].state[f] > 0
    BY <1>1 DEF KeptInv, KeptLaunch
  <1>3. HasNonce(ViewOf(SessionNow(jar[b]), store), SidNow(jar[b]), f)
    BY <1>2 DEF KeptInv, KeptJar, KeptFor
  <1>4. PICK e \in View(launch[p]) : /\ e.sid = launch[p].sid /\ e.key = NonceKey(f) /\ e.val = 0
                                     /\ e.exp >= DataTtl
    BY <1>2, <1>3 DEF HasNonce, View, ViewOf
  <1>5. e \in Entries
    BY <1>4 DEF View, TypeOK, LaunchRequest
  <1>6. clock < e.exp
    BY <1>4, <1>5, ConstantsOK DEF TypeOK, Entries
  <1> QED BY <1>4, <1>6 DEF Holds, PrepareKey, Live

\* And if a launch of its login was accepted in its browser, the mark of one.
LEMMA HashFound ==
  ASSUME TypeOK, KeptInv, SeenInv, clock < DataTtl,
         NEW p \in Posts, launch[p].pc = "arrived",
         NEW q \in Posts, q[1] = p[1], q \in accepted, launch[q].browser = launch[p].browser
  PROVE  \E r \in Posts : /\ r[1] = p[1] /\ r \in accepted
                          /\ Holds(launch[p], HashKey(p[1]), launch[r].tok)
  <1>0. ActiveLaunch(p)
    BY DEF ActiveLaunch
  <1>1. PICK b \in Browsers : b = launch[p].browser
    BY <1>0 DEF KeptInv, OneAtATime
  <1>2. launch[q].pc = "done"
    <2>1. launch[q].pc \in {"saved", "done"}
      BY DEF SeenInv, SeenLaunch
    <2>2. launch[q].pc = "saved" => ActiveLaunch(q) /\ q # p
      BY DEF ActiveLaunch
    <2> QED BY <1>0, <2>1, <2>2, AloneInBrowser DEF KeptInv
  <1>3. launch[p].session = SessionNow(jar[b]) /\ launch[p].sid = SidNow(jar[b])
    BY <1>0, <1>1 DEF KeptInv, KeptLaunch
  <1>4. HasHash(launch, accepted, ViewOf(SessionNow(jar[b]), store), SidNow(jar[b]), p[1])
    BY <1>1, <1>2 DEF KeptInv, KeptJar, KeptFor
  <1>5. PICK e \in View(launch[p]) :
          /\ e.sid = launch[p].sid /\ e.key = HashKey(p[1]) /\ e.exp >= DataTtl
          /\ \E r \in Posts : r \in accepted /\ r[1] = p[1] /\ launch[r].tok = e.val
    BY <1>3, <1>4 DEF HasHash, View, ViewOf
  <1>6. e \in Entries
    BY <1>5 DEF View, TypeOK, LaunchRequest
  <1>7. clock < e.exp
    BY <1>5, <1>6, ConstantsOK DEF TypeOK, Entries
  <1> QED BY <1>5, <1>7 DEF Holds, PrepareKey, Live

\* A launch that a browser brings back in time, with its cookies, finds the
\* nonce that its login saved, in either storage.
THEOREM RoundTrip == ASSUME Sequential PROVE Spec => []LoginSurvivesRoundTrip
  <1>1. Init => LoginSurvivesRoundTrip
    <2> SUFFICES ASSUME Init PROVE LoginSurvivesRoundTrip
      OBVIOUS
    <2>1. \A p \in Posts : launch[p].why = ""
      BY DEF Init
    <2> QED BY <2>1 DEF LoginSurvivesRoundTrip
  <1>2. TypeOK /\ KeptInv /\ LoginSurvivesRoundTrip /\ [Next]_vars => LoginSurvivesRoundTrip'
    <2> SUFFICES ASSUME TypeOK, KeptInv, LoginSurvivesRoundTrip, [Next]_vars,
                        NEW p \in Posts, p[1] \in launch'[p].states,
                        launch'[p].why = "nonce", clock' < DataTtl
                 PROVE  FALSE
      BY DEF LoginSurvivesRoundTrip
    <2>0. clock < DataTtl /\ p[1] \in Logins
      BY LaunchSteps, PostType, ConstantsOK DEF TypeOK
    <2>1. ~(p[1] \in launch[p].states /\ launch[p].why = "nonce")
      BY <2>0 DEF LoginSurvivesRoundTrip
    <2>2. ASSUME NEW b \in Browsers, PostArrives(p, b) PROVE FALSE
      BY <2>2, PostArrivesStep
    <2>3. CASE Chain(p)
      <3>1. PICK pc \in Phases, why \in Reasons : MovesTo(p, pc, why) /\ ChainMove(p, pc, why)
        BY <2>3, ChainStep
      <3>2. why = "nonce" /\ p[1] \in launch[p].states
        BY <3>1 DEF MovesTo
      <3>3. launch[p].pc = "state" /\ ~Holds(launch[p], NonceKey(p[1]), 0)
        BY <2>1, <3>1, <3>2 DEF ChainMove
      <3> QED BY <2>0, <3>2, <3>3, NonceFound DEF ActiveLaunch
    <2>4. CASE Save(p)
      BY <2>1, <2>4, SaveStep
    <2> QED BY <2>1, <2>2, <2>3, <2>4, LaunchSteps
  <1> QED BY <1>1, <1>2, TypeCorrect, KeptAlways, PTL DEF Spec

\* A launch that was refused for its state, and may be read again, met the mark
\* of another token.
RefusedInv ==
  \A p, q \in Posts :
    /\ launch[p].pc \in {"arrived", "rejected"} /\ launch[p].why = "state" /\ clock < DataTtl
    /\ q[1] = p[1] /\ q \in accepted /\ launch[q].browser = launch[p].browser
    => \E r \in Posts : r[1] = p[1] /\ r \in accepted /\ launch[r].tok # launch[p].tok

\* What CheckState does to a launch that it refuses.
LEMMA RefusedForMark ==
  ASSUME TypeOK, KeptInv, SeenInv, clock < DataTtl,
         NEW p \in Posts, launch[p].pc = "arrived",
         ~Holds(launch[p], HashKey(p[1]), launch[p].tok),
         NEW q \in Posts, q[1] = p[1], q \in accepted, launch[q].browser = launch[p].browser
  PROVE  \E r \in Posts : r[1] = p[1] /\ r \in accepted /\ launch[r].tok # launch[p].tok
  <1>1. PICK r \in Posts : /\ r[1] = p[1] /\ r \in accepted
                           /\ Holds(launch[p], HashKey(p[1]), launch[r].tok)
    BY HashFound
  <1> QED BY <1>1

\* Only a launch that is being handled becomes accepted, and none moves to
\* another browser.
LEMMA AcceptedSteps ==
  ASSUME TypeOK, SeenInv, [Next]_vars, NEW q \in Posts, q \in accepted'
  PROVE  \/ q \in accepted /\ launch'[q].browser = launch[q].browser
         \/ q \notin accepted /\ launch'[q].pc = "saved"
  <1>1. CASE q \in accepted
    <2>1. launch[q].pc # "idle"
      BY <1>1 DEF SeenInv, SeenLaunch
    <2>2. ~\E b \in Browsers : PostArrives(q, b)
      BY <2>1, PostArrivesStep
    <2>3. ASSUME Chain(q) PROVE launch'[q].browser = launch[q].browser
      BY <2>3, ChainStep DEF MovesTo
    <2>4. ASSUME Save(q) PROVE launch'[q].browser = launch[q].browser
      BY <2>4, SaveStep
    <2> QED BY <1>1, <2>2, <2>3, <2>4, LaunchSteps
  <1>2. CASE q \notin accepted
    <2>1. ASSUME NEW p \in Posts, Save(p) PROVE accepted' = accepted \cup {p} /\ launch'[p].pc = "saved"
      BY <2>1, SaveStep
    <2>2. ASSUME NEW p \in Posts, Chain(p) PROVE accepted' = accepted
      BY <2>2, ChainStep
    <2>3. ASSUME NEW p \in Posts, NEW b \in Browsers, PostArrives(p, b) \/ Restore(b, p)
          PROVE  accepted' = accepted
      BY <2>3, PostArrivesStep DEF Restore
    <2>4. ASSUME NEW f \in Logins, LoginHandled(f) \/ LoginRefused(f) \/ LoginResponds(f)
          PROVE  accepted' = accepted
      BY <2>4 DEF LoginHandled, LoginRefused, LoginResponds
    <2>5. ASSUME NEW f \in Logins, NEW b \in Browsers, LoginArrives(f, b) PROVE accepted' = accepted
      BY <2>5 DEF LoginArrives
    <2>6. ASSUME Tick \/ UNCHANGED vars PROVE accepted' = accepted
      BY <2>6 DEF Tick, vars
    <2> QED BY <1>2, <2>1, <2>2, <2>3, <2>4, <2>5, <2>6, StepCases
  <1> QED BY <1>1, <1>2

\* RefusedInv holds in every state.
LEMMA RefusedAlways == ASSUME Sequential PROVE Spec => []RefusedInv
  <1>1. Init => RefusedInv
    BY DEF Init, RefusedInv
  <1>2. /\ TypeOK /\ SeenInv /\ KeptInv /\ KeptInv' /\ RefusedInv /\ [Next]_vars
        => RefusedInv'
    <2> SUFFICES ASSUME TypeOK, SeenInv, KeptInv, KeptInv', RefusedInv, [Next]_vars,
                        NEW p \in Posts, NEW q \in Posts,
                        launch'[p].pc \in {"arrived", "rejected"}, launch'[p].why = "state",
                        clock' < DataTtl, q[1] = p[1], q \in accepted',
                        launch'[q].browser = launch'[p].browser
                 PROVE  \E r \in Posts : /\ r[1] = p[1] /\ r \in accepted'
                                         /\ launch'[r].tok # launch'[p].tok
      BY DEF RefusedInv
    <2>0. clock < DataTtl
      BY LaunchSteps, ConstantsOK DEF TypeOK
    <2>1. q \in accepted /\ launch'[q].browser = launch[q].browser
      <3>1. launch'[q].pc # "saved"
        <4>1. SUFFICES ASSUME launch'[q].pc = "saved" PROVE FALSE
          OBVIOUS
        <4>2. ActiveLaunch(q)' /\ ActiveLaunch(p)' /\ q # p
          BY <4>1 DEF ActiveLaunch
        <4> QED BY <4>2 DEF KeptInv, OneAtATime
      <3> QED BY <3>1, AcceptedSteps
    <2>2. AcceptedKept
      BY AcceptedStay
    <2>3. \A r \in Posts : r \in accepted => r \in accepted' /\ launch'[r].tok = launch[r].tok
      BY <2>2 DEF AcceptedKept
    <2>4. CASE launch'[p] = launch[p]
      <3>0. /\ launch[p].pc \in {"arrived", "rejected"} /\ launch[p].why = "state"
            /\ q[1] = p[1] /\ q \in accepted /\ launch[q].browser = launch[p].browser
        BY <2>1, <2>4
      <3>1. PICK r \in Posts : r[1] = p[1] /\ r \in accepted /\ launch[r].tok # launch[p].tok
        BY <2>0, <3>0 DEF RefusedInv
      <3> QED BY <2>3, <2>4, <3>1
    <2>5. CASE Chain(p)
      <3>1. PICK pc \in Phases, why \in Reasons : MovesTo(p, pc, why) /\ ChainMove(p, pc, why)
        BY <2>5, ChainStep
      <3>2. /\ pc \in {"arrived", "rejected"} /\ why = "state"
            /\ launch'[p].tok = launch[p].tok /\ launch'[p].browser = launch[p].browser
        BY <3>1 DEF MovesTo
      <3>3. \/ launch[p].pc = "arrived" /\ ~Holds(launch[p], HashKey(p[1]), launch[p].tok)
            \/ launch[p].pc = "rejected" /\ launch[p].why = "state"
        BY <3>1, <3>2 DEF ChainMove
      <3>4. PICK r \in Posts : r[1] = p[1] /\ r \in accepted /\ launch[r].tok # launch[p].tok
        BY <2>0, <2>1, <3>2, <3>3, RefusedForMark DEF RefusedInv
      <3> QED BY <2>3, <3>2, <3>4
    <2>6. ASSUME NEW b \in Browsers, PostArrives(p, b) PROVE FALSE
      BY <2>6, PostArrivesStep
    <2>7. CASE Save(p)
      BY <2>7, SaveStep
    <2> QED BY <2>4, <2>5, <2>6, <2>7, LaunchSteps
  <1> QED BY <1>1, <1>2, TypeCorrect, SeenAlways, KeptAlways, PTL DEF Spec

\* A reload of the one token a login was accepted with is not refused for its
\* state, however late, while the storage keeps its entries.
THEOREM ReloadIsAccepted == ASSUME Sequential PROVE Spec => ReloadAccepted
  <1>1. TypeOK /\ SeenInv /\ KeptInv /\ RefusedInv /\ [Next]_vars =>
          [\A p, q \in Posts :
             /\ launch[p].pc = "arrived" /\ launch'[p].why = "state" /\ clock < DataTtl
             /\ q[1] = p[1] /\ q \in accepted /\ launch[q].browser = launch[p].browser
             => \E r \in Posts : /\ r[1] = p[1] /\ r \in accepted
                                 /\ launch[r].tok # launch[p].tok]_vars
    <2> SUFFICES ASSUME TypeOK, SeenInv, KeptInv, RefusedInv, [Next]_vars,
                        NEW p \in Posts, NEW q \in Posts,
                        launch[p].pc = "arrived", launch'[p].why = "state", clock < DataTtl,
                        q[1] = p[1], q \in accepted, launch[q].browser = launch[p].browser
                 PROVE  \E r \in Posts : /\ r[1] = p[1] /\ r \in accepted
                                         /\ launch[r].tok # launch[p].tok
      OBVIOUS
    <2>1. CASE launch'[p] = launch[p]
      BY <2>1 DEF RefusedInv
    <2>2. CASE Chain(p)
      <3>1. PICK pc \in Phases, why \in Reasons : MovesTo(p, pc, why) /\ ChainMove(p, pc, why)
        BY <2>2, ChainStep
      <3>2. ~Holds(launch[p], HashKey(p[1]), launch[p].tok)
        BY <3>1 DEF MovesTo, ChainMove
      <3> QED BY <3>2, RefusedForMark
    <2>3. ASSUME NEW b \in Browsers, PostArrives(p, b) PROVE FALSE
      BY <2>3, PostArrivesStep
    <2>4. CASE Save(p)
      BY <2>4, SaveStep
    <2> QED BY <2>1, <2>2, <2>3, <2>4, LaunchSteps
  <1> QED BY <1>1, TypeCorrect, SeenAlways, KeptAlways, RefusedAlways, PTL DEF Spec, ReloadAccepted
=============================================================================
