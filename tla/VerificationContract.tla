------------------------ MODULE VerificationContract ------------------------
(***************************************************************************)
(* What MessageLaunch may rely on when it verifies launches, wherever the  *)
(* key set comes from: a launch is judged by the keys that the platform    *)
(* had at one moment, no longer ago than Staleness, or by an answer that   *)
(* was no key set; only one that is trusted is accepted; and it is saved   *)
(* for its own session, whatever happened while its keys were looked up.   *)
(* LaunchFlow's Verify stands for Trust and Accept, or Refuse; its         *)
(* FetchFails for Fail or Miss.                                            *)
(***************************************************************************)
EXTENDS Integers

CONSTANTS Launches, Keys, SidOf, Staleness, MaxClock

VARIABLES
  clock, publishedAt, retiredAt,  \* the platform's keys, as in TokenVerification
  kid,      \* the key that each launch's token names
  verdict,  \* what came of each launch
  saved

Never == MaxClock + 1
Retried == {"failed", "missing", "noset"}

Publish(k) ==
  /\ publishedAt[k] = Never /\ publishedAt' = [publishedAt EXCEPT ![k] = clock]
  /\ UNCHANGED <<clock, retiredAt, kid, verdict, saved>>
Retire(k) ==
  /\ publishedAt[k] # Never /\ retiredAt[k] = Never
  /\ retiredAt' = [retiredAt EXCEPT ![k] = clock]
  /\ UNCHANGED <<clock, publishedAt, kid, verdict, saved>>

Arrive(l, k) ==
  /\ verdict[l] \in Retried \cup {"idle", "accepted", "rejected"}
  /\ kid' = [kid EXCEPT ![l] = k] /\ verdict' = [verdict EXCEPT ![l] = "asked"]
  /\ saved' = {s \in saved : s[2] # l}
  /\ UNCHANGED <<clock, publishedAt, retiredAt>>

Become(l, v) ==
  /\ verdict' = [verdict EXCEPT ![l] = v]
  /\ UNCHANGED <<clock, publishedAt, retiredAt, kid>>

Again(l) == verdict[l] \in Retried /\ Become(l, "asked") /\ UNCHANGED saved

\* The key was among those of some recent moment, or was not; one that was published
\* or retired in the very moment may have been there and may not.
Recent == {given \in 0 .. clock : clock < given + Staleness}
Trust(l) ==
  /\ verdict[l] = "asked" /\ Become(l, "trusted") /\ UNCHANGED saved
  /\ \E given \in Recent : publishedAt[kid[l]] <= given /\ given <= retiredAt[kid[l]]
Miss(l) ==
  /\ verdict[l] = "asked" /\ Become(l, "missing") /\ UNCHANGED saved
  /\ \E given \in Recent : given <= publishedAt[kid[l]] \/ retiredAt[kid[l]] <= given

\* There was an answer without keys, or none.
Fail(l) == verdict[l] = "asked" /\ (Become(l, "noset") \/ Become(l, "failed")) /\ UNCHANGED saved

\* The signature or the message is refused, or the launch is accepted and saved.
Refuse(l) ==
  verdict[l] = "trusted" /\ (Become(l, "failed") \/ Become(l, "rejected")) /\ UNCHANGED saved
Accept(l) ==
  /\ verdict[l] = "trusted" /\ Become(l, "accepted")
  /\ saved' = saved \cup {<<SidOf[l], l>>}

Tick ==
  /\ clock < MaxClock /\ clock' = clock + 1
  /\ UNCHANGED <<publishedAt, retiredAt, kid, verdict, saved>>

Init ==
  /\ clock = 0
  /\ publishedAt \in [Keys -> {0, Never}] /\ retiredAt = [k \in Keys |-> Never]
  /\ kid \in [Launches -> Keys]
  /\ verdict = [l \in Launches |-> "idle"] /\ saved = {}

Next ==
  \/ \E l \in Launches : \/ Accept(l) \/ Refuse(l) \/ Fail(l) \/ Trust(l) \/ Miss(l) \/ Again(l)
                         \/ \E k \in Keys : Arrive(l, k)
  \/ \E k \in Keys : Publish(k) \/ Retire(k)
  \/ Tick

Spec == Init /\ [][Next]_<<clock, publishedAt, retiredAt, kid, verdict, saved>>
=============================================================================
