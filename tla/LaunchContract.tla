--------------------------- MODULE LaunchContract ---------------------------
(***************************************************************************)
(* What an application may rely on when it uses OIDCLogin and               *)
(* MessageLaunch, whatever the storage and the order of the requests: a     *)
(* launch is vouched for at most once per launch id, with a token that has  *)
(* no fault, in the browser whose login it answers, and launch data is      *)
(* handed back later only in that browser and only as it was vouched for.   *)
(***************************************************************************)
EXTENDS Integers

CONSTANTS Logins, Posts, Browsers, Tokens, NoBrowser

VARIABLES
  begun,    \* begun[f]: the browser whose login f the tool has answered
  vouched,  \* the launches that passed every check
  handed    \* launch data read back with from_cache

Begin(f, b) ==
  /\ begun[f] = NoBrowser
  /\ begun' = [begun EXCEPT ![f] = b]
  /\ UNCHANGED <<vouched, handed>>

Vouch(p, tok) ==
  /\ begun[p[1]] # NoBrowser
  /\ \A v \in vouched : v.post # p
  /\ vouched' = vouched \cup {[post |-> p, browser |-> begun[p[1]], tok |-> tok]}
  /\ UNCHANGED <<begun, handed>>

HandBack(v) ==
  /\ v \in vouched
  /\ handed' = handed \cup {v}
  /\ UNCHANGED <<begun, vouched>>

Init == begun = [f \in Logins |-> NoBrowser] /\ vouched = {} /\ handed = {}

Next ==
  \/ \E f \in Logins, b \in Browsers : Begin(f, b)
  \/ \E p \in Posts, tok \in Tokens : Vouch(p, tok)
  \/ \E v \in vouched : HandBack(v)

Spec == Init /\ [][Next]_<<begun, vouched, handed>>
=============================================================================
