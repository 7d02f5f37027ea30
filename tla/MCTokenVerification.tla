------------------------- MODULE MCTokenVerification ------------------------
(* TokenVerification for TLC: messages that lack one claim of a full one, or  *)
(* have one too many.                                                         *)
EXTENDS TokenVerification, TLC

\* Each request from a browser of its own.
Cookies == [l \in Launches |-> l]
Symmetry == Permutations(Launches)

Full(type) == [type |-> type, has |-> CommonClaims \cup
  CASE type = "deep"     -> {"settings", "types", "targets", "return_url"}
    [] type = "privacy"  -> {"user"}
    [] type = "review"   -> {"endpoint", "lineitem", "user", "user.id"}
    [] OTHER             -> {"link", "link.id", "context"}]
Without(m, c) == [m EXCEPT !.has = {d \in @ : d # c /\ (d \in DOMAIN Inside => Inside[d] # c)}]
MessageInputs ==
  {Full(type) : type \in Types \cup {"other"}} \cup
  {Without(Full(type), c) : type \in Types, c \in Claims \ CommonClaims} \cup
  {Without(Full("resource"), c) : c \in CommonClaims} \cup
  {[Full("privacy") EXCEPT !.has = @ \cup {c}] : c \in {"link", "context"}}
=============================================================================
