-------------------------- MODULE MessageValidators -------------------------
(***************************************************************************)
(* The validators of message_validators/: what a launch message must hold, *)
(* by its message type, and what the launch's own operations take from it. *)
(* A message is its type and the claims it has with a value that counts.   *)
(***************************************************************************)
EXTENDS FiniteSets

Types == {"resource", "deep", "privacy", "review"}

CommonClaims == {"sub", "version", "roles"}
Claims == CommonClaims \cup
          {"link", "link.id", "context", "settings", "types", "targets", "return_url",
           "endpoint", "lineitem", "user", "user.id"}

\* A claim inside another one is only there together with it.
Inside == [c \in {"link.id", "types", "targets", "return_url", "lineitem", "user.id"} |->
             IF c = "link.id" THEN "link"
             ELSE IF c = "lineitem" THEN "endpoint"
             ELSE IF c = "user.id" THEN "user" ELSE "settings"]
Messages == [type : Types \cup {"none", "other"},
             has : {h \in SUBSET Claims : \A c \in DOMAIN Inside : c \in h => Inside[c] \in h}]

-----------------------------------------------------------------------------
\* What validate() of each validator asks for, besides CommonClaims.
ResourceRequires == {"link.id"}
\* The return URL is not among it, although there is a message for its absence.
DeepLinkRequires == {"settings", "types", "targets"}
PrivacyRequires == {"user"}
\* Mutant: the line item is not asked for.
ReviewRequiresNoLineItem == {"endpoint", "user", "user.id"}
ReviewRequires == {"endpoint", "lineitem", "user", "user.id"}

Required == [resource |-> CommonClaims \cup ResourceRequires,
             deep     |-> CommonClaims \cup DeepLinkRequires,
             privacy  |-> CommonClaims \cup PrivacyRequires,
             review   |-> CommonClaims \cup ReviewRequires]

\* What the validator of privacy launches does not allow.
Forbidden(type) == IF type = "privacy" THEN {"link", "context"} ELSE {}

\* What an application takes from such a launch without asking whether it is there:
\* the settings for get_deep_link and the return URL for its form, the user of
\* get_data_privacy_launch_user and of get_submission_review_user, the line item.
Used == [resource |-> {"link.id"},
         deep     |-> {"settings", "types", "targets", "return_url"},
         privacy  |-> {"user"},
         review   |-> {"lineitem", "user.id"}]

\* can_validate() of exactly one validator holds, and its validate().
Passes(m) ==
  /\ m.type \in Types
  /\ Required[m.type] \subseteq m.has
  /\ Forbidden(m.type) \cap m.has = {}
=============================================================================
