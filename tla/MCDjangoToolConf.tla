--------------------------- MODULE MCDjangoToolConf ---------------------------
(* DjangoToolConf for TLC: the tools an administrator saves.                 *)
EXTENDS DjangoToolConf

CONSTANTS c1, c2, d1, d2, k1, k2

Row(client, active, default, dep, key) ==
  [client |-> client, active |-> active, default |-> default, deps |-> {dep}, key |-> key]

\* A tool that is moved to another deployment with another key, or switched off.
Moving == {Row(c, TRUE, TRUE, d1, k1) : c \in Clients} \cup
          {Row(c, TRUE, FALSE, d2, k2) : c \in Clients} \cup
          {Row(c1, FALSE, TRUE, d1, k1)}
=============================================================================
