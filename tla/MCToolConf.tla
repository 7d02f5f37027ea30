----------------------------- MODULE MCToolConf -----------------------------
(* ToolConf for TLC: the documents.                                          *)
EXTENDS ToolConf, TLC

CONSTANTS i1, i2, c1, c2, d1, d2, k1, k2

Item(client, default, dep, key) ==
  [client |-> client, default |-> default, deployments |-> {dep}, complete |-> TRUE,
   key |-> key, public |-> key]

One(iss, item)    == [iss |-> iss, shape |-> "one", items |-> <<item>>]
Many(iss, items)  == [iss |-> iss, shape |-> "many", items |-> items]

TwoClients == Many(i1, <<Item(c1, FALSE, d1, k1), Item(c2, TRUE, d2, k2)>>)
OnlyClient == Many(i1, <<Item(c2, FALSE, d2, k2)>>)
Incomplete == Many(i1, <<[Item(c1, TRUE, d1, k1) EXCEPT !.complete = FALSE]>>)
NoKeyFile  == Many(i1, <<Item(c1, TRUE, d1, NoKey)>>)
NotPublic(item) == [item EXCEPT !.public = NoKey]

\* Documents that agree on the shape of each issuer.
Agreeing ==
  {<<TwoClients, One(i2, Item(c1, FALSE, d1, k2))>>, <<OnlyClient>>,
   <<One(i2, NotPublic(Item(c1, FALSE, d1, k1))),
     Many(i1, <<Item(c1, FALSE, d1, k2), NotPublic(Item(c2, TRUE, d2, k1))>>)>>,
   <<One(i2, Item(c2, FALSE, d2, k1)), Incomplete>>, <<NoKeyFile>>}

\* Documents that do not.
Differing == {<<TwoClients>>, <<One(i1, Item(c1, FALSE, d1, k1))>>}
=============================================================================
