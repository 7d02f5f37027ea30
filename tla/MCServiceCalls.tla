---------------------------- MODULE MCServiceCalls ----------------------------
(* ServiceCalls for TLC: small courses, and who does what in them.           *)
EXTENDS ServiceCalls, TLC

\* A caller uses every operation.
Everything == [t \in Callers |-> AllOps]

Empty == [l \in Lists |-> <<>>]
Small == [Empty EXCEPT !.members = <<Entry(1, 0)>>,
                       !.lineitems = <<Entry(1, NoTag)>>,
                       !.sets = <<Entry(1, 0)>>,
                       !.groups = <<Entry(1, 1)>>]

\* One to read and score, a narrower one, and one to create but not to score.
SomeScopes == {{"lineitem", "score", "result.readonly"},
               {"lineitem.readonly", "score"}, {"lineitem"}}
=============================================================================
