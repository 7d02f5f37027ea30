---------------------------- MODULE MCLmsClients ----------------------------
(* LmsClients for TLC: courses in which a module can be reached on two ways, *)
(* or leads back to itself, or lies too deep; pages too many or in a circle. *)
EXTENDS LmsClients, TLC

Behind == -1

OwnCaches == [s \in Services |-> s]
CONSTANTS cv, bs
TwoLists == {<<"files">>, <<"files", "quizzes">>}
ScopesOfClients == (cv :> TwoLists) @@ (bs :> {<<"files">>})
Kinds == (cv :> "canvas") @@ (bs :> "brightspace")

Course(root, a, b, c) ==
  [items |-> ("r" :> root.items) @@ ("a" :> a.items) @@ ("b" :> b.items) @@ ("c" :> c.items),
   subs  |-> ("r" :> root.subs) @@ ("a" :> a.subs) @@ ("b" :> b.subs) @@ ("c" :> c.subs)]
C(items, subs) == [items |-> items, subs |-> subs]
Empty == C({}, <<>>)

PagedCourses ==
  {Course(C({"x"}, <<"a">>), C({"y"}, <<"b">>), Empty, Empty),
   Course(C({"x"}, <<"a">>), C({}, <<"b">>), C({"y"}, <<>>), Empty),
   Course(C({}, <<"a">>), C({"y"}, <<"r">>), Empty, Empty)}
ModuleCourses ==
  {Course(C({"x"}, <<"a", "b">>), Empty, C({}, <<"c">>), C({"y"}, <<>>)),
   Course(C({}, <<"a", "b">>), C({"x"}, <<"b">>), C({}, <<"c">>), C({"y"}, <<"a">>)),
   Course(C({}, <<"b", "a">>), C({"x"}, <<"a", "b">>), C({"y"}, <<"a">>), Empty)}
CourseSets == (cv :> PagedCourses) @@ (bs :> ModuleCourses)
=============================================================================
