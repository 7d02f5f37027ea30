----------------------------- MODULE ServiceCalls -----------------------------
(***************************************************************************)
(* The calls a launched tool makes to the platform's LTI Advantage         *)
(* services through ServiceConnector: the roster, the line items, the      *)
(* group sets with their groups, the grades of a line item, and            *)
(* put_grade, which looks for a line item page by page, creates it when    *)
(* there is none and then posts the score.                                 *)
(*                                                                         *)
(* A call is many HTTP requests, and between two of them the platform      *)
(* serves others: its lists grow at any place, other callers create line   *)
(* items, and any request or answer may get lost.  The platform pages by   *)
(* position and removes nothing; its next links may lead back, and a call  *)
(* follows them wherever they lead.                                        *)
(***************************************************************************)
EXTENDS Naturals, FiniteSets, Sequences, SequencesExt

CONSTANTS
  Callers,       \* each with a service object of its own, hence a connector
  Ops,           \* Ops[t]: the operations caller t uses
  Tags, NoTag,   \* the tags of the tool's line items; other line items have none
  ScopeChoices,  \* the AGS scopes a launch may carry
  Course,        \* Course[l]: what the platform's list l holds at first
  Growing,       \* the lists to which the platform adds of itself
  MaxEntries,    \* bound on what the platform's lists hold, together
  PageSize,
  Retries,       \* the retries of build_session
  Straggling,    \* a POST that timed out may still reach the platform
  Misreads,      \* the platform may take a lower-cased address for another page
  MaxRead        \* bound: a call that has read so many entries is led astray no more

Lists == {"members", "lineitems", "sets", "groups", "results"}
AllOps == {"roster", "lineitems", "sets", "grades", "put", "puton"}

ASSUME CourseOK ==
  /\ PageSize \in Nat \ {0} /\ Retries \in Nat /\ MaxEntries \in Nat /\ MaxRead \in Nat
  /\ Growing \subseteq Lists /\ Ops \in [Callers -> SUBSET AllOps]
  /\ Straggling \in BOOLEAN /\ Misreads \in BOOLEAN /\ NoTag \notin Tags

VARIABLES
  granted,   \* the scopes of the launch
  lists,     \* the platform's lists
  late,      \* POSTs given up by their callers and still on their way;
             \* history: the line items made by those that arrived
  token,     \* the access token of each caller's connector, kept for ever
  op, want,  \* the caller's operation, and the tag or line item it is for
  pc, req,   \* where the call is; the request that is out
  tries,     \* the retries left to that request
  answer,
  got,       \* what was read so far
  sets,      \* get_sets: the sets, once they are read
  item,      \* put_grade: the line item to score
  base,      \* history: what the lists to read held when the call began
  made       \* history: how many line items the platform made for the call

vars == <<granted, lists, late, token, op, want, pc, req, tries, answer, got, sets, item,
          base, made>>

-----------------------------------------------------------------------------
\* An entry of a list.  It belongs to something: a line item to its tag, a group
\* to its set, a score to its line item.
Entry(id, of) == [id |-> id, of |-> of]
Belongs == Tags \cup {NoTag} \cup Nat
Entries == [id : Callers \cup Nat, of : Belongs]

\* A set belongs to nothing, only a score is known by its caller, and 0 is no line item.
ASSUME CourseHolds ==
  /\ Course \in [Lists -> Seq(Entries)]
  /\ \A l \in Lists \ {"results"} : \A e \in ToSet(Course[l]) : e.id \in Nat
  /\ \A e \in ToSet(Course["sets"]) : e.of = 0
  /\ \A e \in ToSet(Course["lineitems"]) : e.id # 0

CanRead   == granted \cap {"lineitem", "lineitem.readonly"} # {}
CanCreate == "lineitem" \in granted
CanGrades == "result.readonly" \in granted
CanPut    == "score" \in granted

\* Requests.  The address of a page is a position; it was given by the platform,
\* or lower-cased with the Link header it came in.
Get(l, of)  == [do |-> "get", list |-> l, of |-> of, at |-> 1, as |-> "given"]
Create(tag) == [do |-> "create", of |-> tag]
Score(i)    == [do |-> "score", of |-> i]
NoReq       == [do |-> "none"]
\* What is left in "late" of a POST that arrived: the id of the line item it made.
Strayed(id) == [do |-> "strayed", of |-> id]

Gets == [do : {"get"}, list : Lists, of : Nat, at : Nat, as : {"given", "lowered"}]
Posts == [do : {"create"}, of : Tags] \cup [do : {"score"}, of : Nat]
Strays == [do : {"strayed"}, of : Nat]

\* Where the page behind the one at "at" begins, 0 for nowhere, in a list of length n.
NextPage(n, at) == IF n >= at + PageSize THEN at + PageSize ELSE 0

\* _request follows the link it finds in the lower-cased header.
Following(r, at) == [r EXCEPT !.at = at, !.as = "lowered"]

PageAt(s, at) == SubSeq(s, at, Min({Len(s), at + PageSize - 1}))

Refusal == [ok |-> "no"]
Answers == [ok : {"no"}] \cup [ok : {"page"}, els : Seq(Entries), next : Nat]
           \cup [ok : {"posted"}, id : Nat]

\* "out": a request is on its way; "back": its answer is.
Ended  == {"idle", "done", "failed", "refused", "forbidden"}
Phases == {"out", "back"} \cup Ended

TypeOK ==
  /\ granted \in ScopeChoices
  /\ DOMAIN lists = Lists /\ \A l \in Lists : lists[l] \in Seq(Entries)
  /\ late \subseteq Callers \X (Posts \cup Strays)
  /\ token \in [Callers -> {"none", "live", "expired"}]
  /\ op \in [Callers -> AllOps] /\ want \in [Callers -> Tags \cup Nat]
  /\ pc \in [Callers -> Phases]
  /\ req \in [Callers -> Gets \cup Posts \cup {NoReq}] /\ tries \in [Callers -> 0 .. Retries]
  /\ \A t \in Callers : pc[t] \in {"out", "back"} <=> req[t] # NoReq
  /\ answer \in [Callers -> Answers]
  /\ got \in [Callers -> Seq(Entries)] /\ sets \in [Callers -> Seq(Entries)]
  /\ item \in [Callers -> Nat]
  /\ \A t \in Callers : pc[t] \in {"out", "back"} /\ req[t].do = "score" => item[t] # 0
  /\ made \in [Callers -> 0 .. 1]

\* The list a request is about; a line item's results are in an order of the platform's.
Listing(r) == IF r.list = "results" THEN SetToSeq({e \in Range(lists.results) : e.of = r.of})
              ELSE lists[r.list]

Init ==
  /\ granted \in ScopeChoices
  /\ lists = Course /\ late = {}
  /\ token = [t \in Callers |-> "none"]
  /\ op = [t \in Callers |-> "roster"] /\ want = [t \in Callers |-> 0]
  /\ pc = [t \in Callers |-> "idle"]
  /\ req = [t \in Callers |-> NoReq] /\ tries = [t \in Callers |-> 0]
  /\ answer = [t \in Callers |-> Refusal]
  /\ got = [t \in Callers |-> <<>>] /\ sets = [t \in Callers |-> <<>>]
  /\ item = [t \in Callers |-> 0]
  /\ base = [t \in Callers |-> <<>>] /\ made = [t \in Callers |-> 0]

-----------------------------------------------------------------------------
\* make_service_request is entered with request r; a call ends in phase p.
Ask(t, r) ==
  /\ pc' = [pc EXCEPT ![t] = "out"]
  /\ req' = [req EXCEPT ![t] = r] /\ tries' = [tries EXCEPT ![t] = Retries]
  /\ answer' = [answer EXCEPT ![t] = Refusal]

End(t, p) ==
  /\ pc' = [pc EXCEPT ![t] = p]
  /\ req' = [req EXCEPT ![t] = NoReq] /\ tries' = [tries EXCEPT ![t] = 0]
  /\ answer' = [answer EXCEPT ![t] = Refusal]

\* It ends in an exception, and its variables are gone.
Throw(t, p) ==
  /\ End(t, p)
  /\ got' = [got EXCEPT ![t] = <<>>] /\ sets' = [sets EXCEPT ![t] = <<>>]
  /\ item' = [item EXCEPT ![t] = 0]
  /\ base' = [base EXCEPT ![t] = <<>>]

Begin(t, o, w, i, reads) ==
  /\ pc[t] \in Ended /\ o \in Ops[t]
  /\ op' = [op EXCEPT ![t] = o] /\ want' = [want EXCEPT ![t] = w]
  /\ item' = [item EXCEPT ![t] = i]
  /\ got' = [got EXCEPT ![t] = <<>>] /\ sets' = [sets EXCEPT ![t] = <<>>]
  /\ base' = [base EXCEPT ![t] = [l \in reads |-> Range(Listing(Get(l, w)))]]
  /\ made' = [made EXCEPT ![t] = 0]
  /\ UNCHANGED <<granted, lists, late, token>>

\* get_members
GetMembers(t) == Begin(t, "roster", 0, 0, {"members"}) /\ Ask(t, Get("members", 0))

\* get_lineitems: get_lineitems_page wants a scope to read.
GetLineItems(t) ==
  /\ Begin(t, "lineitems", 0, 0, {"lineitems"})
  /\ \/ CanRead /\ Ask(t, Get("lineitems", 0))
     \/ ~CanRead /\ End(t, "forbidden")

\* get_sets(include_groups=True)
GetSets(t) == Begin(t, "sets", 0, 0, {"sets", "groups"}) /\ Ask(t, Get("sets", 0))

\* get_grades, for line item i or the launch's own; there may be neither, i = 0.
GetGrades(t, i) ==
  /\ Begin(t, "grades", i, 0, {"results"})
  /\ \/ ~CanGrades /\ End(t, "forbidden")
     \/ CanGrades /\ i = 0 /\ End(t, "done")
     \/ CanGrades /\ i # 0 /\ Ask(t, Get("results", i))

\* Mutant: the scope to score is only looked at when there is a line item.
PutGradeLateScope(t, tag) ==
  /\ Begin(t, "put", tag, 0, {})
  /\ \/ CanRead /\ Ask(t, Get("lineitems", 0))
     \/ ~CanRead /\ End(t, "forbidden")

\* put_grade with a line item that has no id yet: find_or_create_lineitem looks
\* for its tag first.
PutGrade(t, tag) ==
  /\ Begin(t, "put", tag, 0, {})
  /\ \/ CanPut /\ CanRead /\ Ask(t, Get("lineitems", 0))
     \/ ~(CanPut /\ CanRead) /\ End(t, "forbidden")

\* Mutant: a launch without a line item is not noticed.
PutGradeOnNone(t, i) ==
  /\ Begin(t, "puton", i, i, {})
  /\ \/ CanPut /\ Ask(t, Score(i))
     \/ ~CanPut /\ End(t, "forbidden")

\* put_grade with a line item that has an id, or with the launch's; without, i = 0.
PutGradeOn(t, i) ==
  /\ Begin(t, "puton", i, i, {})
  /\ \/ CanPut /\ i # 0 /\ Ask(t, Score(i))
     \/ ~(CanPut /\ i # 0) /\ End(t, "forbidden")

-----------------------------------------------------------------------------
\* get_access_token: without a token the connector asks for one first.  A service asks
\* with one list of scopes always, and so has one token.
Authorize(t) ==
  /\ pc[t] = "out" /\ token[t] = "none"
  /\ token' = [token EXCEPT ![t] = "live"]
  /\ UNCHANGED <<granted, lists, late, op, want, pc, req, tries, answer, got, sets, item, base, made>>

\* It is refused one, and the call raises.
Deny(t) ==
  /\ pc[t] = "out" /\ token[t] = "none"
  /\ Throw(t, "refused")
  /\ UNCHANGED <<granted, lists, late, token, op, want, made>>

\* The token's life ends at the platform; the connector goes on using it.
Expire(t) ==
  /\ token[t] = "live"
  /\ token' = [token EXCEPT ![t] = "expired"]
  /\ UNCHANGED <<granted, lists, late, op, want, pc, req, tries, answer, got, sets, item, base, made>>

\* The tool takes a new service object from the launch, of the same service or another,
\* with a new connector.
NewService(t) ==
  /\ pc[t] \in Ended /\ token[t] # "none"
  /\ token' = [token EXCEPT ![t] = "none"]
  /\ UNCHANGED <<granted, lists, late, op, want, pc, req, tries, answer, got, sets, item, base, made>>

\* How many entries there are in the lists.
Filled(ls) == FoldSet(LAMBDA l, n : Len(ls[l]) + n, 0, Lists)

\* The platform puts entry e anywhere into list l.
Adds(l, e) ==
  /\ Filled(lists) < MaxEntries
  /\ \E i \in 1 .. Len(lists[l]) + 1 : lists' = [lists EXCEPT ![l] = InsertAt(@, i, e)]

\* The platform's own side: people enrol, groups and line items are made by hand,
\* a learner gets a grade from someone else.
Grow ==
  /\ \E l \in Growing :
       \E of \in CASE l = "lineitems" -> {NoTag}
                   [] l = "groups" -> {e.id : e \in Range(lists.sets)} \cup {0}
                   [] l = "results" -> {e.id : e \in Range(lists.lineitems)}
                   [] OTHER -> {0} :
         Adds(l, Entry(Len(lists[l]) + 1, of))
  /\ UNCHANGED <<granted, late, token, op, want, pc, req, tries, answer, got, sets, item, base, made>>

\* The platform carries out a POST of caller t.
Creates(r) == r.do = "create" /\ Adds("lineitems", Entry(Len(lists.lineitems) + 1, r.of))

Scores(t, r) ==
  /\ r.do = "score"
  /\ \/ Entry(t, r.of) \in Range(lists.results) /\ UNCHANGED lists
     \/ Entry(t, r.of) \notin Range(lists.results) /\ Adds("results", Entry(t, r.of))

Answered(t, a) ==
  /\ pc[t] = "out" /\ token[t] # "none"
  /\ pc' = [pc EXCEPT ![t] = "back"]
  /\ answer' = [answer EXCEPT ![t] = a]
  /\ UNCHANGED <<granted, late, token, op, want, req, tries, got, sets, item, base>>

Accepts(t) == token[t] = "live"

\* Where the platform takes the address of request r to point, in a list of length n.
Meant(t, n) ==
  {req[t].at} \cup (IF Misreads /\ req[t].as = "lowered" /\ Len(got[t]) < MaxRead
                   THEN 1 .. n ELSE {})

\* The next links of the page at "at": to the page behind it, or back.
Links(t, n, at) ==
  {NextPage(n, at)} \cup (IF Len(got[t]) < MaxRead THEN 1 .. req[t].at ELSE {})

ServePage(t) ==
  LET s == Listing(req[t]) IN
  /\ req[t].do = "get" /\ Accepts(t)
  /\ \E at \in Meant(t, Len(s)) : \E next \in Links(t, Len(s), at) :
       Answered(t, [ok |-> "page", els |-> PageAt(s, at), next |-> next])
  /\ UNCHANGED <<lists, made>>

ServeCreate(t) ==
  /\ Accepts(t) /\ Creates(req[t])
  /\ Answered(t, [ok |-> "posted", id |-> Len(lists.lineitems) + 1])
  /\ made' = [made EXCEPT ![t] = @ + 1]

ServeScore(t) ==
  /\ Accepts(t) /\ Scores(t, req[t])
  /\ Answered(t, [ok |-> "posted", id |-> req[t].of])
  /\ UNCHANGED made

\* An expired token, or a page the platform does not have by its lower-cased name.
Refuse(t) ==
  /\ ~Accepts(t) \/ (req[t].do = "get" /\ req[t].as = "lowered")
  /\ Answered(t, Refusal) /\ UNCHANGED <<lists, made>>

\* What "late" keeps of a POST that arrives.
Trail(r) == IF r.do = "create" THEN {Strayed(Len(lists.lineitems) + 1)} ELSE {}

\* A POST whose caller has gone still arrives.
Straggle ==
  \E t \in Callers : \E r \in {p[2] : p \in {q \in late : q[1] = t}} :
    /\ Creates(r) \/ Scores(t, r)
    /\ late' = (late \ {<<t, r>>}) \cup ({t} \X Trail(r))
    /\ UNCHANGED <<granted, token, op, want, pc, req, tries, answer, got, sets, item, base, made>>

-----------------------------------------------------------------------------
\* Mutant: POSTs are retried like GETs.
RetriedAlways(t) == TRUE

\* What the session's Retry sends again: a request that did not get through, and a
\* GET whose answer was lost.
Retried(t) == req[t].do = "get" \/ pc[t] = "out"

\* Mutant: a retry is not counted.
ResendForever(t) ==
  /\ pc[t] \in {"out", "back"} /\ tries[t] > 0 /\ Retried(t)
  /\ pc' = [pc EXCEPT ![t] = "out"]
  /\ answer' = [answer EXCEPT ![t] = Refusal]
  /\ UNCHANGED <<granted, lists, late, token, op, want, req, tries, got, sets, item, base, made>>

\* The connection breaks or times out and the session tries again.
Resend(t) ==
  /\ pc[t] \in {"out", "back"} /\ tries[t] > 0 /\ Retried(t)
  /\ pc' = [pc EXCEPT ![t] = "out"]
  /\ tries' = [tries EXCEPT ![t] = @ - 1]
  /\ answer' = [answer EXCEPT ![t] = Refusal]
  /\ UNCHANGED <<granted, lists, late, token, op, want, req, got, sets, item, base, made>>

\* It breaks for good and the call raises.  A POST may be on its way all the same.
Fail(t) ==
  /\ pc[t] \in {"out", "back"} /\ ~(tries[t] > 0 /\ req[t].do = "get" /\ token[t] # "none")
  /\ \/ UNCHANGED late
     \/ /\ Straggling /\ pc[t] = "out" /\ token[t] = "live" /\ req[t].do # "get"
        /\ late' = late \cup {<<t, req[t]>>}
  /\ Throw(t, "failed")
  /\ UNCHANGED <<granted, lists, token, op, want, made>>

\* An error status: LtiServiceException.
Raise(t) ==
  /\ pc[t] = "back" /\ answer[t] = Refusal
  /\ Throw(t, "refused")
  /\ UNCHANGED <<granted, lists, late, token, op, want, made>>

\* A page came for operation o.
Page(t, o) == pc[t] = "back" /\ op[t] \in o /\ answer[t].ok = "page"

\* Mutant: a page takes the place of those before it.
ThisPage(t) == answer[t].els

\* extend: the pages so far, and this one.
WithPage(t) == got[t] \o answer[t].els

\* The loops of get_members, get_lineitems and get_sets: the next page.
TurnPage(t) ==
  /\ Page(t, {"roster", "lineitems", "sets"}) /\ answer[t].next # 0
  /\ got' = [got EXCEPT ![t] = WithPage(t)]
  /\ Ask(t, Following(req[t], answer[t].next))
  /\ UNCHANGED <<granted, lists, late, token, op, want, sets, item, base, made>>

\* get_sets has all the sets; the groups are next, if there are sets at all.
ReadGroups(t) ==
  /\ Page(t, {"sets"}) /\ req[t].list = "sets" /\ answer[t].next = 0
  /\ sets' = [sets EXCEPT ![t] = WithPage(t)]
  /\ got' = [got EXCEPT ![t] = <<>>]
  /\ \/ sets'[t] # <<>> /\ Ask(t, Get("groups", 0))
     \/ sets'[t] = <<>> /\ End(t, "done")
  /\ UNCHANGED <<granted, lists, late, token, op, want, item, base, made>>

\* The last page, or for get_grades the only one it asks for.
ReadEnds(t) ==
  /\ \/ Page(t, {"roster", "lineitems", "sets"}) /\ req[t].list # "sets" /\ answer[t].next = 0
     \/ Page(t, {"grades"})
  /\ got' = [got EXCEPT ![t] = WithPage(t)]
  /\ End(t, "done")
  /\ UNCHANGED <<granted, lists, late, token, op, want, sets, item, base, made>>

\* Mutant: any line item will do.
FoundFirst(t) == IF answer[t].els = <<>> THEN 0 ELSE 1

\* find_lineitem: where on the page the tag is, 0 if it is not.
FoundAt(t) == SelectInSeq(answer[t].els, LAMBDA e : e.of = want[t])

Found(t) ==
  /\ Page(t, {"put"}) /\ FoundAt(t) # 0
  /\ LET i == answer[t].els[FoundAt(t)].id IN
       item' = [item EXCEPT ![t] = i] /\ Ask(t, Score(i))
  /\ UNCHANGED <<granted, lists, late, token, op, want, got, sets, base, made>>

SearchOn(t) ==
  /\ Page(t, {"put"}) /\ FoundAt(t) = 0 /\ answer[t].next # 0
  /\ Ask(t, Following(req[t], answer[t].next))
  /\ UNCHANGED <<granted, lists, late, token, op, want, got, sets, item, base, made>>

\* find_or_create_lineitem found none.
CreateIt(t) ==
  /\ Page(t, {"put"}) /\ FoundAt(t) = 0 /\ answer[t].next = 0
  /\ \/ CanCreate /\ Ask(t, Create(want[t])) /\ UNCHANGED <<got, sets, item, base>>
     \/ ~CanCreate /\ Throw(t, "forbidden")
  /\ UNCHANGED <<granted, lists, late, token, op, want, made>>

\* The line item is there: put_grade posts the score to it.
ScoreIt(t) ==
  /\ pc[t] = "back" /\ answer[t].ok = "posted" /\ req[t].do = "create"
  /\ item' = [item EXCEPT ![t] = answer[t].id]
  /\ Ask(t, Score(answer[t].id))
  /\ UNCHANGED <<granted, lists, late, token, op, want, got, sets, base, made>>

Scored(t) ==
  /\ pc[t] = "back" /\ answer[t].ok = "posted" /\ req[t].do = "score"
  /\ End(t, "done")
  /\ UNCHANGED <<granted, lists, late, token, op, want, got, sets, item, base, made>>

Call(t) ==
  \/ GetMembers(t) \/ GetLineItems(t) \/ GetSets(t)
  \/ \E i \in 0 .. Len(lists.lineitems) : GetGrades(t, i) \/ PutGradeOn(t, i)
  \/ \E tag \in Tags : PutGrade(t, tag)
  \/ NewService(t)

Serve(t) ==
  \/ Authorize(t) \/ Deny(t) \/ ServePage(t) \/ ServeCreate(t) \/ ServeScore(t) \/ Refuse(t)

Receive(t) ==
  \/ Raise(t) \/ TurnPage(t) \/ ReadGroups(t) \/ ReadEnds(t)
  \/ Found(t) \/ SearchOn(t) \/ CreateIt(t) \/ ScoreIt(t) \/ Scored(t)

Break(t) == Resend(t) \/ Fail(t)

Next ==
  \/ \E t \in Callers : Call(t) \/ Serve(t) \/ Receive(t) \/ Break(t) \/ Expire(t)
  \/ Grow \/ Straggle

Spec == Init /\ [][Next]_vars

\* A caller takes up the answers that come,
Receives == \A t \in Callers : WF_vars(Receive(t))

\* and a session that has a timeout, as build_session's has, gives the others up.
\* The core's own session has none, and the platform owes no answer.
SessionTimeouts == \A t \in Callers : WF_vars(Break(t))

LiveSpec == Spec /\ Receives /\ SessionTimeouts

-----------------------------------------------------------------------------
\* Mutant: a set the pages listed twice has its groups nowhere.
GroupsOfOnce(t, i) ==
  IF \E j \in DOMAIN sets[t] \ {i} : sets[t][j].id = sets[t][i].id THEN {}
  ELSE {g \in Range(got[t]) : g.of = sets[t][i].id}

\* TSet's "groups": those of set i of the answer.  A set the pages listed twice
\* has them at its last place.
GroupsOf(t, i) ==
  IF \E j \in i + 1 .. Len(sets[t]) : sets[t][j].id = sets[t][i].id THEN {}
  ELSE {g \in Range(got[t]) : g.of = sets[t][i].id}

\* What get_members, get_lineitems and get_sets return has every member, line item and
\* set that was there when the call began, however the lists grew, whatever was sent
\* again and wherever links led back while it turned the pages.
ReadIsComplete ==
  \A t \in Callers : pc[t] = "done" =>
    /\ op[t] = "roster" => base[t].members \subseteq Range(got[t])
    /\ op[t] = "lineitems" => base[t].lineitems \subseteq Range(got[t])
    /\ op[t] = "sets" => base[t].sets \subseteq Range(sets[t])

\* get_sets: a group that was there when the call began is under its set, if that
\* was, though the sets and the groups are two reads one after the other.
GroupsUnderTheirSets ==
  \A t \in Callers : pc[t] = "done" /\ op[t] = "sets" =>
    \A g \in base[t].groups, s \in base[t].sets :
      g.of = s.id => \E i \in DOMAIN sets[t] : sets[t][i] = s /\ g \in GroupsOf(t, i)

\* When put_grade returns, the score is at a line item with the tag asked for,
\* through lists that moved, retries, and other callers' line items.
GradeLandsRight ==
  \A t \in Callers : pc[t] = "done" /\ op[t] = "put" =>
    /\ Entry(item[t], want[t]) \in Range(lists.lineitems)
    /\ Entry(t, item[t]) \in Range(lists.results)

\* The line item was made by a POST whose caller had given it up.
Stray(e) == \E t \in Callers : <<t, Strayed(e.id)>> \in late

\* Calling put_grade again and again, after whatever failure, makes at most one line
\* item of a tag: only callers that overlap make more, one each, and a POST makes one
\* that its caller had given up and the platform carries out all the same.
OneLineItemPerCaller ==
  \A tag \in Tags :
    Cardinality({e \in Range(lists.lineitems) : e.of = tag /\ ~Stray(e)})
      <= Cardinality({t \in Callers : "put" \in Ops[t]})

\* put_grade makes a line item only when it may score it too, and a call that ends
\* for want of a scope has made none.
CreatedToBeScored ==
  \A t \in Callers : made[t] = 1 => CanPut /\ pc[t] # "forbidden"

\* The platform's last answer leads the call back.
LedBack(t) == pc[t] = "back" /\ answer[t].ok = "page" /\ answer[t].next \in 1 .. req[t].at

\* Every call ends, unless its links lead back again and again for ever: a call that
\* never ends is never done with being led back.  That an answer comes is not assumed,
\* only, where LiveSpec says so, that the session gives up waiting for it.
CallsEnd == \A t \in Callers : []<>(pc[t] \in Ended \/ LedBack(t))
=============================================================================
