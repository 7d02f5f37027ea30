------------------------- MODULE ServiceCalls_proofs -------------------------
(***************************************************************************)
(* Proofs about ServiceCalls, for every course, every set of callers, and  *)
(* every page size, number of retries and bound.                           *)
(***************************************************************************)
EXTENDS ServiceCalls, TLAPS, FiniteSetTheorems

(* The invariant.                                                            *)

\* The platform's lists, and what it is still to be sent.
ListsInv ==
  /\ lists \in [Lists -> Seq(Entries)]
  /\ \A l \in Lists \ {"results"} : \A e \in Range(lists[l]) : e.id \in Nat
  /\ \A e \in Range(lists["sets"]) : e.of = 0
  /\ \A p \in late : p[1] \in Callers /\ p[2] \in Posts \cup Strays

\* Each caller has its own of everything.
OwnInv == \A f \in {op, want, pc, req, tries, answer, got, sets, item, base, made} :
            DOMAIN f = Callers

Called(t) == pc[t] \in {"out", "back"}
Reading(t) == op[t] \in {"roster", "lineitems", "sets"}

\* What each operation may have asked for, and what it may have been answered.
AskedInv(t) ==
  /\ Called(t) =>
       CASE op[t] = "roster"    -> req[t].do = "get" /\ req[t].list = "members"
         [] op[t] = "lineitems" -> req[t].do = "get" /\ req[t].list = "lineitems"
         [] op[t] = "sets"      -> req[t].do = "get" /\ req[t].list \in {"sets", "groups"}
         [] op[t] = "grades"    -> req[t].do = "get" /\ req[t].list = "results"
         [] op[t] = "puton"     -> req[t].do = "score" /\ req[t].of \in Nat
         [] OTHER -> /\ op[t] = "put" /\ want[t] \in Tags
                     /\ \/ req[t].do = "get" /\ req[t].list = "lineitems"
                        \/ req[t].do = "create" /\ req[t].of = want[t]
                        \/ req[t].do = "score" /\ req[t].of \in Callers \cup Nat
  /\ Called(t) /\ req[t].do = "get" => req[t] \in Gets /\ req[t].at > 0
  /\ Called(t) /\ req[t].do # "get" => req[t] \in Posts
  /\ pc[t] = "back" => \/ answer[t] = Refusal
                       \/ answer[t].ok = "page" /\ req[t].do = "get"
                       \/ answer[t].ok = "posted" /\ req[t].do # "get" /\ answer[t].id \in Nat
  /\ pc[t] = "back" /\ answer[t].ok = "page" => answer[t].next \in Nat
  /\ pc[t] = "back" /\ answer[t].ok = "page" /\ op[t] # "grades" =>
       /\ answer[t].els \in Seq(Entries)
       /\ Range(answer[t].els) \subseteq Range(lists[req[t].list])

\* Of what there was, b, the pages read have the elements of "read", and the rest is
\* still to come, at or behind position "at" of the list s: 0 if no page is.  Nothing is
\* said of a platform that takes an address for another page.
ToCome(s, b, read, at) ==
  Misreads \/ \A e \in b : e \in read \/ (at > 0 /\ \E i \in DOMAIN s : i >= at /\ s[i] = e)

Has(b, read) == Misreads \/ b \subseteq read

\* Of the set of groups, what was there is read after the sets are.
ReadInv(t) ==
  /\ Reading(t) => /\ got[t] \in Seq(Entries) /\ sets[t] \in Seq(Entries)
                   /\ \A e \in Range(sets[t]) : e.of = 0
  /\ Called(t) /\ Reading(t) =>
       LET l == req[t].list IN
       /\ ToCome(lists[l], base[t][l], Range(got[t]), req[t].at)
       /\ pc[t] = "back" /\ answer[t].ok = "page" =>
            ToCome(lists[l], base[t][l], Range(got[t]) \cup Range(answer[t].els), answer[t].next)
       /\ l = "sets" => /\ \A e \in Range(got[t]) : e.of = 0
                        /\ ToCome(lists["groups"], base[t]["groups"], {}, 1)
       /\ l = "groups" => Has(base[t]["sets"], Range(sets[t]))
  /\ pc[t] = "done" /\ op[t] = "sets" =>
       /\ Has(base[t]["sets"], Range(sets[t]))
       /\ sets[t] # <<>> => Has(base[t]["groups"], Range(got[t]))
  /\ pc[t] = "done" /\ op[t] \in {"roster", "lineitems"} =>
       LET l == IF op[t] = "roster" THEN "members" ELSE "lineitems" IN
       Has(base[t][l], Range(got[t]))

\* A line item is found or made before it is scored.
GradeInv(t) ==
  op[t] = "put" =>
    /\ pc[t] = "back" /\ answer[t].ok = "posted" /\ req[t].do = "create" =>
         Entry(answer[t].id, want[t]) \in Range(lists["lineitems"])
    /\ Called(t) /\ req[t].do = "score" =>
         /\ req[t].of = item[t]
         /\ Entry(item[t], want[t]) \in Range(lists["lineitems"])
         /\ pc[t] = "back" /\ answer[t].ok = "posted" =>
              Entry(t, item[t]) \in Range(lists["results"])
    /\ pc[t] = "done" => /\ Entry(item[t], want[t]) \in Range(lists["lineitems"])
                         /\ Entry(t, item[t]) \in Range(lists["results"])

\* Only a call that may score it makes a line item, and it goes on to score it.
ScopeInv(t) ==
  /\ Called(t) /\ op[t] = "put" => CanPut
  /\ made[t] # 0 => /\ CanPut /\ pc[t] # "forbidden"
                    /\ Called(t) => op[t] = "put" /\ req[t].do # "get"

CallInv(t) == AskedInv(t) /\ ReadInv(t) /\ GradeInv(t) /\ ScopeInv(t)

CallsInv == ListsInv /\ OwnInv /\ \A t \in Callers : CallInv(t)

(* Sequences.                                                                *)

LEMMA Least ==
  ASSUME NEW I, I \subseteq Nat, I # {}
  PROVE  \E m \in I : \A k \in I : m <= k
  <1> DEFINE R == OpToRel(<, Nat)
  <1>1. IsWellFoundedOn(R, Nat)
    BY NatLessThanWellFounded
  <1>2. \A x, y \in Nat : x < y => <<x, y>> \in R
    BY DEF OpToRel
  <1> HIDE DEF R
  <1>3. PICK x \in I : \A y \in I : ~ (<<y, x>> \in R)
    BY <1>1, WFMin
  <1>4. \A y \in I : x <= y
    <2> TAKE y \in I
    <2>1. x \in Nat /\ y \in Nat
      OBVIOUS
    <2>2. ~(y < x)
      BY <1>2, <1>3, <2>1
    <2> QED BY <2>1, <2>2
  <1> QED BY <1>4

\* Every entry of s is in s2, at its place or behind it.
Moved(s, s2) == \A i \in DOMAIN s : \E j \in DOMAIN s2 : j >= i /\ s2[j] = s[i]

LEMMA InsertMoves ==
  ASSUME NEW S, NEW s \in Seq(S), NEW i \in 1 .. Len(s) + 1, NEW e \in S
  PROVE  /\ InsertAt(s, i, e) \in Seq(S)
         /\ Moved(s, InsertAt(s, i, e))
         /\ Range(InsertAt(s, i, e)) = Range(s) \cup {e}
  <1> DEFINE a == SubSeq(s, 1, i - 1)
             b == SubSeq(s, i, Len(s))
             n == a \o <<e>> \o b
  <1>1. /\ a \in Seq(S) /\ Len(a) = i - 1 /\ \A j \in 1 .. i - 1 : a[j] = s[j]
        /\ b \in Seq(S) /\ Len(b) = Len(s) - i + 1
        /\ \A j \in 1 .. Len(s) - i + 1 : b[j] = s[j + i - 1]
    OBVIOUS
  <1> HIDE DEF a, b
  <1>2. /\ n \in Seq(S) /\ Len(n) = Len(s) + 1 /\ n[i] = e
        /\ \A j \in 1 .. i - 1 : n[j] = a[j]
        /\ \A j \in 1 .. Len(s) - i + 1 : n[j + i] = b[j]
    <2> DEFINE m == a \o <<e>>
    <2>1. /\ m \in Seq(S) /\ Len(m) = i /\ m[i] = e
          /\ \A j \in 1 .. i - 1 : m[j] = a[j]
      <3>1. a \in Seq(S) /\ Len(a) = i - 1 /\ <<e>> \in Seq(S) /\ Len(<<e>>) = 1
        BY <1>1
      <3>2. m \in Seq(S) /\ Len(m) = i
        BY <3>1
      <3>3. m[i] = e
        BY <3>1
      <3>4. \A j \in 1 .. i - 1 : m[j] = a[j]
        BY <3>1
      <3> QED BY <3>2, <3>3, <3>4
    <2> HIDE DEF m
    <2>2. /\ m \o b \in Seq(S) /\ Len(m \o b) = i + (Len(s) - i + 1)
          /\ \A j \in 1 .. i : (m \o b)[j] = m[j]
          /\ \A j \in 1 .. Len(s) - i + 1 : (m \o b)[j + i] = b[j]
      <3>1. /\ m \in Seq(S) /\ Len(m) = i /\ b \in Seq(S) /\ Len(b) = Len(s) - i + 1
            /\ i \in Nat /\ Len(s) \in Nat
        BY <1>1, <2>1
      <3>2. m \o b \in Seq(S) /\ Len(m \o b) = i + (Len(s) - i + 1)
        BY <3>1
      <3>3. \A j \in 1 .. i : (m \o b)[j] = m[j]
        BY <3>1
      <3>4. \A j \in 1 .. Len(s) - i + 1 : (m \o b)[j + i] = b[j]
        <4> TAKE j \in 1 .. Len(s) - i + 1
        <4>1. j + i \in 1 .. Len(m) + Len(b) /\ j + i > Len(m) /\ (j + i) - Len(m) = j
          BY <3>1
        <4> QED BY <3>1, <4>1
      <3> QED BY <3>2, <3>3, <3>4
    <2>3. i + (Len(s) - i + 1) = Len(s) + 1
      OBVIOUS
    <2>4. n = m \o b
      BY DEF m
    <2> HIDE DEF n
    <2> QED BY <2>1, <2>2, <2>3, <2>4
  <1> HIDE DEF n
  <1>3. \A j \in 1 .. i - 1 : n[j] = s[j]
    BY <1>1, <1>2
  <1>4. \A j \in i .. Len(s) : n[j + 1] = s[j]
    <2> TAKE j \in i .. Len(s)
    <2>1. j - i + 1 \in 1 .. Len(s) - i + 1 /\ (j - i + 1) + i = j + 1 /\ (j - i + 1) + i - 1 = j
      OBVIOUS
    <2>2. n[(j - i + 1) + i] = b[j - i + 1]
      BY <1>2, <2>1
    <2>3. b[j - i + 1] = s[(j - i + 1) + i - 1]
      BY <1>1, <2>1
    <2> QED BY <2>1, <2>2, <2>3
  <1>5. Moved(s, n)
    <2> SUFFICES ASSUME NEW j \in DOMAIN s PROVE \E k \in DOMAIN n : k >= j /\ n[k] = s[j]
      BY DEF Moved
    <2>1. CASE j < i
      BY <1>2, <1>3, <2>1
    <2>2. CASE j >= i
      <3>1. j + 1 \in DOMAIN n /\ j + 1 >= j /\ n[j + 1] = s[j]
        BY <1>2, <1>4, <2>2
      <3> QED BY <3>1
    <2> QED BY <2>1, <2>2
  <1>6. Range(n) = Range(s) \cup {e}
    <2>1. ASSUME NEW j \in DOMAIN n PROVE n[j] \in Range(s) \cup {e}
      <3>1. CASE j < i
        BY <1>2, <1>3, <3>1 DEF Range
      <3>2. CASE j = i
        BY <1>2, <3>2
      <3>3. CASE j > i
        <4>1. j - 1 \in i .. Len(s) /\ (j - 1) + 1 = j /\ j - 1 \in DOMAIN s
          BY <1>2, <3>3
        <4>2. n[j] = s[j - 1]
          BY <1>4, <4>1
        <4> QED BY <4>1, <4>2 DEF Range
      <3> QED BY <1>2, <3>1, <3>2, <3>3
    <2>2. \A x \in Range(s) : x \in Range(n)
      BY <1>5 DEF Moved, Range
    <2>3. e \in Range(n)
      BY <1>2 DEF Range
    <2> QED BY <2>1, <2>2, <2>3 DEF Range
  <1> QED BY <1>2, <1>5, <1>6 DEF InsertAt, n, a, b

LEMMA MovedKeeps ==
  ASSUME NEW s, NEW s2, Moved(s, s2)
  PROVE  /\ Range(s) \subseteq Range(s2)
         /\ \A b, read, at : ToCome(s, b, read, at) /\ at \in Nat /\ DOMAIN s \subseteq Nat
                               /\ DOMAIN s2 \subseteq Nat => ToCome(s2, b, read, at)
  <1>1. Range(s) \subseteq Range(s2)
    BY DEF Moved, Range
  <1>2. ASSUME NEW b, NEW read, NEW at \in Nat, ToCome(s, b, read, at), DOMAIN s \subseteq Nat,
               DOMAIN s2 \subseteq Nat, ~Misreads, NEW e \in b, e \notin read
        PROVE  at > 0 /\ \E i \in DOMAIN s2 : i >= at /\ s2[i] = e
    <2>1. PICK i \in DOMAIN s : at > 0 /\ i >= at /\ s[i] = e
      BY <1>2 DEF ToCome
    <2>2. PICK j \in DOMAIN s2 : j >= i /\ s2[j] = e
      BY <2>1 DEF Moved
    <2>3. j >= at
      BY <1>2, <2>1, <2>2
    <2> QED BY <2>1, <2>2, <2>3
  <1> QED BY <1>1, <1>2 DEF ToCome

\* A page: some of the list, and all of it from its own position to the next page's.
LEMMA PageHolds ==
  ASSUME NEW S, NEW s \in Seq(S), NEW at \in Nat \ {0}
  PROVE  /\ PageAt(s, at) \in Seq(S)
         /\ Range(PageAt(s, at)) \subseteq Range(s)
         /\ \A i \in DOMAIN s : i >= at /\ i < at + PageSize => s[i] \in Range(PageAt(s, at))
  <1> DEFINE last == Min({Len(s), at + PageSize - 1})
  <1>1. PageSize \in Nat \ {0} /\ Len(s) \in Nat
    BY CourseOK
  <1>2. last = IF Len(s) <= at + PageSize - 1 THEN Len(s) ELSE at + PageSize - 1
    BY <1>1 DEF Min
  <1> HIDE DEF last
  <1>3. last \in Nat /\ last <= Len(s) /\ last <= at + PageSize - 1
    BY <1>1, <1>2
  <1> DEFINE page == SubSeq(s, at, last)
  <1>4. /\ page \in Seq(S) /\ Len(page) = IF at <= last THEN last - at + 1 ELSE 0
        /\ \A j \in 1 .. Len(page) : page[j] = s[at + j - 1]
    BY <1>3
  <1>5. PageAt(s, at) = page
    BY DEF PageAt, last
  <1> HIDE DEF page
  <1>6. ASSUME NEW j \in DOMAIN page PROVE page[j] \in Range(s)
    <2>1. at + j - 1 \in DOMAIN s
      BY <1>3, <1>4
    <2> QED BY <1>4, <2>1 DEF Range
  <1>7. ASSUME NEW i \in DOMAIN s, i >= at, i < at + PageSize
        PROVE  s[i] \in Range(page)
    <2>1. i <= last
      BY <1>1, <1>2, <1>7
    <2>2. i - at + 1 \in 1 .. Len(page) /\ at + (i - at + 1) - 1 = i
      BY <1>3, <1>4, <1>7, <2>1
    <2>3. page[i - at + 1] = s[i]
      BY <1>4, <2>2
    <2> QED BY <1>4, <2>2, <2>3 DEF Range
  <1> QED BY <1>4, <1>5, <1>6, <1>7 DEF Range

LEMMA JoinedRange ==
  ASSUME NEW S, NEW s \in Seq(S), NEW u \in Seq(S)
  PROVE  s \o u \in Seq(S) /\ Range(s \o u) = Range(s) \cup Range(u)
  <1>1. /\ s \o u \in Seq(S) /\ Len(s \o u) = Len(s) + Len(u)
        /\ \A i \in 1 .. Len(s) : (s \o u)[i] = s[i]
        /\ \A i \in 1 .. Len(u) : (s \o u)[i + Len(s)] = u[i]
    OBVIOUS
  <1> DEFINE n == s \o u
  <1> HIDE DEF n
  <1>2. ASSUME NEW i \in DOMAIN n PROVE n[i] \in Range(s) \cup Range(u)
    <2>1. CASE i <= Len(s)
      BY <1>1, <2>1 DEF Range, n
    <2>2. CASE i > Len(s)
      <3>1. i - Len(s) \in 1 .. Len(u) /\ (i - Len(s)) + Len(s) = i
        BY <1>1, <2>2 DEF n
      <3>2. n[i] = u[i - Len(s)]
        BY <1>1, <3>1 DEF n
      <3> QED BY <3>1, <3>2 DEF Range
    <2> QED BY <1>1, <2>1, <2>2 DEF n
  <1>3. \A i \in DOMAIN s : s[i] \in Range(n)
    BY <1>1 DEF Range, n
  <1>4. ASSUME NEW i \in DOMAIN u PROVE u[i] \in Range(n)
    <2>1. i + Len(s) \in DOMAIN n /\ n[i + Len(s)] = u[i]
      BY <1>1 DEF n
    <2> QED BY <2>1 DEF Range
  <1> QED BY <1>1, <1>2, <1>3, <1>4 DEF Range, n

(* The platform's lists only grow.                                           *)

GrownLists ==
  /\ lists' \in [Lists -> Seq(Entries)]
  /\ \A l \in Lists \ {"results"} : \A e \in Range(lists'[l]) : e.id \in Nat
  /\ \A e \in Range(lists'["sets"]) : e.of = 0
  /\ \A l \in Lists : Moved(lists[l], lists'[l])

LEMMA AddsGrow ==
  ASSUME ListsInv, NEW l \in Lists, NEW e \in Entries, l = "sets" => e.of = 0,
         l # "results" => e.id \in Nat, Adds(l, e)
  PROVE  GrownLists /\ e \in Range(lists'[l])
  <1>1. PICK i \in 1 .. Len(lists[l]) + 1 : lists' = [lists EXCEPT ![l] = InsertAt(lists[l], i, e)]
    BY DEF Adds, ListsInv
  <1> DEFINE new == InsertAt(lists[l], i, e)
  <1>2. lists \in [Lists -> Seq(Entries)] /\ lists[l] \in Seq(Entries)
    BY DEF ListsInv
  <1>3. /\ new \in Seq(Entries) /\ Moved(lists[l], new)
        /\ Range(new) = Range(lists[l]) \cup {e}
    BY <1>2, InsertMoves
  <1> HIDE DEF new
  <1>4. /\ lists' \in [Lists -> Seq(Entries)] /\ lists'[l] = new
        /\ \A k \in Lists : k # l => lists'[k] = lists[k]
    BY <1>1, <1>2, <1>3 DEF new
  <1>5. \A k \in Lists : k # l => Moved(lists[k], lists'[k])
    <2> SUFFICES ASSUME NEW k \in Lists, k # l PROVE Moved(lists[k], lists[k])
      BY <1>4
    <2>1. DOMAIN lists[k] \subseteq Nat
      BY <1>2
    <2> QED BY <2>1 DEF Moved
  <1>6. \A k \in Lists : Moved(lists[k], lists'[k])
    BY <1>3, <1>4, <1>5
  <1>7. \A k \in Lists : \A x \in Range(lists'[k]) : x \in Range(lists[k]) \/ (k = l /\ x = e)
    <2> SUFFICES ASSUME NEW k \in Lists, NEW x \in Range(lists'[k])
                 PROVE  x \in Range(lists[k]) \/ (k = l /\ x = e)
      OBVIOUS
    <2>1. CASE k = l
      <3>1. lists'[k] = new
        BY <1>4, <2>1
      <3>2. x \in Range(lists[l]) \cup {e}
        BY <1>3, <3>1
      <3> QED BY <2>1, <3>2
    <2>2. CASE k # l
      <3>1. lists'[k] = lists[k]
        BY <1>4, <2>2
      <3> QED BY <3>1
    <2> QED BY <2>1, <2>2
  <1>8. \A k \in Lists \ {"results"} : \A x \in Range(lists'[k]) : x.id \in Nat
    BY <1>7 DEF ListsInv
  <1>9. \A x \in Range(lists'["sets"]) : x.of = 0
    BY <1>7 DEF ListsInv, Lists
  <1> QED BY <1>3, <1>4, <1>6, <1>8, <1>9 DEF GrownLists

LEMMA SameGrow ==
  ASSUME ListsInv, lists' = lists
  PROVE  GrownLists
  <1>1. \A l \in Lists : DOMAIN lists[l] \subseteq Nat
    BY DEF ListsInv
  <1>2. \A l \in Lists : Moved(lists[l], lists[l])
    <2> SUFFICES ASSUME NEW l \in Lists, NEW i \in DOMAIN lists[l]
                 PROVE  \E j \in DOMAIN lists[l] : j >= i /\ lists[l][j] = lists[l][i]
      BY DEF Moved
    <2>1. i >= i
      BY <1>1
    <2> QED BY <2>1
  <1> QED BY <1>2 DEF ListsInv, GrownLists

LEMMA PostGrows ==
  ASSUME ListsInv, NEW t \in Callers, NEW r \in Posts
  PROVE  /\ Creates(r) => /\ r.do = "create" /\ GrownLists
                          /\ Entry(Len(lists["lineitems"]) + 1, r.of) \in Range(lists'["lineitems"])
         /\ Scores(t, r) => /\ r.do = "score" /\ GrownLists
                            /\ Entry(t, r.of) \in Range(lists'["results"])
  <1>1. Len(lists["lineitems"]) + 1 \in Nat /\ "lineitems" \in Lists /\ "results" \in Lists
    BY DEF ListsInv, Lists
  <1>2. ASSUME Creates(r)
        PROVE  /\ r.do = "create" /\ GrownLists
               /\ Entry(Len(lists["lineitems"]) + 1, r.of) \in Range(lists'["lineitems"])
    <2>1. r.do = "create" /\ Adds("lineitems", Entry(Len(lists["lineitems"]) + 1, r.of))
      BY <1>2 DEF Creates
    <2>2. r.of \in Tags
      BY <2>1 DEF Posts
    <2>3. /\ Entry(Len(lists["lineitems"]) + 1, r.of) \in Entries
          /\ Entry(Len(lists["lineitems"]) + 1, r.of).id \in Nat
      BY <1>1, <2>2 DEF Entry, Entries, Belongs
    <2> HIDE DEF Entry
    <2> QED BY <1>1, <2>1, <2>3, AddsGrow
  <1>3. ASSUME Scores(t, r)
        PROVE  r.do = "score" /\ GrownLists /\ Entry(t, r.of) \in Range(lists'["results"])
    <2>1. r.do = "score" /\ r.of \in Nat
      BY <1>3 DEF Scores, Posts
    <2>2. Entry(t, r.of) \in Entries
      BY <2>1 DEF Entry, Entries, Belongs
    <2>3. \/ Entry(t, r.of) \in Range(lists["results"]) /\ lists' = lists
          \/ Adds("results", Entry(t, r.of))
      BY <1>3 DEF Scores
    <2> QED BY <1>1, <2>1, <2>2, <2>3, AddsGrow, SameGrow
  <1> QED BY <1>2, <1>3

\* What the platform adds of itself.
LEMMA GrowAdds ==
  ASSUME ListsInv, Grow
  PROVE  \E l \in Growing, of \in Belongs, n \in Nat :
           /\ Adds(l, Entry(n, of)) /\ n # 0
           /\ l = "sets" => of = 0
           /\ l = "lineitems" => of = NoTag
  <1>1. PICK l \in Growing :
          \E of \in CASE l = "lineitems" -> {NoTag}
                      [] l = "groups" -> {e.id : e \in Range(lists["sets"])} \cup {0}
                      [] l = "results" -> {e.id : e \in Range(lists["lineitems"])}
                      [] OTHER -> {0} :
            Adds(l, Entry(Len(lists[l]) + 1, of))
    BY DEF Grow
  <1>2. PICK of \in CASE l = "lineitems" -> {NoTag}
                      [] l = "groups" -> {e.id : e \in Range(lists["sets"])} \cup {0}
                      [] l = "results" -> {e.id : e \in Range(lists["lineitems"])}
                      [] OTHER -> {0} : Adds(l, Entry(Len(lists[l]) + 1, of))
    BY <1>1
  <1>3. l \in Lists /\ Len(lists[l]) + 1 \in Nat /\ Len(lists[l]) + 1 # 0
    BY CourseOK DEF ListsInv
  <1>4. of \in Belongs /\ (l = "sets" => of = 0) /\ (l = "lineitems" => of = NoTag)
    <2>1. \A e \in Range(lists["sets"]) \cup Range(lists["lineitems"]) : e.id \in Nat
      BY DEF ListsInv, Lists
    <2>2. CASE l = "lineitems"
      BY <1>2, <2>2 DEF Belongs
    <2>3. CASE l = "groups"
      BY <1>2, <2>1, <2>3 DEF Belongs
    <2>4. CASE l = "results"
      BY <1>2, <2>1, <2>4 DEF Belongs
    <2>5. CASE l \notin {"lineitems", "groups", "results"}
      BY <1>2, <2>5 DEF Belongs
    <2> QED BY <2>2, <2>3, <2>4, <2>5
  <1> QED BY <1>2, <1>3, <1>4

LEMMA GrowGrows ==
  ASSUME ListsInv, Grow
  PROVE  GrownLists
  <1>1. PICK l \in Growing, of \in Belongs, n \in Nat :
          /\ Adds(l, Entry(n, of))
          /\ l = "sets" => of = 0
    BY GrowAdds
  <1> DEFINE e == Entry(n, of)
  <1>2. e \in Entries /\ e.id \in Nat /\ (l = "sets" => e.of = 0) /\ l \in Lists /\ Adds(l, e)
    BY <1>1, CourseOK DEF Entry, Entries
  <1> HIDE DEF e
  <1> QED BY <1>2, AddsGrow

LEMMA GrownFacts ==
  ASSUME ListsInv, GrownLists, NEW l \in Lists
  PROVE  /\ Range(lists[l]) \subseteq Range(lists'[l])
         /\ \A b, read : \A at \in Nat : ToCome(lists[l], b, read, at) => ToCome(lists'[l], b, read, at)
  <1>1. DOMAIN lists[l] \subseteq Nat /\ DOMAIN lists'[l] \subseteq Nat
    BY DEF ListsInv, GrownLists
  <1>2. Moved(lists[l], lists'[l])
    BY DEF GrownLists
  <1> QED BY <1>1, <1>2, MovedKeeps

-----------------------------------------------------------------------------
(* The callers beside the one that takes a step.                             *)

Untouched(v) ==
  /\ op'[v] = op[v] /\ want'[v] = want[v] /\ pc'[v] = pc[v] /\ req'[v] = req[v]
  /\ tries'[v] = tries[v] /\ answer'[v] = answer[v] /\ got'[v] = got[v] /\ sets'[v] = sets[v]
  /\ item'[v] = item[v] /\ base'[v] = base[v] /\ made'[v] = made[v]

\* A step of caller t.
StepOf(t) ==
  /\ GrownLists /\ OwnInv' /\ granted' = granted
  /\ \A p \in late' : p[1] \in Callers /\ p[2] \in Posts \cup Strays
  /\ \A v \in Callers \ {t} : Untouched(v)

LEMMA AskedOf ==
  ASSUME NEW t \in Callers, AskedInv(t), Called(t), req[t].do = "get"
  PROVE  req[t].list \in Lists /\ req[t].at \in Nat /\ req[t].at > 0
  BY DEF AskedInv, Gets

LEMMA UntouchedKept ==
  ASSUME ListsInv, GrownLists, granted' = granted, NEW v \in Callers, CallInv(v), Untouched(v)
  PROVE  CallInv(v)'
  <1> DEFINE l == req[v].list
  <1>0. AskedInv(v) /\ ReadInv(v) /\ GradeInv(v) /\ ScopeInv(v)
    BY DEF CallInv
  <1>1. Called(v)' = Called(v) /\ Reading(v)' = Reading(v)
    BY DEF Untouched, Called, Reading
  <1>2. Called(v) /\ req[v].do = "get" =>
          /\ Range(lists[l]) \subseteq Range(lists'[l])
          /\ \A b, read : \A at \in Nat : ToCome(lists[l], b, read, at) => ToCome(lists'[l], b, read, at)
    BY <1>0, AskedOf, GrownFacts
  <1>3. AskedInv(v)'
    <2>1. pc[v] = "back" /\ answer[v].ok = "page" /\ op[v] # "grades" =>
            Range(answer[v].els) \subseteq Range(lists'[l])
      BY <1>0, <1>2 DEF AskedInv, Called, Refusal
    <2> HIDE DEF l
    <2> QED BY <1>0, <1>1, <2>1 DEF AskedInv, Untouched, Called, l
  <1>4. ReadInv(v)'
    <2>1. Called(v) /\ Reading(v) => req[v].do = "get" /\ req[v].at \in Nat
      BY <1>0, AskedOf DEF AskedInv, Reading
    <2>2. Called(v) /\ Reading(v) => ToCome(lists'[l], base[v][l], Range(got[v]), req[v].at)
      BY <1>0, <1>2, <2>1 DEF ReadInv
    <2>3. Called(v) /\ Reading(v) /\ pc[v] = "back" /\ answer[v].ok = "page" =>
            ToCome(lists'[l], base[v][l], Range(got[v]) \cup Range(answer[v].els), answer[v].next)
      BY <1>0, <1>2, <2>1 DEF ReadInv, AskedInv
    <2>4. \A b : ToCome(lists["groups"], b, {}, 1) => ToCome(lists'["groups"], b, {}, 1)
      BY GrownFacts DEF Lists
    <2> QED BY <1>0, <1>1, <2>2, <2>3, <2>4 DEF ReadInv, Untouched
  <1>5. GradeInv(v)'
    <2>1. Range(lists["lineitems"]) \subseteq Range(lists'["lineitems"])
      BY GrownFacts DEF Lists
    <2>2. Range(lists["results"]) \subseteq Range(lists'["results"])
      BY GrownFacts DEF Lists
    <2> QED BY <1>0, <1>1, <2>1, <2>2 DEF GradeInv, Untouched
  <1>6. ScopeInv(v)'
    BY <1>0, <1>1 DEF ScopeInv, Untouched, CanPut
  <1> QED BY <1>3, <1>4, <1>5, <1>6 DEF CallInv

LEMMA OneCaller ==
  ASSUME CallsInv, NEW t \in Callers, StepOf(t), CallInv(t)'
  PROVE  CallsInv'
  <1>1. \A v \in Callers : CallInv(v)'
    BY UntouchedKept DEF CallsInv, StepOf
  <1>2. ListsInv' /\ OwnInv'
    BY DEF StepOf, GrownLists, ListsInv
  <1> QED BY <1>1, <1>2 DEF CallsInv

-----------------------------------------------------------------------------
(* What a step of caller t changes is its own.                               *)

\* f2 is f, but perhaps for t.
Moves(f, f2, t) == DOMAIN f2 = Callers /\ \A v \in Callers \ {t} : f2[v] = f[v]

LEMMA UpdateMoves ==
  ASSUME NEW f, DOMAIN f = Callers, NEW t \in Callers, NEW x
  PROVE  /\ Moves(f, [f EXCEPT ![t] = x], t) /\ [f EXCEPT ![t] = x][t] = x
         /\ Moves(f, f, t)
  BY DEF Moves

OwnMoves(t) ==
  /\ Moves(op, op', t) /\ Moves(want, want', t) /\ Moves(item, item', t) /\ Moves(got, got', t)
  /\ Moves(sets, sets', t) /\ Moves(base, base', t) /\ Moves(made, made', t)

NetMoves(t) ==
  /\ Moves(pc, pc', t) /\ Moves(req, req', t) /\ Moves(tries, tries', t)
  /\ Moves(answer, answer', t)

LEMMA MovesOwn ==
  ASSUME NEW t \in Callers, OwnMoves(t), NetMoves(t)
  PROVE  OwnInv' /\ \A v \in Callers \ {t} : Untouched(v)
  BY DEF OwnMoves, NetMoves, Moves, OwnInv, Untouched

LEMMA AskGives ==
  ASSUME OwnInv, NEW t \in Callers, NEW r, Ask(t, r)
  PROVE  /\ NetMoves(t) /\ pc'[t] = "out" /\ req'[t] = r /\ answer'[t] = Refusal
         /\ Called(t)'
  <1>1. /\ DOMAIN pc = Callers /\ DOMAIN req = Callers /\ DOMAIN tries = Callers
        /\ DOMAIN answer = Callers
    BY DEF OwnInv
  <1> QED BY <1>1, UpdateMoves DEF Ask, NetMoves, Called

LEMMA EndGives ==
  ASSUME OwnInv, NEW t \in Callers, NEW p, End(t, p)
  PROVE  NetMoves(t) /\ pc'[t] = p
  <1>1. /\ DOMAIN pc = Callers /\ DOMAIN req = Callers /\ DOMAIN tries = Callers
        /\ DOMAIN answer = Callers
    BY DEF OwnInv
  <1> QED BY <1>1, UpdateMoves DEF End, NetMoves

LEMMA ThrowGives ==
  ASSUME OwnInv, NEW t \in Callers, NEW p, Throw(t, p), UNCHANGED <<op, want, made>>
  PROVE  NetMoves(t) /\ OwnMoves(t) /\ pc'[t] = p /\ got'[t] = <<>> /\ sets'[t] = <<>>
  <1>1. /\ DOMAIN got = Callers /\ DOMAIN sets = Callers /\ DOMAIN item = Callers
        /\ DOMAIN base = Callers /\ DOMAIN op = Callers /\ DOMAIN want = Callers
        /\ DOMAIN made = Callers
    BY DEF OwnInv
  <1>2. End(t, p)
    BY DEF Throw
  <1>3. OwnMoves(t) /\ got'[t] = <<>> /\ sets'[t] = <<>>
    BY <1>1, UpdateMoves DEF Throw, OwnMoves
  <1> QED BY <1>2, <1>3, EndGives

LEMMA BeginGives ==
  ASSUME OwnInv, NEW t \in Callers, NEW o, NEW w, NEW i, NEW reads, Begin(t, o, w, i, reads)
  PROVE  /\ OwnMoves(t) /\ op'[t] = o /\ want'[t] = w /\ item'[t] = i
         /\ got'[t] = <<>> /\ sets'[t] = <<>> /\ made'[t] = 0
         /\ base'[t] = [l \in reads |-> Range(Listing(Get(l, w)))]
  <1>1. /\ DOMAIN got = Callers /\ DOMAIN sets = Callers /\ DOMAIN item = Callers
        /\ DOMAIN base = Callers /\ DOMAIN op = Callers /\ DOMAIN want = Callers
        /\ DOMAIN made = Callers
    BY DEF OwnInv
  <1> QED BY <1>1, UpdateMoves DEF Begin, OwnMoves

LEMMA AnsweredGives ==
  ASSUME OwnInv, NEW t \in Callers, NEW a, Answered(t, a)
  PROVE  /\ NetMoves(t) /\ pc'[t] = "back" /\ req'[t] = req[t] /\ answer'[t] = a
         /\ UNCHANGED <<op, want, got, sets, item, base, late, granted>>
         /\ pc[t] = "out"
  <1>1. /\ DOMAIN pc = Callers /\ DOMAIN req = Callers /\ DOMAIN tries = Callers
        /\ DOMAIN answer = Callers
    BY DEF OwnInv
  <1> QED BY <1>1, UpdateMoves DEF Answered, NetMoves

LEMMA SameMoves ==
  ASSUME OwnInv, NEW t \in Callers
  PROVE  /\ UNCHANGED <<op, want, got, sets, item, base, made>> => OwnMoves(t)
         /\ UNCHANGED <<pc, req, tries, answer>> => NetMoves(t)
         /\ UNCHANGED op => Moves(op, op', t)
         /\ UNCHANGED want => Moves(want, want', t)
         /\ UNCHANGED got => Moves(got, got', t)
         /\ UNCHANGED sets => Moves(sets, sets', t)
         /\ UNCHANGED item => Moves(item, item', t)
         /\ UNCHANGED base => Moves(base, base', t)
         /\ UNCHANGED made => Moves(made, made', t)
  BY DEF OwnInv, OwnMoves, NetMoves, Moves

\* A step that leaves the platform alone is a step of its caller.
LEMMA QuietStep ==
  ASSUME CallsInv, NEW t \in Callers, UNCHANGED <<lists, late, granted>>, OwnMoves(t), NetMoves(t)
  PROVE  StepOf(t)
  <1>1. GrownLists /\ \A p \in late : p[1] \in Callers /\ p[2] \in Posts \cup Strays
    BY SameGrow DEF CallsInv, ListsInv
  <1> QED BY <1>1, MovesOwn DEF StepOf

-----------------------------------------------------------------------------
(* A call begins.                                                            *)

\* A call that is over without having read or posted anything, or has thrown it away.
LEMMA OverKept ==
  ASSUME NEW t \in Callers, pc'[t] \in {"failed", "refused", "forbidden"},
         got'[t] = <<>>, sets'[t] = <<>>, granted' = granted,
         \/ made'[t] = 0
         \/ made'[t] = made[t] /\ pc'[t] # "forbidden" /\ ScopeInv(t)
  PROVE  CallInv(t)'
  <1>1. ~Called(t)' /\ pc'[t] # "back" /\ pc'[t] # "done"
    BY DEF Called
  <1>2. AskedInv(t)' /\ GradeInv(t)'
    BY <1>1 DEF AskedInv, GradeInv
  <1>3. ReadInv(t)'
    <2>1. <<>> \in Seq(Entries) /\ Range(<<>>) = {}
      BY DEF Range
    <2> QED BY <1>1, <2>1 DEF ReadInv
  <1>4. ScopeInv(t)'
    BY <1>1 DEF ScopeInv, CanPut
  <1> QED BY <1>2, <1>3, <1>4 DEF CallInv

LEMMA GetType ==
  ASSUME NEW l \in Lists, NEW of \in Nat
  PROVE  /\ Get(l, of) \in Gets /\ Get(l, of).do = "get" /\ Get(l, of).list = l
         /\ Get(l, of).at = 1
         /\ l # "results" => Listing(Get(l, of)) = lists[l]
  BY DEF Get, Gets, Listing

LEMMA PostType ==
  /\ \A tag \in Tags : /\ Create(tag) \in Posts /\ Create(tag).do = "create"
                       /\ Create(tag).of = tag
  /\ \A i \in Nat : Score(i) \in Posts /\ Score(i).do = "score" /\ Score(i).of = i
  BY DEF Create, Score, Posts

LEMMA AllToCome ==
  ASSUME NEW S, NEW s \in Seq(S)
  PROVE  ToCome(s, Range(s), Range(<<>>), 1)
  BY DEF ToCome, Range

LEMMA ReadStarts ==
  ASSUME CallsInv, NEW t \in Callers, NEW o, NEW l, NEW reads,
         \/ o = "roster" /\ l = "members"
         \/ o = "lineitems" /\ l = "lineitems"
         \/ o = "sets" /\ l = "sets" /\ "groups" \in reads,
         l \in reads, Begin(t, o, 0, 0, reads), Ask(t, Get(l, 0))
  PROVE  CallsInv' /\ StepOf(t)
  <1>1. ListsInv /\ OwnInv /\ l \in Lists /\ l # "results" /\ 0 \in Nat
    BY DEF CallsInv, Lists
  <1>2. /\ OwnMoves(t) /\ op'[t] = o /\ got'[t] = <<>> /\ sets'[t] = <<>> /\ made'[t] = 0
        /\ base'[t] = [k \in reads |-> Range(Listing(Get(k, 0)))]
    BY <1>1, BeginGives
  <1>3. /\ NetMoves(t) /\ pc'[t] = "out" /\ req'[t] = Get(l, 0) /\ Called(t)'
    BY <1>1, AskGives
  <1>4. UNCHANGED <<lists, late, granted>>
    BY DEF Begin
  <1>5. StepOf(t)
    BY <1>2, <1>3, <1>4, QuietStep
  <1>6. /\ Get(l, 0) \in Gets /\ Get(l, 0).do = "get" /\ Get(l, 0).list = l
        /\ Get(l, 0).at = 1 /\ Listing(Get(l, 0)) = lists[l]
    BY <1>1, GetType
  <1>7. AskedInv(t)'
    BY <1>2, <1>3, <1>6 DEF AskedInv
  <1>8. ReadInv(t)'
    <2>1. base'[t][l] = Range(lists[l])
      BY <1>2, <1>6
    <2>2. ToCome(lists[l], Range(lists[l]), Range(<<>>), 1)
      BY <1>1, AllToCome DEF ListsInv
    <2>3. <<>> \in Seq(Entries) /\ Range(<<>>) = {}
      BY DEF Range
    <2>4. ToCome(lists'[l], base'[t][l], Range(got'[t]), req'[t].at)
      BY <1>2, <1>3, <1>4, <1>6, <2>1, <2>2
    <2>5. l = "sets" => ToCome(lists'["groups"], base'[t]["groups"], {}, 1)
      <3>1. Listing(Get("groups", 0)) = lists["groups"] /\ lists["groups"] \in Seq(Entries)
        BY <1>1, GetType DEF Lists, ListsInv
      <3>2. l = "sets" => base'[t]["groups"] = Range(lists["groups"])
        BY <1>2, <3>1
      <3> QED BY <1>4, <2>3, <3>1, <3>2, AllToCome
    <2> QED BY <1>1, <1>2, <1>3, <1>6, <2>3, <2>4, <2>5 DEF ReadInv
  <1>9. GradeInv(t)' /\ ScopeInv(t)'
    BY <1>2 DEF GradeInv, ScopeInv
  <1> QED BY <1>5, <1>7, <1>8, <1>9, OneCaller DEF CallInv

\* A call that is refused its scope, or has nothing to ask for.
LEMMA NothingAsked ==
  ASSUME CallsInv, NEW t \in Callers, NEW o, NEW w, NEW i, NEW reads, NEW p,
         p = "forbidden" \/ (p = "done" /\ o = "grades"),
         Begin(t, o, w, i, reads), End(t, p)
  PROVE  CallsInv' /\ StepOf(t)
  <1>1. ListsInv /\ OwnInv
    BY DEF CallsInv
  <1>2. /\ OwnMoves(t) /\ op'[t] = o /\ got'[t] = <<>> /\ sets'[t] = <<>> /\ made'[t] = 0
    BY <1>1, BeginGives
  <1>3. NetMoves(t) /\ pc'[t] = p
    BY <1>1, EndGives
  <1>4. UNCHANGED <<lists, late, granted>>
    BY DEF Begin
  <1>5. StepOf(t)
    BY <1>2, <1>3, <1>4, QuietStep
  <1>6. CASE p = "forbidden"
    BY <1>2, <1>3, <1>4, <1>5, <1>6, OverKept, OneCaller
  <1>7. CASE p = "done" /\ o = "grades"
    <2>1. ~Called(t)' /\ ~Reading(t)'
      BY <1>2, <1>3, <1>7 DEF Called, Reading
    <2>2. CallInv(t)'
      BY <1>2, <1>3, <1>7, <2>1 DEF CallInv, AskedInv, ReadInv, GradeInv, ScopeInv
    <2> QED BY <1>5, <2>2, OneCaller
  <1> QED BY <1>6, <1>7

LEMMA OtherCallStarts ==
  ASSUME CallsInv, NEW t \in Callers, NEW o, NEW w, NEW i, NEW reads, NEW r,
         \/ o = "grades" /\ r \in Gets /\ r.list = "results" /\ r.at > 0
         \/ o = "put" /\ w \in Tags /\ CanPut /\ r \in Gets /\ r.list = "lineitems" /\ r.at > 0
         \/ o = "puton" /\ r \in Posts /\ r.do = "score" /\ r.of \in Nat,
         Begin(t, o, w, i, reads), Ask(t, r)
  PROVE  CallsInv' /\ StepOf(t)
  <1>1. ListsInv /\ OwnInv
    BY DEF CallsInv
  <1>2. /\ OwnMoves(t) /\ op'[t] = o /\ want'[t] = w /\ made'[t] = 0
    BY <1>1, BeginGives
  <1>3. NetMoves(t) /\ pc'[t] = "out" /\ req'[t] = r /\ Called(t)'
    BY <1>1, AskGives
  <1>4. UNCHANGED <<lists, late, granted>>
    BY DEF Begin
  <1>5. StepOf(t)
    BY <1>2, <1>3, <1>4, QuietStep
  <1>6. r \in Gets => r.do = "get"
    BY DEF Gets
  <1>7. AskedInv(t)'
    BY <1>2, <1>3, <1>6 DEF AskedInv
  <1>8. ~Reading(t)' /\ ReadInv(t)'
    BY <1>2, <1>3 DEF Reading, ReadInv
  <1>9. GradeInv(t)'
    BY <1>2, <1>3, <1>6 DEF GradeInv
  <1>10. ScopeInv(t)'
    BY <1>2, <1>4 DEF ScopeInv, CanPut
  <1> QED BY <1>5, <1>7, <1>8, <1>9, <1>10, OneCaller DEF CallInv

LEMMA CallKeeps ==
  ASSUME CallsInv, NEW t \in Callers, Call(t)
  PROVE  CallsInv' /\ StepOf(t)
  <1>0. 0 \in Nat /\ Lists \subseteq Lists /\ {"members", "lineitems", "results"} \subseteq Lists
    BY DEF Lists
  <1>1. CASE GetMembers(t)
    BY <1>1, ReadStarts DEF GetMembers
  <1>2. CASE GetLineItems(t)
    BY <1>2, ReadStarts, NothingAsked DEF GetLineItems
  <1>3. CASE GetSets(t)
    BY <1>3, ReadStarts DEF GetSets
  <1>4. ASSUME NEW i \in 0 .. Len(lists["lineitems"]), GetGrades(t, i) PROVE CallsInv' /\ StepOf(t)
    <2>1. i \in Nat
      BY DEF CallsInv, ListsInv, Lists
    <2>2. Get("results", i) \in Gets /\ Get("results", i).list = "results" /\ Get("results", i).at > 0
      BY <1>0, <2>1, GetType
    <2> QED BY <1>4, <2>2, OtherCallStarts, NothingAsked DEF GetGrades
  <1>5. ASSUME NEW i \in 0 .. Len(lists["lineitems"]), PutGradeOn(t, i) PROVE CallsInv' /\ StepOf(t)
    <2>1. i \in Nat
      BY DEF CallsInv, ListsInv, Lists
    <2> QED BY <1>5, <2>1, PostType, OtherCallStarts, NothingAsked DEF PutGradeOn
  <1>6. ASSUME NEW tag \in Tags, PutGrade(t, tag) PROVE CallsInv' /\ StepOf(t)
    <2>1. /\ Get("lineitems", 0) \in Gets /\ Get("lineitems", 0).list = "lineitems"
          /\ Get("lineitems", 0).at > 0
      BY <1>0, GetType
    <2> QED BY <1>6, <2>1, OtherCallStarts, NothingAsked DEF PutGrade
  <1>7. CASE NewService(t)
    <2>1. UNCHANGED <<granted, lists, late, op, want, pc, req, tries, answer, got, sets, item, base, made>>
      BY <1>7 DEF NewService
    <2>2. StepOf(t) /\ Untouched(t) /\ GrownLists /\ granted' = granted
      BY <2>1, SameMoves, QuietStep DEF CallsInv, Untouched, StepOf
    <2> QED BY <2>2, UntouchedKept, OneCaller DEF CallsInv
  <1> QED BY <1>1, <1>2, <1>3, <1>4, <1>5, <1>6, <1>7 DEF Call

-----------------------------------------------------------------------------
(* The platform answers.                                                     *)

\* What the page at "at" lacks is still to come, where its link leads on or back.
LEMMA PageToCome ==
  ASSUME NEW S, NEW s \in Seq(S), NEW at \in Nat \ {0}, NEW b, NEW read,
         ToCome(s, b, read, at), NEW next \in Nat, next = NextPage(Len(s), at) \/ next \in 1 .. at
  PROVE  ToCome(s, b, read \cup Range(PageAt(s, at)), next)
  <1>1. PageSize \in Nat \ {0} /\ Len(s) \in Nat /\ DOMAIN s = 1 .. Len(s)
    BY CourseOK
  <1>2. SUFFICES ASSUME ~Misreads, NEW e \in b, e \notin read, e \notin Range(PageAt(s, at))
                 PROVE  next > 0 /\ \E i \in DOMAIN s : i >= next /\ s[i] = e
    BY DEF ToCome
  <1>3. PICK i \in DOMAIN s : i >= at /\ s[i] = e
    BY <1>2 DEF ToCome
  <1>4. i >= at + PageSize
    <2>1. \A j \in DOMAIN s : j >= at /\ j < at + PageSize => s[j] \in Range(PageAt(s, at))
      BY PageHolds
    <2>2. ~(i < at + PageSize)
      BY <1>2, <1>3, <2>1
    <2> QED BY <1>1, <2>2
  <1>5. NextPage(Len(s), at) = at + PageSize
    BY <1>1, <1>3, <1>4 DEF NextPage
  <1>6. next > 0 /\ i >= next
    BY <1>1, <1>4, <1>5
  <1> QED BY <1>3, <1>6

\* The answer is all that changes, and it says nothing of a posted score or line item.
LEMMA AnswerKept ==
  ASSUME CallsInv, NEW t \in Callers, NEW a, Answered(t, a), UNCHANGED <<lists, made>>,
         \/ a = Refusal
         \/ a.ok = "page" /\ req[t].do = "get" /\ a.next \in Nat
  PROVE  /\ StepOf(t) /\ GradeInv(t)' /\ ScopeInv(t)'
         /\ req'[t] = req[t] /\ pc'[t] = "back" /\ answer'[t] = a
         /\ UNCHANGED <<op, want, got, sets, item, base>>
         /\ Called(t) /\ Called(t)'
  <1>1. ListsInv /\ OwnInv /\ GradeInv(t) /\ ScopeInv(t)
    BY DEF CallsInv, CallInv
  <1>2. /\ NetMoves(t) /\ pc'[t] = "back" /\ req'[t] = req[t] /\ answer'[t] = a
        /\ UNCHANGED <<op, want, got, sets, item, base, late, granted>> /\ pc[t] = "out"
    BY <1>1, AnsweredGives
  <1>3. OwnMoves(t)
    BY <1>1, <1>2, SameMoves
  <1>4. StepOf(t)
    BY <1>2, <1>3, QuietStep
  <1>5. Called(t) /\ Called(t)'
    BY <1>2 DEF Called
  <1>6. a.ok # "posted"
    BY DEF Refusal
  <1>7. GradeInv(t)'
    BY <1>1, <1>2, <1>5, <1>6 DEF GradeInv
  <1>8. ScopeInv(t)'
    BY <1>1, <1>2, <1>5 DEF ScopeInv, CanPut
  <1> QED BY <1>2, <1>4, <1>5, <1>7, <1>8

LEMMA RefuseKeeps ==
  ASSUME CallsInv, NEW t \in Callers, Refuse(t)
  PROVE  CallsInv' /\ StepOf(t)
  <1>1. AskedInv(t) /\ ReadInv(t)
    BY DEF CallsInv, CallInv
  <1>2. Answered(t, Refusal) /\ UNCHANGED <<lists, made>>
    BY DEF Refuse
  <1>3. /\ StepOf(t) /\ GradeInv(t)' /\ ScopeInv(t)'
        /\ req'[t] = req[t] /\ pc'[t] = "back" /\ answer'[t] = Refusal
        /\ UNCHANGED <<op, want, got, sets, item, base>>
        /\ Called(t) /\ Called(t)'
    BY <1>2, AnswerKept
  <1>4. Refusal.ok = "no"
    BY DEF Refusal
  <1>5. AskedInv(t)'
    BY <1>1, <1>2, <1>3, <1>4 DEF AskedInv
  <1>6. ReadInv(t)'
    BY <1>1, <1>2, <1>3, <1>4 DEF ReadInv, Reading
  <1> QED BY <1>3, <1>5, <1>6, OneCaller DEF CallInv

\* A set drawn from a sequence can be put into an order again.
LEMMA DrawnInOrder ==
  ASSUME NEW S, NEW s \in Seq(S), NEW T \in SUBSET Range(s)
  PROVE  SetToSeq(T) \in Seq(S)
  <1>1. s \in Surjection(1 .. Len(s), Range(s))
    BY DEF Surjection, Range
  <1>2. IsFiniteSet(1 .. Len(s))
    BY FS_Interval
  <1>3. IsFiniteSet(Range(s))
    BY <1>1, <1>2, FS_Surjection
  <1>4. IsFiniteSet(T)
    BY <1>3, FS_Subset
  <1>5. Cardinality(T) \in Nat /\ ExistsBijection(1 .. Cardinality(T), T)
    BY <1>4, FS_CardinalityType
  <1>6. \E f \in [1 .. Cardinality(T) -> T] : IsInjective(f)
    BY <1>5 DEF ExistsBijection, Bijection, Injection
  <1>7. SetToSeq(T) \in [1 .. Cardinality(T) -> T]
    BY <1>6 DEF SetToSeq
  <1>8. T \subseteq S
    BY DEF Range
  <1> QED BY <1>5, <1>7, <1>8

LEMMA ListingType ==
  ASSUME ListsInv, NEW r \in Gets
  PROVE  Listing(r) \in Seq(Entries)
  <1>1. r.list \in Lists /\ lists["results"] \in Seq(Entries) /\ lists[r.list] \in Seq(Entries)
    BY DEF ListsInv, Gets, Lists
  <1>2. {e \in Range(lists["results"]) : e.of = r.of} \in SUBSET Range(lists["results"])
    OBVIOUS
  <1>3. SetToSeq({e \in Range(lists["results"]) : e.of = r.of}) \in Seq(Entries)
    BY <1>1, <1>2, DrawnInOrder
  <1> QED BY <1>1, <1>3 DEF Listing

\* What ServePage answers with.
LEMMA ServedPage ==
  ASSUME CallsInv, NEW t \in Callers, ServePage(t)
  PROVE  \E at \in Nat \ {0}, next \in Nat :
           /\ Answered(t, [ok |-> "page", els |-> PageAt(Listing(req[t]), at), next |-> next])
           /\ Misreads \/ at = req[t].at
           /\ next = NextPage(Len(Listing(req[t])), at) \/ next \in 1 .. req[t].at
           /\ UNCHANGED <<lists, made>> /\ pc[t] = "out" /\ Called(t)
           /\ req[t].do = "get" /\ req[t] \in Gets /\ req[t].list \in Lists
           /\ req[t].at \in Nat \ {0} /\ Listing(req[t]) \in Seq(Entries)
           /\ op[t] # "grades" => Listing(req[t]) = lists[req[t].list]
  <1> DEFINE r == req[t]
             s == Listing(r)
  <1>1. AskedInv(t) /\ ListsInv
    BY DEF CallsInv, CallInv
  <1>2. PICK at \in Meant(t, Len(s)) : \E next \in Links(t, Len(s), at) :
          Answered(t, [ok |-> "page", els |-> PageAt(s, at), next |-> next])
    BY DEF ServePage
  <1>3. PICK next \in Links(t, Len(s), at) :
          Answered(t, [ok |-> "page", els |-> PageAt(s, at), next |-> next])
    BY <1>2
  <1>4. UNCHANGED <<lists, made>> /\ r.do = "get" /\ pc[t] = "out" /\ Called(t)
    BY <1>3 DEF ServePage, Answered, Called
  <1>5. r \in Gets /\ r.list \in Lists /\ r.at \in Nat \ {0}
    BY <1>1, <1>4, AskedOf DEF AskedInv
  <1>6. s \in Seq(Entries)
    BY <1>1, <1>5, ListingType
  <1>7. op[t] # "grades" => s = lists[r.list]
    BY <1>1, <1>4 DEF AskedInv, Listing
  <1> HIDE DEF s
  <1>8. Len(s) \in Nat
    BY <1>6
  <1>9. at \in Nat \ {0} /\ (Misreads \/ at = r.at)
    BY <1>2, <1>5, <1>8 DEF Meant
  <1>10. next \in Nat /\ (next = NextPage(Len(s), at) \/ next \in 1 .. r.at)
    BY <1>3, <1>5, <1>8, <1>9, CourseOK DEF Links, NextPage
  <1> QED BY <1>3, <1>4, <1>5, <1>6, <1>7, <1>9, <1>10 DEF s

LEMMA ServePageKeeps ==
  ASSUME CallsInv, NEW t \in Callers, ServePage(t)
  PROVE  CallsInv' /\ StepOf(t)
  <1> DEFINE r == req[t]
             l == r.list
             s == Listing(r)
  <1>1. AskedInv(t) /\ ReadInv(t) /\ ListsInv
    BY DEF CallsInv, CallInv
  <1>2. PICK at \in Nat \ {0}, next \in Nat :
          /\ Answered(t, [ok |-> "page", els |-> PageAt(s, at), next |-> next])
          /\ Misreads \/ at = r.at
          /\ next = NextPage(Len(s), at) \/ next \in 1 .. r.at
          /\ UNCHANGED <<lists, made>> /\ r.do = "get" /\ pc[t] = "out"
          /\ Called(t) /\ r \in Gets /\ l \in Lists /\ r.at \in Nat \ {0}
          /\ s \in Seq(Entries) /\ (op[t] # "grades" => s = lists[l])
    BY ServedPage
  <1> DEFINE a == [ok |-> "page", els |-> PageAt(s, at), next |-> next]
  <1>3. Answered(t, a) /\ r.at \in Nat /\ r.at > 0
    BY <1>2
  <1>4. a.ok = "page" /\ a.next = next /\ a.els = PageAt(s, at)
    OBVIOUS
  <1> HIDE DEF a
  <1>6. /\ StepOf(t) /\ GradeInv(t)' /\ ScopeInv(t)'
        /\ req'[t] = r /\ pc'[t] = "back" /\ answer'[t] = a
        /\ UNCHANGED <<op, want, got, sets, item, base>>
        /\ Called(t)'
    BY <1>2, <1>3, <1>4, AnswerKept
  <1>8. op[t] # "grades" => /\ s = lists[l] /\ s \in Seq(Entries)
                            /\ a.els \in Seq(Entries) /\ Range(a.els) \subseteq Range(lists[l])
    <2> HIDE DEF s
    <2> QED BY <1>2, <1>4, PageHolds
  <1>9. AskedInv(t)'
    <2> HIDE DEF r, l, s
    <2>1. op'[t] = op[t] /\ want'[t] = want[t] /\ lists' = lists
      BY <1>2, <1>6
    <2> QED BY <1>1, <1>2, <1>3, <1>4, <1>6, <1>8, <2>1 DEF AskedInv, r, l
  <1>10. ReadInv(t)'
    <2>1. ASSUME Reading(t)
          PROVE  ToCome(lists[l], base[t][l], Range(got[t]) \cup Range(a.els), next)
      <3>1. ToCome(lists[l], base[t][l], Range(got[t]), r.at)
        BY <1>1, <1>2, <2>1 DEF ReadInv
      <3>2. s = lists[l] /\ s \in Seq(Entries)
        BY <1>8, <2>1 DEF Reading
      <3> HIDE DEF s, r, l
      <3>3. CASE Misreads
        BY <3>3 DEF ToCome
      <3>4. CASE at = r.at
        <4>1. ToCome(s, base[t][l], Range(got[t]), at)
          BY <3>1, <3>2, <3>4
        <4>2. next = NextPage(Len(s), at) \/ next \in 1 .. at
          BY <1>2, <3>4
        <4>3. ToCome(s, base[t][l], Range(got[t]) \cup Range(PageAt(s, at)), next)
          BY <3>2, <4>1, <4>2, PageToCome
        <4> QED BY <1>4, <3>2, <4>3
      <3> QED BY <1>2, <3>3, <3>4
    <2>2. Reading(t)' = Reading(t)
      BY <1>6 DEF Reading
    <2> HIDE DEF s, r, l
    <2> QED BY <1>1, <1>2, <1>3, <1>4, <1>6, <2>1, <2>2 DEF ReadInv, r, l
  <1> QED BY <1>6, <1>9, <1>10, OneCaller DEF CallInv

\* A line item is made, or a score is posted, at caller t's request.
LEMMA ServePostKeeps ==
  ASSUME CallsInv, NEW t \in Callers, ServeCreate(t) \/ ServeScore(t)
  PROVE  CallsInv' /\ StepOf(t)
  <1> DEFINE r == req[t]
  <1>1. AskedInv(t) /\ ReadInv(t) /\ GradeInv(t) /\ ScopeInv(t) /\ ListsInv /\ OwnInv
    BY DEF CallsInv, CallInv
  <1>2. pc[t] = "out" /\ Called(t)
    BY DEF ServeCreate, ServeScore, Answered, Called
  <1>3. r.do = (IF ServeCreate(t) THEN "create" ELSE "score")
    BY DEF ServeCreate, ServeScore, Creates, Scores
  <1>4. r \in Posts /\ ~Reading(t) /\ r.do # "get"
    BY <1>1, <1>2, <1>3 DEF AskedInv, Reading
  <1>5. PICK id : Answered(t, [ok |-> "posted", id |-> id]) /\ id \in Nat
                  /\ (ServeCreate(t) => id = Len(lists["lineitems"]) + 1)
    <2>1. Len(lists["lineitems"]) + 1 \in Nat
      BY <1>1 DEF ListsInv, Lists
    <2>2. r.do = "score" => r.of \in Nat
      BY <1>4 DEF Posts
    <2> QED BY <1>3, <2>1, <2>2 DEF ServeCreate, ServeScore
  <1> DEFINE a == [ok |-> "posted", id |-> id]
  <1>6. a.ok = "posted" /\ a.id = id /\ a # Refusal /\ a.ok # "page"
    BY DEF Refusal
  <1>7. /\ NetMoves(t) /\ pc'[t] = "back" /\ req'[t] = r /\ answer'[t] = a
        /\ UNCHANGED <<op, want, got, sets, item, base, late, granted>>
    BY <1>1, <1>5, AnsweredGives
  <1> HIDE DEF a
  <1>8. Moves(made, made', t) /\ (ServeScore(t) => made'[t] = made[t])
    <2>1. CASE ServeCreate(t)
      <3>1. DOMAIN made = Callers
        BY <1>1 DEF OwnInv
      <3>2. made' = [made EXCEPT ![t] = made[t] + 1]
        BY <2>1 DEF ServeCreate
      <3>3. ~ServeScore(t)
        BY <1>3, <2>1 DEF ServeScore, Scores
      <3> QED BY <3>1, <3>2, <3>3, UpdateMoves
    <2>2. CASE ServeScore(t)
      <3>1. made' = made
        BY <2>2 DEF ServeScore
      <3> QED BY <1>1, <3>1, SameMoves
    <2> QED BY <2>1, <2>2
  <1>9. OwnMoves(t)
    BY <1>1, <1>7, <1>8, SameMoves DEF OwnMoves
  <1>10. /\ GrownLists
         /\ r.do = "create" => Entry(id, r.of) \in Range(lists'["lineitems"])
         /\ r.do = "score" => Entry(t, r.of) \in Range(lists'["results"])
    <2>1. CASE ServeCreate(t)
      <3>1. Creates(r) /\ r.do = "create"
        BY <1>3, <2>1 DEF ServeCreate
      <3> HIDE DEF r
      <3> QED BY <1>1, <1>4, <1>5, <2>1, <3>1, PostGrows
    <2>2. CASE ServeScore(t)
      <3>1. Scores(t, r)
        BY <2>2 DEF ServeScore
      <3> HIDE DEF r
      <3> QED BY <1>1, <1>4, <3>1, PostGrows
    <2> QED BY <2>1, <2>2
  <1>11. StepOf(t)
    BY <1>1, <1>7, <1>9, <1>10, MovesOwn DEF StepOf, ListsInv
  <1>12. Called(t)' /\ ~Reading(t)'
    BY <1>4, <1>7 DEF Called, Reading
  <1>13. AskedInv(t)'
    BY <1>1, <1>2, <1>4, <1>5, <1>6, <1>7, <1>12 DEF AskedInv
  <1>14. ReadInv(t)'
    BY <1>7, <1>12 DEF ReadInv
  <1>15. GradeInv(t)'
    <2>1. SUFFICES ASSUME op[t] = "put"
                   PROVE  GradeInv(t)'
      BY <1>7 DEF GradeInv
    <2>2. r.do = "create" => Entry(id, want[t]) \in Range(lists'["lineitems"])
      BY <1>1, <1>2, <1>10, <2>1 DEF AskedInv
    <2>3. r.do = "score" => /\ r.of = item[t]
                            /\ Entry(item[t], want[t]) \in Range(lists'["lineitems"])
                            /\ Entry(t, item[t]) \in Range(lists'["results"])
      <3>1. Range(lists["lineitems"]) \subseteq Range(lists'["lineitems"])
        BY <1>1, <1>10, GrownFacts DEF Lists
      <3> QED BY <1>1, <1>2, <1>10, <2>1, <3>1 DEF GradeInv
    <2> QED BY <1>6, <1>7, <2>1, <2>2, <2>3 DEF GradeInv
  <1>16. ScopeInv(t)'
    <2>1. made'[t] # 0 => op[t] = "put"
      <3>1. CASE r.do = "create"
        BY <1>1, <1>2, <3>1 DEF AskedInv
      <3>2. CASE r.do # "create"
        BY <1>1, <1>2, <1>3, <1>8, <3>2 DEF ScopeInv
      <3> QED BY <3>1, <3>2
    <2> QED BY <1>1, <1>2, <1>4, <1>7, <1>12, <2>1 DEF ScopeInv, CanPut
  <1> QED BY <1>11, <1>13, <1>14, <1>15, <1>16, OneCaller DEF CallInv

-----------------------------------------------------------------------------
(* The rest of the world, and a connection that breaks.                      *)

LEMMA ReqKinds ==
  /\ \A r \in Gets : r.do = "get" /\ r # NoReq
  /\ \A r \in Posts : r.do \in {"create", "score"} /\ r # NoReq
  /\ \A r \in Strays : r.do = "strayed"
  /\ NoReq.do = "none"
  BY DEF Gets, Posts, Strays, NoReq

\* A POST that was given up arrives.
LEMMA Arrives ==
  ASSUME ListsInv, Straggle
  PROVE  \E t \in Callers, r \in Posts :
           /\ Creates(r) \/ Scores(t, r)
           /\ late' = (late \ {<<t, r>>}) \cup ({t} \X Trail(r))
  <1>h. PICK t \in Callers : \E r \in {p[2] : p \in {q \in late : q[1] = t}} :
          /\ Creates(r) \/ Scores(t, r)
          /\ late' = (late \ {<<t, r>>}) \cup ({t} \X Trail(r))
    BY DEF Straggle
  <1>1. PICK r \in {p[2] : p \in {q \in late : q[1] = t}} :
          /\ Creates(r) \/ Scores(t, r)
          /\ late' = (late \ {<<t, r>>}) \cup ({t} \X Trail(r))
    BY <1>h
  <1>2. r \in Posts \cup Strays
    BY DEF ListsInv
  <1>3. r.do \in {"create", "score"}
    BY <1>1 DEF Creates, Scores
  <1>4. r \in Posts
    BY <1>2, <1>3, ReqKinds
  <1> QED BY <1>1, <1>4

LEMMA WorldKeeps ==
  ASSUME CallsInv, Grow \/ Straggle \/ \E t \in Callers : Authorize(t) \/ Expire(t)
  PROVE  CallsInv' /\ GrownLists /\ \A v \in Callers : Untouched(v)
  <1>1. UNCHANGED <<granted, op, want, pc, req, tries, answer, got, sets, item, base, made>>
    BY DEF Grow, Straggle, Authorize, Expire
  <1>2. GrownLists
    <2>1. CASE Grow
      BY <2>1, GrowGrows DEF CallsInv
    <2>2. CASE Straggle
      <3>1. PICK t \in Callers, r \in Posts : Creates(r) \/ Scores(t, r)
        BY <2>2, Arrives DEF CallsInv
      <3> QED BY <3>1, PostGrows DEF CallsInv
    <2>3. CASE \E t \in Callers : Authorize(t) \/ Expire(t)
      BY <2>3, SameGrow DEF CallsInv, Authorize, Expire
    <2> QED BY <2>1, <2>2, <2>3
  <1>3. \A p \in late' : p[1] \in Callers /\ p[2] \in Posts \cup Strays
    <2>1. CASE late' = late
      BY <2>1 DEF CallsInv, ListsInv
    <2>2. CASE Straggle
      <3>1. PICK t \in Callers, r \in Posts :
              late' = (late \ {<<t, r>>}) \cup ({t} \X Trail(r))
        BY <2>2, Arrives DEF CallsInv
      <3>2. Len(lists.lineitems) + 1 \in Nat
        BY DEF CallsInv, ListsInv, Lists
      <3>3. Trail(r) \subseteq Strays
        BY <3>2 DEF Trail, Strayed, Strays
      <3> QED BY <3>1, <3>3 DEF CallsInv, ListsInv
    <2> QED BY <2>1, <2>2 DEF Grow, Authorize, Expire
  <1>4. \A t \in Callers : Untouched(t)
    BY <1>1 DEF Untouched
  <1>5. \A t \in Callers : CallInv(t)'
    BY <1>1, <1>2, <1>4, UntouchedKept DEF CallsInv
  <1>6. OwnInv'
    BY <1>1 DEF CallsInv, OwnInv
  <1> QED BY <1>2, <1>3, <1>4, <1>5, <1>6 DEF CallsInv, ListsInv, GrownLists

LEMMA ResendKeeps ==
  ASSUME CallsInv, NEW t \in Callers, Resend(t)
  PROVE  CallsInv' /\ StepOf(t)
  <1>1. ListsInv /\ OwnInv /\ AskedInv(t) /\ ReadInv(t) /\ GradeInv(t) /\ ScopeInv(t)
    BY DEF CallsInv, CallInv
  <1>2. /\ pc[t] \in {"out", "back"}
        /\ UNCHANGED <<granted, lists, late, op, want, req, got, sets, item, base, made>>
    BY DEF Resend
  <1>3. NetMoves(t) /\ pc'[t] = "out"
    <2>1. /\ DOMAIN pc = Callers /\ DOMAIN req = Callers /\ DOMAIN tries = Callers
          /\ DOMAIN answer = Callers
      BY <1>1 DEF OwnInv
    <2>2. /\ pc' = [pc EXCEPT ![t] = "out"] /\ req' = req
          /\ tries' = [tries EXCEPT ![t] = tries[t] - 1]
          /\ answer' = [answer EXCEPT ![t] = Refusal]
      BY DEF Resend
    <2>3. Moves(tries, tries', t) /\ Moves(answer, answer', t) /\ Moves(req, req', t)
      BY <2>1, <2>2, UpdateMoves
    <2>4. Moves(pc, pc', t) /\ pc'[t] = "out"
      BY <2>1, <2>2, UpdateMoves
    <2> QED BY <2>3, <2>4 DEF NetMoves
  <1>4. StepOf(t)
    BY <1>1, <1>2, <1>3, SameMoves, QuietStep
  <1>5. Called(t) /\ Called(t)' /\ Reading(t)' = Reading(t)
    BY <1>2, <1>3 DEF Called, Reading
  <1>6. AskedInv(t)' /\ ReadInv(t)' /\ GradeInv(t)' /\ ScopeInv(t)'
    <2>1. AskedInv(t)'
      BY <1>1, <1>2, <1>3, <1>5 DEF AskedInv
    <2>2. ReadInv(t)'
      BY <1>1, <1>2, <1>3, <1>5 DEF ReadInv
    <2>3. GradeInv(t)' /\ ScopeInv(t)'
      BY <1>1, <1>2, <1>3, <1>5 DEF GradeInv, ScopeInv, CanPut
    <2> QED BY <2>1, <2>2, <2>3
  <1> QED BY <1>4, <1>6, OneCaller DEF CallInv

LEMMA FailKeeps ==
  ASSUME CallsInv, NEW t \in Callers, Fail(t)
  PROVE  CallsInv' /\ StepOf(t)
  <1>1. ListsInv /\ OwnInv /\ AskedInv(t) /\ ScopeInv(t)
    BY DEF CallsInv, CallInv
  <1>2. /\ pc[t] \in {"out", "back"} /\ Throw(t, "failed")
        /\ UNCHANGED <<granted, lists, op, want, made>>
    BY DEF Fail
  <1>3. /\ NetMoves(t) /\ OwnMoves(t) /\ pc'[t] = "failed" /\ got'[t] = <<>> /\ sets'[t] = <<>>
    BY <1>1, <1>2, ThrowGives
  <1>4. \A p \in late' : p[1] \in Callers /\ p[2] \in Posts \cup Strays
    <2>1. req[t].do # "get" => req[t] \in Posts
      BY <1>1, <1>2 DEF AskedInv, Called
    <2> QED BY <1>1, <2>1 DEF Fail, ListsInv
  <1>5. StepOf(t)
    BY <1>1, <1>2, <1>3, <1>4, MovesOwn, SameGrow DEF StepOf
  <1>6. CallInv(t)'
    BY <1>1, <1>2, <1>3, OverKept
  <1> QED BY <1>5, <1>6, OneCaller

\* An error status, of the service or of the token's.
LEMMA RaiseKeeps ==
  ASSUME CallsInv, NEW t \in Callers, Raise(t) \/ Deny(t)
  PROVE  CallsInv' /\ StepOf(t)
  <1>1. ListsInv /\ OwnInv /\ ScopeInv(t)
    BY DEF CallsInv, CallInv
  <1>2. Throw(t, "refused") /\ UNCHANGED <<granted, lists, late, op, want, made>>
    BY DEF Raise, Deny
  <1>3. /\ NetMoves(t) /\ OwnMoves(t) /\ pc'[t] = "refused" /\ got'[t] = <<>> /\ sets'[t] = <<>>
    BY <1>1, <1>2, ThrowGives
  <1>4. CallInv(t)'
    BY <1>1, <1>2, <1>3, OverKept
  <1> QED BY <1>2, <1>3, <1>4, QuietStep, OneCaller

-----------------------------------------------------------------------------
(* A caller takes up an answer.                                              *)

\* What a caller that reads knows of the page in its hand.
LEMMA PageInHand ==
  ASSUME CallsInv, NEW t \in Callers, Page(t, {"roster", "lineitems", "sets"})
  PROVE  /\ Called(t) /\ Reading(t) /\ pc[t] = "back" /\ answer[t].ok = "page"
         /\ req[t] \in Gets /\ req[t].do = "get" /\ req[t].list \in Lists /\ answer[t].next \in Nat
         /\ WithPage(t) \in Seq(Entries)
         /\ Range(WithPage(t)) = Range(got[t]) \cup Range(answer[t].els)
         /\ ToCome(lists[req[t].list], base[t][req[t].list], Range(WithPage(t)), answer[t].next)
         /\ req[t].list = "sets" => \A e \in Range(WithPage(t)) : e.of = 0
         /\ made[t] = 0
  <1>1. AskedInv(t) /\ ReadInv(t) /\ ListsInv /\ ScopeInv(t)
    BY DEF CallsInv, CallInv
  <1>2. /\ Called(t) /\ Reading(t) /\ pc[t] = "back" /\ answer[t].ok = "page" /\ op[t] # "grades"
        /\ op[t] # "put"
    BY DEF Page, Called, Reading
  <1>3. /\ req[t].do = "get" /\ req[t] \in Gets /\ req[t].list \in Lists /\ answer[t].next \in Nat
        /\ answer[t].els \in Seq(Entries) /\ Range(answer[t].els) \subseteq Range(lists[req[t].list])
    <2>1. req[t].do = "get"
      BY <1>1, <1>2 DEF AskedInv, Reading
    <2> QED BY <1>1, <1>2, <2>1, AskedOf DEF AskedInv
  <1>4. got[t] \in Seq(Entries)
    BY <1>1, <1>2 DEF ReadInv
  <1>5. /\ WithPage(t) \in Seq(Entries)
        /\ Range(WithPage(t)) = Range(got[t]) \cup Range(answer[t].els)
    BY <1>3, <1>4, JoinedRange DEF WithPage
  <1>6. ToCome(lists[req[t].list], base[t][req[t].list],
               Range(got[t]) \cup Range(answer[t].els), answer[t].next)
    BY <1>1, <1>2 DEF ReadInv
  <1>7. req[t].list = "sets" => \A e \in Range(WithPage(t)) : e.of = 0
    BY <1>1, <1>2, <1>3, <1>5 DEF ReadInv, ListsInv
  <1>8. made[t] = 0
    BY <1>1, <1>2 DEF ScopeInv
  <1> QED BY <1>2, <1>3, <1>5, <1>6, <1>7, <1>8

LEMMA FollowingType ==
  ASSUME NEW r \in Gets, NEW at \in Nat
  PROVE  /\ Following(r, at) \in Gets /\ Following(r, at).do = "get"
         /\ Following(r, at).list = r.list /\ Following(r, at).at = at
  BY DEF Following, Gets

LEMMA TurnPageKeeps ==
  ASSUME CallsInv, NEW t \in Callers, TurnPage(t)
  PROVE  CallsInv' /\ StepOf(t)
  <1> DEFINE r == Following(req[t], answer[t].next)
             l == req[t].list
             read == WithPage(t)
  <1>1. ListsInv /\ OwnInv /\ AskedInv(t) /\ ReadInv(t)
    BY DEF CallsInv, CallInv
  <1>2. /\ Page(t, {"roster", "lineitems", "sets"}) /\ answer[t].next # 0
        /\ got' = [got EXCEPT ![t] = read] /\ Ask(t, r)
        /\ UNCHANGED <<granted, lists, late, op, want, sets, item, base, made>>
    BY DEF TurnPage
  <1>3. /\ Called(t) /\ Reading(t) /\ req[t] \in Gets /\ req[t].do = "get" /\ l \in Lists
        /\ answer[t].next \in Nat /\ read \in Seq(Entries) /\ made[t] = 0
        /\ ToCome(lists[l], base[t][l], Range(read), answer[t].next)
        /\ l = "sets" => \A e \in Range(read) : e.of = 0
    <2> HIDE DEF r
    <2> QED BY <1>2, PageInHand
  <1>4. /\ r \in Gets /\ r.do = "get" /\ r.list = l /\ r.at = answer[t].next /\ r.at > 0
    <2> DEFINE q == req[t]
               n == answer[t].next
    <2>1. q \in Gets /\ n \in Nat /\ n > 0
      BY <1>2, <1>3
    <2>2. r = Following(q, n) /\ l = q.list
      OBVIOUS
    <2> HIDE DEF q, n, r, l
    <2> QED BY <2>1, <2>2, FollowingType DEF n
  <1> HIDE DEF r, read
  <1>5. /\ NetMoves(t) /\ pc'[t] = "out" /\ req'[t] = r /\ Called(t)'
    BY <1>1, <1>2, AskGives
  <1>6. Moves(got, got', t) /\ got'[t] = read
    BY <1>1, <1>2, UpdateMoves DEF OwnInv
  <1>7. OwnMoves(t)
    BY <1>1, <1>2, <1>6, SameMoves DEF OwnMoves
  <1>8. StepOf(t)
    BY <1>2, <1>5, <1>7, QuietStep
  <1>9. AskedInv(t)'
    BY <1>1, <1>2, <1>3, <1>4, <1>5 DEF AskedInv, Reading
  <1>10. ReadInv(t)'
    <2>1. ToCome(lists'[l], base'[t][l], Range(got'[t]), req'[t].at)
      BY <1>2, <1>3, <1>4, <1>5, <1>6
    <2>2. Reading(t)'
      BY <1>2, <1>3 DEF Reading
    <2>a. /\ l = "sets" => ToCome(lists["groups"], base[t]["groups"], {}, 1)
          /\ l = "groups" => Has(base[t]["sets"], Range(sets[t]))
      BY <1>1, <1>3 DEF ReadInv
    <2> HIDE DEF l
    <2>3. req'[t].list = l
      BY <1>4, <1>5
    <2>4. l = "sets" => ToCome(lists'["groups"], base'[t]["groups"], {}, 1)
      BY <1>2, <2>a
    <2>5. l = "groups" => Has(base'[t]["sets"], Range(sets'[t]))
      BY <1>2, <2>a
    <2> QED BY <1>1, <1>2, <1>3, <1>5, <1>6, <2>1, <2>2, <2>3, <2>4, <2>5 DEF ReadInv
  <1>11. GradeInv(t)' /\ ScopeInv(t)'
    BY <1>2, <1>3 DEF GradeInv, ScopeInv, Reading
  <1> QED BY <1>8, <1>9, <1>10, <1>11, OneCaller DEF CallInv

\* What put_grade knows of the page in its hand.
LEMMA SearchInHand ==
  ASSUME CallsInv, NEW t \in Callers, Page(t, {"put"})
  PROVE  /\ Called(t) /\ ~Reading(t) /\ pc[t] = "back" /\ answer[t].ok = "page" /\ op[t] = "put"
         /\ req[t] \in Gets /\ req[t].do = "get" /\ req[t].list = "lineitems"
         /\ answer[t].next \in Nat /\ want[t] \in Tags /\ CanPut /\ made[t] = 0
         /\ FoundAt(t) # 0 =>
              LET e == answer[t].els[FoundAt(t)] IN
              e.id \in Nat /\ Entry(e.id, want[t]) \in Range(lists["lineitems"])
  <1>1. AskedInv(t) /\ ListsInv /\ ScopeInv(t)
    BY DEF CallsInv, CallInv
  <1>2. /\ Called(t) /\ ~Reading(t) /\ pc[t] = "back" /\ answer[t].ok = "page" /\ op[t] = "put"
    BY DEF Page, Called, Reading
  <1>3. answer[t] # Refusal /\ answer[t].ok # "posted"
    BY <1>2 DEF Refusal
  <1>4. /\ req[t] \in Gets /\ req[t].do = "get" /\ req[t].list = "lineitems"
        /\ answer[t].next \in Nat /\ want[t] \in Tags
        /\ answer[t].els \in Seq(Entries) /\ Range(answer[t].els) \subseteq Range(lists["lineitems"])
    <2>1. req[t].do = "get"
      BY <1>1, <1>2, <1>3 DEF AskedInv
    <2> QED BY <1>1, <1>2, <2>1 DEF AskedInv
  <1>5. CanPut /\ made[t] = 0
    BY <1>1, <1>2, <1>4 DEF ScopeInv
  <1>6. ASSUME FoundAt(t) # 0
        PROVE  LET e == answer[t].els[FoundAt(t)] IN
               e.id \in Nat /\ Entry(e.id, want[t]) \in Range(lists["lineitems"])
    <2> DEFINE els == answer[t].els
               I == {i \in 1 .. Len(els) : els[i].of = want[t]}
    <2>1. FoundAt(t) = IF I # {} THEN Min(I) ELSE 0
      BY DEF FoundAt, SelectInSeq
    <2>2. I # {} /\ FoundAt(t) = Min(I)
      BY <1>6, <2>1
    <2>3. I \subseteq Nat
      OBVIOUS
    <2> HIDE DEF I
    <2>4. \E m \in I : \A k \in I : m <= k
      BY <2>2, <2>3, Least
    <2>5. Min(I) \in I
      BY <2>4 DEF Min
    <2> DEFINE j == FoundAt(t)
               e == els[j]
    <2>a. j \in I
      BY <2>2, <2>5
    <2>b. els \in Seq(Entries)
      BY <1>4
    <2> HIDE DEF j, els
    <2>6. j \in DOMAIN els /\ e.of = want[t]
      BY <2>a, <2>b DEF I
    <2>7. e \in Entries /\ e \in Range(lists["lineitems"])
      <3>1. e \in Range(els)
        BY <2>6 DEF Range
      <3>2. Range(els) \subseteq Range(lists["lineitems"])
        BY <1>4 DEF els
      <3>3. e \in Entries
        BY <2>b, <2>6
      <3> QED BY <3>1, <3>2, <3>3
    <2>8. e.id \in Nat
      BY <1>1, <2>7 DEF ListsInv, Lists
    <2>9. e = Entry(e.id, want[t])
      BY <2>6, <2>7 DEF Entries, Entry
    <2> QED BY <2>7, <2>8, <2>9 DEF j, els
  <1> QED BY <1>2, <1>4, <1>5, <1>6

\* put_grade goes on with request r.
LEMMA PutGoesOn ==
  ASSUME CallsInv, NEW t \in Callers, op[t] = "put", want[t] \in Tags, CanPut,
         Called(t), NEW r, Ask(t, r),
         UNCHANGED <<granted, lists, late, op, want, got, sets, base, made>>,
         Moves(item, item', t),
         \/ r \in Gets /\ r.do = "get" /\ r.list = "lineitems" /\ r.at > 0 /\ made[t] = 0
         \/ r \in Posts /\ r.do = "create" /\ r.of = want[t]
         \/ /\ r \in Posts /\ r.do = "score" /\ r.of \in Nat /\ r.of = item'[t]
            /\ Entry(item'[t], want[t]) \in Range(lists["lineitems"])
  PROVE  CallsInv' /\ StepOf(t)
  <1>1. ListsInv /\ OwnInv /\ ScopeInv(t)
    BY DEF CallsInv, CallInv
  <1>2. /\ NetMoves(t) /\ pc'[t] = "out" /\ req'[t] = r /\ Called(t)'
    BY <1>1, AskGives
  <1>3. OwnMoves(t)
    BY <1>1, SameMoves DEF OwnMoves
  <1>4. StepOf(t)
    BY <1>2, <1>3, QuietStep
  <1>5. AskedInv(t)'
    BY <1>2 DEF AskedInv
  <1>6. ~Reading(t)' /\ ReadInv(t)'
    BY <1>2 DEF Reading, ReadInv
  <1>7. GradeInv(t)'
    BY <1>2 DEF GradeInv
  <1>8. ScopeInv(t)'
    BY <1>1, <1>2 DEF ScopeInv, CanPut
  <1> QED BY <1>4, <1>5, <1>6, <1>7, <1>8, OneCaller DEF CallInv

LEMMA PutKeeps ==
  ASSUME CallsInv, NEW t \in Callers, Found(t) \/ SearchOn(t) \/ CreateIt(t) \/ ScoreIt(t)
  PROVE  CallsInv' /\ StepOf(t)
  <1>0. OwnInv /\ AskedInv(t) /\ GradeInv(t) /\ ScopeInv(t)
    BY DEF CallsInv, CallInv
  <1>a. DOMAIN item = Callers
    BY <1>0 DEF OwnInv
  <1>1. CASE Found(t)
    <2> DEFINE i == answer[t].els[FoundAt(t)].id
    <2>1. /\ Page(t, {"put"}) /\ FoundAt(t) # 0
          /\ item' = [item EXCEPT ![t] = i] /\ Ask(t, Score(i))
          /\ UNCHANGED <<granted, lists, late, op, want, got, sets, base, made>>
      BY <1>1 DEF Found
    <2>2. /\ Called(t) /\ op[t] = "put" /\ want[t] \in Tags /\ CanPut
          /\ i \in Nat /\ Entry(i, want[t]) \in Range(lists["lineitems"])
      BY <2>1, SearchInHand
    <2> HIDE DEF i
    <2>3. Moves(item, item', t) /\ item'[t] = i
      BY <1>a, <2>1, UpdateMoves
    <2>4. Score(i) \in Posts /\ Score(i).do = "score" /\ Score(i).of = i
      BY <2>2, PostType
    <2> QED BY <2>1, <2>2, <2>3, <2>4, PutGoesOn
  <1>2. CASE SearchOn(t)
    <2> DEFINE r == Following(req[t], answer[t].next)
    <2>1. /\ Page(t, {"put"}) /\ answer[t].next # 0 /\ Ask(t, r)
          /\ UNCHANGED <<granted, lists, late, op, want, got, sets, item, base, made>>
      BY <1>2 DEF SearchOn
    <2>2. /\ Called(t) /\ op[t] = "put" /\ want[t] \in Tags /\ CanPut /\ made[t] = 0
          /\ req[t] \in Gets /\ req[t].list = "lineitems" /\ answer[t].next \in Nat
      BY <2>1, SearchInHand
    <2>3. r \in Gets /\ r.do = "get" /\ r.list = "lineitems" /\ r.at > 0
      BY <2>1, <2>2, FollowingType
    <2>4. Moves(item, item', t)
      BY <1>0, <2>1, SameMoves
    <2> HIDE DEF r
    <2> QED BY <2>1, <2>2, <2>3, <2>4, PutGoesOn
  <1>3. CASE CreateIt(t)
    <2>1. /\ Page(t, {"put"})
          /\ UNCHANGED <<granted, lists, late, op, want, made>>
      BY <1>3 DEF CreateIt
    <2>2. /\ Called(t) /\ op[t] = "put" /\ want[t] \in Tags /\ CanPut /\ made[t] = 0
      BY <2>1, SearchInHand
    <2>3. CASE Ask(t, Create(want[t])) /\ UNCHANGED <<got, sets, item, base>>
      <3>1. /\ Create(want[t]) \in Posts /\ Create(want[t]).do = "create"
            /\ Create(want[t]).of = want[t]
        BY <2>2, PostType
      <3>2. Moves(item, item', t)
        BY <1>0, <2>3, SameMoves
      <3> QED BY <2>1, <2>2, <2>3, <3>1, <3>2, PutGoesOn
    <2>4. CASE Throw(t, "forbidden")
      <3>1. /\ NetMoves(t) /\ OwnMoves(t) /\ pc'[t] = "forbidden"
            /\ got'[t] = <<>> /\ sets'[t] = <<>>
        BY <1>0, <2>1, <2>4, ThrowGives
      <3>2. CallInv(t)'
        BY <2>1, <2>2, <3>1, OverKept
      <3> QED BY <2>1, <3>1, <3>2, QuietStep, OneCaller
    <2> QED BY <1>3, <2>3, <2>4 DEF CreateIt
  <1>4. CASE ScoreIt(t)
    <2> DEFINE i == answer[t].id
    <2>1. /\ pc[t] = "back" /\ answer[t].ok = "posted" /\ req[t].do = "create"
          /\ item' = [item EXCEPT ![t] = i] /\ Ask(t, Score(i))
          /\ UNCHANGED <<granted, lists, late, op, want, got, sets, base, made>>
      BY <1>4 DEF ScoreIt
    <2>2. Called(t) /\ op[t] = "put" /\ want[t] \in Tags
      BY <1>0, <2>1 DEF Called, AskedInv
    <2>3. CanPut /\ Entry(i, want[t]) \in Range(lists["lineitems"])
      BY <1>0, <2>1, <2>2 DEF ScopeInv, GradeInv
    <2>4. i \in Nat
      BY <1>0, <2>1 DEF AskedInv, Refusal
    <2> HIDE DEF i
    <2>5. Moves(item, item', t) /\ item'[t] = i
      BY <1>a, <2>1, UpdateMoves
    <2>6. Score(i) \in Posts /\ Score(i).do = "score" /\ Score(i).of = i
      BY <2>4, PostType
    <2> QED BY <2>1, <2>2, <2>3, <2>4, <2>5, <2>6, PutGoesOn
  <1> QED BY <1>1, <1>2, <1>3, <1>4

LEMMA ScoredKeeps ==
  ASSUME CallsInv, NEW t \in Callers, Scored(t)
  PROVE  CallsInv' /\ StepOf(t)
  <1>1. OwnInv /\ AskedInv(t) /\ GradeInv(t) /\ ScopeInv(t)
    BY DEF CallsInv, CallInv
  <1>2. /\ pc[t] = "back" /\ answer[t].ok = "posted" /\ req[t].do = "score" /\ End(t, "done")
        /\ UNCHANGED <<granted, lists, late, op, want, got, sets, item, base, made>>
    BY DEF Scored
  <1>3. NetMoves(t) /\ pc'[t] = "done"
    BY <1>1, <1>2, EndGives
  <1>4. StepOf(t)
    BY <1>1, <1>2, <1>3, SameMoves, QuietStep
  <1>5. Called(t) /\ op[t] \in {"put", "puton"} /\ ~Called(t)' /\ ~Reading(t)'
    BY <1>1, <1>2, <1>3 DEF Called, Reading, AskedInv
  <1>6. GradeInv(t)'
    BY <1>1, <1>2, <1>3, <1>5 DEF GradeInv
  <1>7. AskedInv(t)' /\ ReadInv(t)'
    BY <1>2, <1>3, <1>5 DEF AskedInv, ReadInv
  <1>8. ScopeInv(t)'
    BY <1>1, <1>2, <1>3, <1>5 DEF ScopeInv, CanPut
  <1> QED BY <1>4, <1>6, <1>7, <1>8, OneCaller DEF CallInv

LEMMA ReadGroupsKeeps ==
  ASSUME CallsInv, NEW t \in Callers, ReadGroups(t)
  PROVE  CallsInv' /\ StepOf(t)
  <1> DEFINE read == WithPage(t)
  <1>1. ListsInv /\ OwnInv /\ AskedInv(t) /\ ReadInv(t)
    BY DEF CallsInv, CallInv
  <1>2. /\ Page(t, {"sets"}) /\ req[t].list = "sets" /\ answer[t].next = 0
        /\ sets' = [sets EXCEPT ![t] = read] /\ got' = [got EXCEPT ![t] = <<>>]
        /\ \/ sets'[t] # <<>> /\ Ask(t, Get("groups", 0))
           \/ sets'[t] = <<>> /\ End(t, "done")
        /\ UNCHANGED <<granted, lists, late, op, want, item, base, made>>
    BY DEF ReadGroups
  <1>3. Page(t, {"roster", "lineitems", "sets"}) /\ op[t] = "sets"
    BY <1>2 DEF Page
  <1>4. /\ Called(t) /\ Reading(t) /\ read \in Seq(Entries) /\ made[t] = 0
        /\ \A e \in Range(read) : e.of = 0
        /\ ToCome(lists["sets"], base[t]["sets"], Range(read), 0)
    BY <1>2, <1>3, PageInHand
  <1>5. Has(base[t]["sets"], Range(read))
    BY <1>4 DEF ToCome, Has
  <1>6. ToCome(lists["groups"], base[t]["groups"], {}, 1)
    BY <1>1, <1>2, <1>4 DEF ReadInv
  <1>7. <<>> \in Seq(Entries) /\ Range(<<>>) = {}
    BY DEF Range
  <1> HIDE DEF read
  <1>8. /\ Moves(got, got', t) /\ got'[t] = <<>>
        /\ Moves(sets, sets', t) /\ sets'[t] = read
    <2>1. DOMAIN got = Callers /\ DOMAIN sets = Callers
      BY <1>1 DEF OwnInv
    <2> QED BY <1>2, <2>1, UpdateMoves
  <1>9. OwnMoves(t)
    BY <1>1, <1>2, <1>8, SameMoves DEF OwnMoves
  <1>10. Reading(t)' /\ op'[t] = "sets"
    BY <1>2, <1>3 DEF Reading
  <1>11. GradeInv(t)' /\ ScopeInv(t)'
    BY <1>2, <1>4, <1>10 DEF GradeInv, ScopeInv
  <1>12. CASE read # <<>> /\ Ask(t, Get("groups", 0))
    <2> DEFINE r == Get("groups", 0)
    <2>1. r \in Gets /\ r.do = "get" /\ r.list = "groups" /\ r.at = 1
      BY GetType DEF Lists
    <2> HIDE DEF r
    <2>2. NetMoves(t) /\ pc'[t] = "out" /\ req'[t] = r /\ Called(t)'
      BY <1>1, <1>12, AskGives DEF r
    <2>3. AskedInv(t)'
      BY <1>10, <2>1, <2>2 DEF AskedInv
    <2>4. ToCome(lists'["groups"], base'[t]["groups"], Range(got'[t]), req'[t].at)
      BY <1>2, <1>6, <1>7, <1>8, <2>1, <2>2
    <2>5. ReadInv(t)'
      BY <1>2, <1>4, <1>5, <1>7, <1>8, <1>10, <2>1, <2>2, <2>4 DEF ReadInv
    <2>6. StepOf(t)
      BY <1>2, <1>9, <2>2, QuietStep
    <2> QED BY <1>11, <2>3, <2>5, <2>6, OneCaller DEF CallInv
  <1>13. CASE read = <<>> /\ End(t, "done")
    <2>1. NetMoves(t) /\ pc'[t] = "done" /\ ~Called(t)'
      BY <1>1, <1>13, EndGives DEF Called
    <2>2. AskedInv(t)'
      BY <2>1 DEF AskedInv
    <2>3. ReadInv(t)'
      BY <1>2, <1>4, <1>5, <1>7, <1>8, <1>10, <1>13, <2>1 DEF ReadInv
    <2>4. StepOf(t)
      BY <1>2, <1>9, <2>1, QuietStep
    <2> QED BY <1>11, <2>2, <2>3, <2>4, OneCaller DEF CallInv
  <1> QED BY <1>2, <1>8, <1>12, <1>13

LEMMA ReadEndsKeeps ==
  ASSUME CallsInv, NEW t \in Callers, ReadEnds(t)
  PROVE  CallsInv' /\ StepOf(t)
  <1> DEFINE read == WithPage(t)
             l == req[t].list
  <1>1. ListsInv /\ OwnInv /\ AskedInv(t) /\ ReadInv(t) /\ ScopeInv(t)
    BY DEF CallsInv, CallInv
  <1>2. /\ got' = [got EXCEPT ![t] = read] /\ End(t, "done")
        /\ UNCHANGED <<granted, lists, late, op, want, sets, item, base, made>>
    BY DEF ReadEnds
  <1>3. NetMoves(t) /\ pc'[t] = "done" /\ ~Called(t)'
    BY <1>1, <1>2, EndGives DEF Called
  <1> HIDE DEF read
  <1>4. Moves(got, got', t) /\ got'[t] = read
    BY <1>1, <1>2, UpdateMoves DEF OwnInv
  <1>5. OwnMoves(t)
    BY <1>1, <1>2, <1>4, SameMoves DEF OwnMoves
  <1>6. StepOf(t)
    BY <1>2, <1>3, <1>5, QuietStep
  <1>7. AskedInv(t)'
    BY <1>3 DEF AskedInv
  <1>8. op'[t] = op[t] /\ op[t] \in {"roster", "lineitems", "sets", "grades"} /\ pc[t] = "back"
    BY <1>2 DEF ReadEnds, Page
  <1>9. GradeInv(t)'
    BY <1>8 DEF GradeInv
  <1>10. ScopeInv(t)'
    BY <1>1, <1>2, <1>3, <1>8 DEF ScopeInv, Called
  <1>11. ReadInv(t)'
    <2>1. CASE op[t] = "grades"
      BY <1>3, <1>8, <2>1 DEF ReadInv, Reading
    <2>2. CASE op[t] # "grades"
      <3>1. Page(t, {"roster", "lineitems", "sets"}) /\ l # "sets" /\ answer[t].next = 0
        BY <2>2 DEF ReadEnds, Page
      <3>2. /\ Called(t) /\ Reading(t) /\ read \in Seq(Entries)
            /\ ToCome(lists[l], base[t][l], Range(read), 0)
        BY <3>1, PageInHand DEF read
      <3>3. Has(base[t][l], Range(read))
        BY <3>2 DEF ToCome, Has
      <3>4. /\ op[t] = "roster" => l = "members"
            /\ op[t] = "lineitems" => l = "lineitems"
            /\ op[t] = "sets" => l = "groups"
        BY <1>1, <3>1, <3>2 DEF AskedInv
      <3>5. /\ sets[t] \in Seq(Entries) /\ \A e \in Range(sets[t]) : e.of = 0
            /\ l = "groups" => Has(base[t]["sets"], Range(sets[t]))
        BY <1>1, <3>2 DEF ReadInv
      <3> HIDE DEF l
      <3> QED BY <1>2, <1>3, <1>4, <1>8, <3>2, <3>3, <3>4, <3>5 DEF ReadInv
    <2> QED BY <2>1, <2>2
  <1> QED BY <1>6, <1>7, <1>9, <1>10, <1>11, OneCaller DEF CallInv

(* The invariant always holds.                                               *)

LEMMA InitCalls ==
  ASSUME Init
  PROVE  CallsInv
  <1>1. lists = Course /\ late = {}
    BY DEF Init
  <1>2. \A l \in Lists : Range(Course[l]) = ToSet(Course[l])
    BY DEF Range, ToSet
  <1>3. ListsInv
    <2>1. "sets" \in Lists
      BY DEF Lists
    <2> QED BY <1>1, <1>2, <2>1, CourseHolds DEF ListsInv
  <1>4. OwnInv
    <2>1. /\ op = [t \in Callers |-> "roster"] /\ want = [t \in Callers |-> 0]
          /\ pc = [t \in Callers |-> "idle"]
          /\ req = [t \in Callers |-> NoReq] /\ tries = [t \in Callers |-> 0]
          /\ answer = [t \in Callers |-> Refusal]
      BY DEF Init
    <2>2. /\ got = [t \in Callers |-> <<>>] /\ sets = [t \in Callers |-> <<>>]
          /\ item = [t \in Callers |-> 0]
          /\ base = [t \in Callers |-> <<>>] /\ made = [t \in Callers |-> 0]
      BY DEF Init
    <2>3. /\ DOMAIN op = Callers /\ DOMAIN want = Callers /\ DOMAIN pc = Callers
          /\ DOMAIN req = Callers /\ DOMAIN tries = Callers /\ DOMAIN answer = Callers
      BY <2>1
    <2>4. /\ DOMAIN got = Callers /\ DOMAIN sets = Callers /\ DOMAIN item = Callers
          /\ DOMAIN base = Callers /\ DOMAIN made = Callers
      BY <2>2
    <2> QED BY <2>3, <2>4 DEF OwnInv
  <1>5. ASSUME NEW t \in Callers PROVE CallInv(t)
    <2>1. /\ op[t] = "roster" /\ pc[t] = "idle" /\ got[t] = <<>> /\ sets[t] = <<>> /\ made[t] = 0
      BY DEF Init
    <2>2. <<>> \in Seq(Entries) /\ Range(<<>>) = {}
      BY DEF Range
    <2>3. ~Called(t) /\ AskedInv(t)
      BY <2>1 DEF Called, AskedInv
    <2>4. ReadInv(t)
      BY <2>1, <2>2, <2>3 DEF ReadInv
    <2> QED BY <2>1, <2>3, <2>4 DEF CallInv, GradeInv, ScopeInv
  <1> QED BY <1>3, <1>4, <1>5 DEF CallsInv

LEMMA StutterKeeps ==
  ASSUME CallsInv, UNCHANGED vars
  PROVE  CallsInv'
  <1>1. UNCHANGED <<granted, lists, late, op, want, pc, req, tries, answer, got, sets, item,
                    base, made>>
    BY DEF vars
  <1>2. ListsInv' /\ OwnInv'
    BY <1>1 DEF CallsInv, ListsInv, OwnInv
  <1>3. ASSUME NEW t \in Callers PROVE CallInv(t)'
    <2>1. CallInv(t)
      BY DEF CallsInv
    <2>2. AskedInv(t)'
      BY <1>1, <2>1 DEF CallInv, AskedInv, Called
    <2>3. ReadInv(t)'
      BY <1>1, <2>1 DEF CallInv, ReadInv, Called, Reading
    <2>4. GradeInv(t)' /\ ScopeInv(t)'
      BY <1>1, <2>1 DEF CallInv, GradeInv, ScopeInv, Called, CanPut
    <2> QED BY <2>2, <2>3, <2>4 DEF CallInv
  <1> QED BY <1>2, <1>3 DEF CallsInv

LEMMA CallsAlways == Spec => []CallsInv
  <1>1. Init => CallsInv
    BY InitCalls
  <1>2. CallsInv /\ [Next]_vars => CallsInv'
    <2> SUFFICES ASSUME CallsInv, [Next]_vars PROVE CallsInv'
      OBVIOUS
    <2>1. CASE Grow \/ Straggle
      BY <2>1, WorldKeeps
    <2>2. ASSUME NEW t \in Callers, Call(t) PROVE CallsInv'
      BY <2>2, CallKeeps
    <2>3. ASSUME NEW t \in Callers, Serve(t) PROVE CallsInv'
      <3>1. CASE Authorize(t)
        BY <3>1, WorldKeeps
      <3>5. CASE Deny(t)
        BY <3>5, RaiseKeeps
      <3>2. CASE ServePage(t)
        BY <3>2, ServePageKeeps
      <3>3. CASE ServeCreate(t) \/ ServeScore(t)
        BY <3>3, ServePostKeeps
      <3>4. CASE Refuse(t)
        BY <3>4, RefuseKeeps
      <3> QED BY <2>3, <3>1, <3>2, <3>3, <3>4, <3>5 DEF Serve
    <2>4. ASSUME NEW t \in Callers, Receive(t) PROVE CallsInv'
      <3>1. CASE Raise(t)
        BY <3>1, RaiseKeeps
      <3>2. CASE TurnPage(t)
        BY <3>2, TurnPageKeeps
      <3>3. CASE ReadGroups(t)
        BY <3>3, ReadGroupsKeeps
      <3>4. CASE ReadEnds(t)
        BY <3>4, ReadEndsKeeps
      <3>5. CASE Found(t) \/ SearchOn(t) \/ CreateIt(t) \/ ScoreIt(t)
        BY <3>5, PutKeeps
      <3>6. CASE Scored(t)
        BY <3>6, ScoredKeeps
      <3> QED BY <2>4, <3>1, <3>2, <3>3, <3>4, <3>5, <3>6 DEF Receive
    <2>5. ASSUME NEW t \in Callers, Break(t) PROVE CallsInv'
      BY <2>5, ResendKeeps, FailKeeps DEF Break
    <2>6. ASSUME NEW t \in Callers, Expire(t) PROVE CallsInv'
      BY <2>6, WorldKeeps
    <2>7. CASE UNCHANGED vars
      BY <2>7, StutterKeeps
    <2> QED BY <2>1, <2>2, <2>3, <2>4, <2>5, <2>6, <2>7 DEF Next
  <1> QED BY <1>1, <1>2, PTL DEF Spec

(* The theorems.                                                             *)

\* The readers' promise: whatever a list held when get_members, get_lineitems or
\* get_sets began is in what the call returns, for any lists, page size and number of
\* retries, while every other caller and the platform itself add to the lists, and
\* wherever the links lead back; with a platform that takes a lower-cased address as its
\* own or not at all, not for another page.
THEOREM NothingMissed ==
  ASSUME ~Misreads
  PROVE  Spec => []ReadIsComplete
  <1>1. CallsInv => ReadIsComplete
    BY DEF CallsInv, CallInv, ReadInv, Has, ReadIsComplete
  <1> QED BY <1>1, CallsAlways, PTL

\* put_grade's promise: when it returns, a line item with the tag asked for is at the
\* platform and holds the score.
THEOREM ScoreLands == Spec => []GradeLandsRight
  <1>1. CallsInv => GradeLandsRight
    BY DEF CallsInv, CallInv, GradeInv, GradeLandsRight
  <1> QED BY <1>1, CallsAlways, PTL

\* find_or_create_lineitem's promise under put_grade: it makes no line item that the
\* launch's scopes do not let it score, and no call that was refused for its scopes has
\* made one.
THEOREM MadeToBeScored == Spec => []CreatedToBeScored
  <1>1. CallsInv => CreatedToBeScored
    <2> SUFFICES ASSUME CallsInv, NEW t \in Callers, made[t] = 1
                 PROVE  CanPut /\ pc[t] # "forbidden"
      BY DEF CreatedToBeScored
    <2>1. ScopeInv(t)
      BY DEF CallsInv, CallInv
    <2> QED BY <2>1 DEF ScopeInv
  <1> QED BY <1>1, CallsAlways, PTL

LEMMA Greatest ==
  ASSUME NEW n \in Nat, NEW I, I \subseteq 1 .. n, I # {}
  PROVE  \E m \in I : \A k \in I : k <= m
  <1> DEFINE D == {n - i : i \in I}
  <1>1. D \subseteq Nat /\ D # {}
    <2>1. \A i \in 1 .. n : n - i \in Nat
      OBVIOUS
    <2>2. \A i \in I : n - i \in Nat
      BY <2>1
    <2> QED BY <2>2
  <1> HIDE DEF D
  <1>2. PICK d \in D : \A k \in D : d <= k
    BY <1>1, Least
  <1>3. PICK m \in I : d = n - m
    BY DEF D
  <1>4. ASSUME NEW k \in I PROVE k <= m
    <2>1. d <= n - k
      BY <1>2 DEF D
    <2>2. k \in 1 .. n /\ m \in 1 .. n
      OBVIOUS
    <2> QED BY <1>3, <2>1, <2>2
  <1> QED BY <1>4

\* get_sets' promise: a group that was there when the call began is under its set, if
\* that was there too.  A set that moved pages may be listed twice, and then its groups
\* are under the later place.
THEOREM GroupsFollowSets ==
  ASSUME ~Misreads
  PROVE  Spec => []GroupsUnderTheirSets
  <1>1. CallsInv => GroupsUnderTheirSets
    <2> SUFFICES ASSUME CallsInv, NEW t \in Callers, pc[t] = "done", op[t] = "sets",
                        NEW g \in base[t]["groups"], NEW s \in base[t]["sets"], g.of = s.id
                 PROVE  \E i \in DOMAIN sets[t] : sets[t][i] = s /\ g \in GroupsOf(t, i)
      BY DEF GroupsUnderTheirSets
    <2> DEFINE all == sets[t]
               I == {i \in 1 .. Len(all) : all[i].id = s.id}
    <2>1. /\ all \in Seq(Entries) /\ \A e \in Range(all) : e.of = 0
          /\ s \in Range(all)
          /\ all # <<>> => g \in Range(got[t])
      BY DEF CallsInv, CallInv, ReadInv, Reading, Has
    <2> HIDE DEF all
    <2>2. PICK j \in DOMAIN all : all[j] = s
      BY <2>1 DEF Range
    <2>3. DOMAIN all = 1 .. Len(all) /\ Len(all) \in Nat
      BY <2>1
    <2>4. j \in I /\ I \subseteq 1 .. Len(all) /\ all # <<>>
      BY <2>2, <2>3
    <2>5. PICK i \in I : \A k \in I : k <= i
      <3> HIDE DEF I
      <3> QED BY <2>3, <2>4, Greatest
    <2>6. all[i] = s
      <3>1. i \in DOMAIN all /\ all[i].id = s.id
        BY <2>3
      <3>2. all[i] \in Entries /\ s \in Entries
        BY <2>1, <2>2, <3>1
      <3>3. all[i].of = 0 /\ s.of = 0
        BY <2>1, <3>1 DEF Range
      <3> QED BY <3>1, <3>2, <3>3 DEF Entries
    <2>7. ~ \E k \in i + 1 .. Len(all) : all[k].id = all[i].id
      <3> SUFFICES ASSUME NEW k \in i + 1 .. Len(all), all[k].id = all[i].id PROVE FALSE
        OBVIOUS
      <3>1. i \in 1 .. Len(all)
        BY <2>4
      <3>2. k \in I
        BY <2>3, <2>6, <3>1
      <3>3. k <= i
        BY <2>5, <3>2
      <3> QED BY <2>3, <3>1, <3>3
    <2>8. g \in GroupsOf(t, i)
      <3>1. GroupsOf(t, i) = {h \in Range(got[t]) : h.of = all[i].id}
        BY <2>7 DEF GroupsOf, all
      <3>2. g \in Range(got[t])
        BY <2>1, <2>4
      <3> QED BY <2>6, <3>1, <3>2
    <2>9. i \in DOMAIN all
      BY <2>3
    <2> QED BY <2>6, <2>8, <2>9 DEF all
  <1> QED BY <1>1, CallsAlways, PTL

-----------------------------------------------------------------------------
(* One line item each.  Every line item of a tag is put down to a caller of  *)
(* its own, one that will not make another: whatever call it is in sees a    *)
(* line item of the tag before it would.                                     *)

Tagged(s, tag) == {e \in Range(s) : e.of = tag}
Makers == {t \in Callers : "put" \in Ops[t]}

\* In "page", or in list s from "at" on, there is a line item of the tag.
Ahead(s, tag, page, at) == \E e \in Tagged(s, tag) : ToCome(s, {e}, page, at)

Sees(t, tag) ==
  Called(t) /\ op[t] = "put" /\ want[t] = tag =>
    /\ req[t].do = "get" =>
         /\ Ahead(lists["lineitems"], tag, {}, req[t].at)
         /\ pc[t] = "back" /\ answer[t].ok = "page" =>
              Ahead(lists["lineitems"], tag, Range(answer[t].els), answer[t].next)
    /\ req[t].do = "create" => pc[t] = "back"

\* The line items of the tag that no caller had given up.
Kept(tag) == {e \in Tagged(lists["lineitems"], tag) : ~Stray(e)}

\* They are put down to their makers.
Shared(tag) ==
  \E f \in [Kept(tag) -> Makers] :
    /\ \A d, e \in DOMAIN f : f[d] = f[e] => d = e
    /\ \A e \in DOMAIN f : Sees(f[e], tag)

\* Caller t may be in a call that makes line items.
Making(t) == Called(t) /\ op[t] = "put"

OnceInv ==
  /\ ~Misreads
  /\ \A t \in Callers : Making(t) => t \in Makers
  /\ \A tag \in Tags : Shared(tag)

\* No address is taken for another page, the callers are finitely many, and the course
\* begins without the tool's line items.
Alone ==
  /\ ~Misreads /\ IsFiniteSet(Callers)
  /\ \A e \in ToSet(Course["lineitems"]) : e.of \notin Tags

LEMMA AheadMoves ==
  ASSUME ListsInv, GrownLists, NEW tag, NEW page, NEW at \in Nat,
         Ahead(lists["lineitems"], tag, page, at)
  PROVE  Ahead(lists'["lineitems"], tag, page, at)
  <1> DEFINE L == lists["lineitems"]
             L2 == lists'["lineitems"]
  <1>1. /\ Range(L) \subseteq Range(L2)
        /\ \A b : ToCome(L, b, page, at) => ToCome(L2, b, page, at)
    BY GrownFacts DEF Lists
  <1> HIDE DEF L, L2
  <1>2. Ahead(L, tag, page, at)
    BY DEF L
  <1>3. Ahead(L2, tag, page, at)
    BY <1>1, <1>2 DEF Ahead, Tagged
  <1> QED BY <1>3 DEF L2

LEMMA SeesKept ==
  ASSUME ListsInv, GrownLists, NEW v \in Callers, AskedInv(v), Untouched(v), NEW tag, Sees(v, tag)
  PROVE  Sees(v, tag)'
  <1>1. /\ Called(v)' = Called(v) /\ op'[v] = op[v] /\ want'[v] = want[v] /\ req'[v] = req[v]
        /\ pc'[v] = pc[v] /\ answer'[v] = answer[v]
    BY DEF Untouched, Called
  <1>2. Called(v) /\ req[v].do = "get" => req[v].at \in Nat
    BY AskedOf
  <1>3. pc[v] = "back" /\ answer[v].ok = "page" => Called(v) /\ answer[v].next \in Nat
    BY DEF Called, AskedInv
  <1>4. ASSUME Called(v), op[v] = "put", want[v] = tag, req[v].do = "get"
        PROVE  /\ Ahead(lists'["lineitems"], tag, {}, req[v].at)
               /\ pc[v] = "back" /\ answer[v].ok = "page" =>
                    Ahead(lists'["lineitems"], tag, Range(answer[v].els), answer[v].next)
    BY <1>2, <1>3, <1>4, AheadMoves DEF Sees
  <1> QED BY <1>1, <1>4 DEF Sees

LEMMA SharedKept ==
  ASSUME NEW tag, Shared(tag), Kept(tag)' \subseteq Kept(tag),
         Tagged(lists["lineitems"], tag) # {} =>
           \A v \in Makers : Sees(v, tag) => Sees(v, tag)'
  PROVE  Shared(tag)'
  <1>1. PICK f \in [Kept(tag) -> Makers] :
               /\ \A d, e \in DOMAIN f : f[d] = f[e] => d = e
               /\ \A e \in DOMAIN f : Sees(f[e], tag)
    BY DEF Shared
  <1>h. PICK g : g = [e \in Kept(tag)' |-> f[e]]
    OBVIOUS
  <1>2. /\ g \in [Kept(tag)' -> Makers] /\ DOMAIN g = Kept(tag)'
        /\ \A e \in DOMAIN g : e \in DOMAIN f /\ g[e] = f[e]
    BY <1>1, <1>h
  <1>3. \A e \in DOMAIN g : Sees(g[e], tag)'
    <2> TAKE e \in DOMAIN g
    <2>1. g[e] \in Makers /\ e \in Kept(tag) /\ Sees(g[e], tag)
      BY <1>1, <1>2
    <2>2. Tagged(lists["lineitems"], tag) # {}
      BY <2>1 DEF Kept
    <2> QED BY <2>1, <2>2
  <1>4. Makers' = Makers
    BY DEF Makers
  <1>5. \A d, e \in DOMAIN g : g[d] = g[e] => d = e
    BY <1>1, <1>2
  <1> QED BY <1>2, <1>3, <1>4, <1>5 DEF Shared

\* A step of caller t that makes no line item of a tag.
LEMMA OnceStep ==
  ASSUME CallsInv, OnceInv, NEW t \in Callers, StepOf(t), late' = late,
         \A tag \in Tags : Tagged(lists'["lineitems"], tag) = Tagged(lists["lineitems"], tag),
         Making(t)' => t \in Makers,
         \A tag \in Tags : Tagged(lists["lineitems"], tag) # {} /\ Sees(t, tag) => Sees(t, tag)'
  PROVE  OnceInv'
  <1>1. ListsInv /\ GrownLists /\ \A v \in Callers : AskedInv(v)
    BY DEF CallsInv, CallInv, StepOf
  <1>2. \A v \in Callers \ {t} : Untouched(v)
    BY DEF StepOf
  <1>3. ASSUME NEW tag \in Tags PROVE Shared(tag)'
    <2>1. \A v \in Callers \ {t} : Sees(v, tag) => Sees(v, tag)'
      BY <1>1, <1>2, SeesKept
    <2>2. Shared(tag)
      BY DEF OnceInv
    <2>3. Tagged(lists["lineitems"], tag) # {} => \A v \in Makers : Sees(v, tag) => Sees(v, tag)'
      BY <2>1 DEF Makers
    <2>4. Kept(tag)' \subseteq Kept(tag)
      BY DEF Kept, Stray
    <2> QED BY <2>2, <2>3, <2>4, SharedKept
  <1>4. ASSUME NEW v \in Callers, Making(v)' PROVE v \in Makers
    <2>1. CASE v = t
      BY <1>4, <2>1
    <2>2. CASE v # t
      <3>1. Making(v)
        BY <1>2, <1>4, <2>2 DEF Untouched, Making, Called
      <3> QED BY <3>1 DEF OnceInv
    <2> QED BY <2>1, <2>2
  <1>5. Makers' = Makers
    BY DEF Makers
  <1> QED BY <1>3, <1>4, <1>5 DEF OnceInv

\* A step of caller t that leaves the platform's line items alone.
LEMMA OnceQuiet ==
  ASSUME CallsInv, OnceInv, NEW t \in Callers, StepOf(t), late' = late,
         lists'["lineitems"] = lists["lineitems"],
         \/ ~Making(t)'
         \/ /\ t \in Makers
            /\ \A tag \in Tags : Tagged(lists["lineitems"], tag) # {} /\ Sees(t, tag) => Sees(t, tag)'
  PROVE  OnceInv'
  <1>1. ~Making(t)' => \A tag \in Tags : Sees(t, tag)'
    BY DEF Making, Sees
  <1> QED BY <1>1, OnceStep

LEMMA CallOnce ==
  ASSUME CallsInv, OnceInv, NEW t \in Callers, Call(t)
  PROVE  OnceInv'
  <1>1. StepOf(t) /\ ListsInv /\ OwnInv
    BY CallKeeps DEF CallsInv
  <1>2. lists' = lists /\ late' = late
    BY DEF Call, GetMembers, GetLineItems, GetSets, GetGrades, PutGrade, PutGradeOn, NewService, Begin
  <1>3. CASE \E o, w, i, reads : Begin(t, o, w, i, reads) /\ o # "put"
    <2>1. op'[t] # "put"
      BY <1>1, <1>3, BeginGives
    <2> QED BY <1>1, <1>2, <2>1, OnceQuiet DEF Making
  <1>4. ASSUME NEW tag \in Tags, PutGrade(t, tag) PROVE OnceInv'
    <2>1. Begin(t, "put", tag, 0, {})
      BY <1>4 DEF PutGrade
    <2>2. t \in Makers
      BY <2>1 DEF Begin, Makers
    <2>3. CASE Ask(t, Get("lineitems", 0))
      <3>1. pc'[t] = "out" /\ req'[t] = Get("lineitems", 0)
        BY <1>1, <2>3, AskGives
      <3>2. req'[t].do = "get" /\ req'[t].at = 1
        BY <3>1 DEF Get
      <3>3. ASSUME NEW g \in Tags, Tagged(lists["lineitems"], g) # {} PROVE Sees(t, g)'
        <4>1. PICK e : e \in Tagged(lists["lineitems"], g)
          BY <3>3
        <4>2. PICK j \in DOMAIN lists["lineitems"] : lists["lineitems"][j] = e
          BY <4>1 DEF Tagged, Range
        <4>3. j >= 1
          BY <1>1 DEF ListsInv, Lists
        <4>4. ToCome(lists["lineitems"], {e}, {}, 1)
          BY <4>2, <4>3 DEF ToCome
        <4>5. Ahead(lists'["lineitems"], g, {}, req'[t].at)
          BY <1>2, <3>2, <4>1, <4>4 DEF Ahead
        <4> QED BY <3>1, <3>2, <4>5 DEF Sees
      <3> QED BY <1>1, <1>2, <2>2, <3>3, OnceQuiet
    <2>4. CASE End(t, "forbidden")
      <3>1. pc'[t] = "forbidden"
        BY <1>1, <2>4, EndGives
      <3> QED BY <1>1, <1>2, <3>1, OnceQuiet DEF Making, Called
    <2> QED BY <1>4, <2>3, <2>4 DEF PutGrade
  <1>5. CASE NewService(t)
    <2>1. /\ UNCHANGED <<op, want, pc, req, tries, answer, got, sets, item, base, made>>
      BY <1>5 DEF NewService
    <2>2. Untouched(t) /\ GrownLists /\ AskedInv(t) /\ Making(t)' = Making(t)
      BY <1>1, <2>1 DEF Untouched, StepOf, CallsInv, CallInv, Making, Called
    <2>3. \A tag \in Tags : Sees(t, tag) => Sees(t, tag)'
      BY <1>1, <2>2, SeesKept
    <2>4. Making(t) => t \in Makers
      BY DEF OnceInv
    <2> QED BY <1>1, <1>2, <2>2, <2>3, <2>4, OnceQuiet
  <1> QED BY <1>3, <1>4, <1>5 DEF Call, GetMembers, GetLineItems, GetSets, GetGrades, PutGradeOn

LEMMA PageOnce ==
  ASSUME CallsInv, OnceInv, NEW t \in Callers, ServePage(t)
  PROVE  OnceInv'
  <1> DEFINE r == req[t]
             s == Listing(r)
             L == lists["lineitems"]
  <1>1. StepOf(t) /\ ListsInv /\ OwnInv /\ AskedInv(t) /\ ~Misreads
    BY ServePageKeeps DEF CallsInv, CallInv, OnceInv
  <1>7. PICK at \in Nat \ {0}, next \in Nat :
          /\ Answered(t, [ok |-> "page", els |-> PageAt(Listing(req[t]), at), next |-> next])
          /\ Misreads \/ at = req[t].at
          /\ next = NextPage(Len(Listing(req[t])), at) \/ next \in 1 .. req[t].at
          /\ UNCHANGED <<lists, made>> /\ pc[t] = "out" /\ Called(t)
          /\ req[t].do = "get" /\ req[t] \in Gets /\ req[t].list \in Lists
          /\ req[t].at \in Nat \ {0} /\ Listing(req[t]) \in Seq(Entries)
          /\ op[t] # "grades" => Listing(req[t]) = lists[req[t].list]
    BY ServedPage
  <1>2. /\ Answered(t, [ok |-> "page", els |-> PageAt(s, at), next |-> next])
        /\ at = r.at /\ (next = NextPage(Len(s), at) \/ next \in 1 .. at)
        /\ lists' = lists /\ r.do = "get" /\ pc[t] = "out"
        /\ op[t] # "grades" => s = lists[r.list]
    BY <1>1, <1>7
  <1> DEFINE a == [ok |-> "page", els |-> PageAt(s, at), next |-> next]
  <1>3. Answered(t, a) /\ a.els = PageAt(s, at) /\ a.next = next
    BY <1>2
  <1> HIDE DEF a
  <1>4. /\ pc'[t] = "back" /\ req'[t] = r /\ answer'[t] = a /\ op' = op /\ want' = want /\ late' = late
    BY <1>1, <1>3, AnsweredGives
  <1>5. CASE Making(t)
    <2>1. Called(t) /\ op[t] = "put" /\ t \in Makers
      BY <1>5 DEF Making, OnceInv
    <2>2. r.list = "lineitems" /\ r.at \in Nat /\ r.at > 0
      BY <1>1, <1>2, <2>1, AskedOf DEF AskedInv
    <2>3. s = L /\ L \in Seq(Entries)
      BY <1>1, <1>2, <2>1, <2>2 DEF ListsInv, Lists
    <2>4. ASSUME NEW tag \in Tags, Sees(t, tag) PROVE Sees(t, tag)'
      <3>1. SUFFICES ASSUME want[t] = tag PROVE Sees(t, tag)'
        BY <1>4 DEF Sees
      <3>2. Ahead(L, tag, {}, r.at)
        BY <1>2, <2>1, <2>4, <3>1 DEF Sees
      <3>3. PICK e \in Tagged(L, tag) : ToCome(L, {e}, {}, r.at)
        BY <3>2 DEF Ahead
      <3>4. ToCome(L, {e}, {} \cup Range(PageAt(L, at)), next)
        <4> HIDE DEF L, r, s
        <4>1. ToCome(L, {e}, {}, at) /\ (next = NextPage(Len(L), at) \/ next \in 1 .. at)
          BY <1>2, <2>3, <3>3
        <4> QED BY <2>3, <4>1, PageToCome
      <3>5. Ahead(L, tag, Range(a.els), a.next)
        <4> HIDE DEF L, r, s
        <4>1. ToCome(L, {e}, Range(PageAt(L, at)), next)
          BY <3>4
        <4> QED BY <1>3, <2>3, <3>3, <4>1 DEF Ahead
      <3> QED BY <1>2, <1>4, <3>2, <3>5 DEF Sees
    <2> QED BY <1>1, <1>2, <1>4, <2>1, <2>4, OnceQuiet
  <1>6. CASE ~Making(t)
    <2>1. ~Making(t)'
      BY <1>2, <1>4, <1>6 DEF Making, Called
    <2> QED BY <1>1, <1>2, <1>4, <2>1, OnceQuiet
  <1> QED BY <1>5, <1>6

LEMMA AnswerOnce ==
  ASSUME CallsInv, OnceInv, NEW t \in Callers, Refuse(t) \/ ServeScore(t)
  PROVE  OnceInv'
  <1>1. StepOf(t) /\ ListsInv /\ OwnInv /\ AskedInv(t)
    BY RefuseKeeps, ServePostKeeps DEF CallsInv, CallInv
  <1>2. PICK a : /\ Answered(t, a) /\ a.ok # "page"
                 /\ Refuse(t) => lists' = lists
                 /\ ServeScore(t) => Scores(t, req[t])
    BY DEF Refuse, ServeScore, Refusal
  <1>3. /\ pc'[t] = "back" /\ req'[t] = req[t] /\ answer'[t] = a /\ op' = op /\ want' = want
        /\ late' = late /\ pc[t] = "out"
    BY <1>1, <1>2, AnsweredGives
  <1>4. lists'["lineitems"] = lists["lineitems"]
    BY <1>1, <1>2 DEF Scores, Adds, ListsInv, Lists
  <1>5. Making(t)' = Making(t)
    BY <1>3 DEF Making, Called
  <1>6. ASSUME NEW tag \in Tags, Sees(t, tag) PROVE Sees(t, tag)'
    BY <1>2, <1>3, <1>4, <1>6 DEF Sees, Called
  <1>7. Making(t) => t \in Makers
    BY DEF OnceInv
  <1> QED BY <1>1, <1>3, <1>4, <1>5, <1>6, <1>7, OnceQuiet

LEMMA AddsOne ==
  ASSUME ListsInv, NEW l \in Lists, NEW e \in Entries, Adds(l, e)
  PROVE  /\ Range(lists'[l]) = Range(lists[l]) \cup {e}
         /\ \A k \in Lists \ {l} : lists'[k] = lists[k]
  <1>1. PICK i \in 1 .. Len(lists[l]) + 1 : lists' = [lists EXCEPT ![l] = InsertAt(lists[l], i, e)]
    BY DEF Adds, ListsInv
  <1> DEFINE new == InsertAt(lists[l], i, e)
  <1>2. lists \in [Lists -> Seq(Entries)] /\ lists[l] \in Seq(Entries)
    BY DEF ListsInv
  <1>3. Range(new) = Range(lists[l]) \cup {e}
    BY <1>2, InsertMoves
  <1>4. lists' = [lists EXCEPT ![l] = new]
    BY <1>1
  <1> HIDE DEF new
  <1>5. lists'[l] = new /\ \A k \in Lists \ {l} : lists'[k] = lists[k]
    BY <1>2, <1>4
  <1> QED BY <1>3, <1>5

\* The line item is put down to the caller that asked for it.
LEMMA CreateOnce ==
  ASSUME CallsInv, OnceInv, NEW t \in Callers, ServeCreate(t)
  PROVE  OnceInv'
  <1> DEFINE L == lists["lineitems"]
             L2 == lists'["lineitems"]
  <1>1. StepOf(t) /\ ListsInv /\ GrownLists /\ OwnInv /\ \A v \in Callers : AskedInv(v)
    BY ServePostKeeps DEF CallsInv, CallInv, StepOf
  <1>2. PICK a : Answered(t, a) /\ a.ok # "page"
    BY DEF ServeCreate
  <1>3. /\ pc'[t] = "back" /\ req'[t] = req[t] /\ op' = op /\ want' = want /\ late' = late
        /\ pc[t] = "out" /\ answer'[t] = a
    BY <1>1, <1>2, AnsweredGives
  <1>4. req[t].do = "create" /\ Called(t)
    BY <1>3 DEF ServeCreate, Creates, Called
  <1>5. PICK mine \in Tags : op[t] = "put" /\ mine = want[t] /\ mine = req[t].of /\ t \in Makers
    <2>1. op[t] = "put" /\ req[t].of = want[t] /\ want[t] \in Tags
      BY <1>1, <1>4 DEF AskedInv
    <2> QED BY <1>4, <2>1 DEF OnceInv, Making
  <1> DEFINE new == Entry(Len(L) + 1, mine)
  <1>6. Adds("lineitems", new) /\ new \in Entries /\ new.of = mine /\ "lineitems" \in Lists
    <2>1. Len(L) + 1 \in Nat
      BY <1>1 DEF ListsInv, Lists
    <2> QED BY <1>5, <2>1 DEF ServeCreate, Creates, Entry, Entries, Belongs, Lists
  <1> HIDE DEF new
  <1>7. Range(L2) = Range(L) \cup {new}
    BY <1>1, <1>6, AddsOne
  <1> HIDE DEF L, L2
  <1>8. /\ Tagged(L2, mine) = Tagged(L, mine) \cup {new}
        /\ \A tag \in Tags \ {mine} : Tagged(L2, tag) = Tagged(L, tag)
    BY <1>6, <1>7 DEF Tagged
  <1>9. ASSUME NEW v \in Callers, NEW tag \in Tags, Sees(v, tag) PROVE Sees(v, tag)'
    <2>1. CASE v = t
      BY <1>3, <1>4, <2>1 DEF Sees
    <2>2. CASE v # t
      BY <1>1, <1>9, <2>2, SeesKept DEF StepOf
    <2> QED BY <2>1, <2>2
  <1>10. ASSUME NEW tag \in Tags \ {mine} PROVE Shared(tag)'
    <2>1. Shared(tag) /\ Kept(tag)' \subseteq Kept(tag)
      BY <1>3, <1>8 DEF OnceInv, L, L2, Kept, Stray
    <2>2. \A v \in Makers : Sees(v, tag) => Sees(v, tag)'
      BY <1>9 DEF Makers
    <2> QED BY <2>1, <2>2, SharedKept
  <1>11. Makers' = Makers
    BY DEF Makers
  <1>12. Shared(mine)
    BY <1>5 DEF OnceInv
  <1> DEFINE K == Kept(mine)
             K2 == Kept(mine)'
  <1>k. K2 \subseteq K \cup {new}
    BY <1>3, <1>8 DEF L, L2, Kept, Stray
  <1>13. PICK f \in [K -> Makers] :
                /\ \A d, e \in DOMAIN f : f[d] = f[e] => d = e
                /\ \A e \in DOMAIN f : Sees(f[e], mine)
    BY <1>12 DEF Shared
  <1> HIDE DEF K, K2
  <1>h. PICK f2 : f2 = [e \in K2 |-> IF e \in K THEN f[e] ELSE t]
    OBVIOUS
  <1>14. f2 \in [K2 -> Makers]
    BY <1>5, <1>13, <1>h
  <1>15. \A e \in K : f[e] # t
    BY <1>3, <1>4, <1>5, <1>13 DEF Sees
  <1>16. \A d, e \in DOMAIN f2 : f2[d] = f2[e] => d = e
    BY <1>k, <1>13, <1>15, <1>h
  <1>17. \A e \in DOMAIN f2 : Sees(f2[e], mine)'
    <2> TAKE e \in DOMAIN f2
    <2>1. CASE e \in K
      <3>1. f2[e] = f[e] /\ f[e] \in Callers /\ Sees(f[e], mine)
        BY <1>13, <1>h, <2>1 DEF Makers
      <3> QED BY <1>5, <1>9, <3>1
    <2>2. CASE e \notin K
      <3>1. f2[e] = t
        BY <1>h, <2>2
      <3>2. Sees(t, mine)'
        BY <1>3, <1>4 DEF Sees
      <3> QED BY <3>1, <3>2
    <2> QED BY <2>1, <2>2
  <1>18. \E h \in [Kept(mine)' -> Makers'] :
           /\ \A d, e \in DOMAIN h : h[d] = h[e] => d = e
           /\ \A e \in DOMAIN h : Sees(h[e], mine)'
    BY <1>11, <1>14, <1>16, <1>17 DEF K2
  <1>19. ASSUME NEW tag \in Tags PROVE Shared(tag)'
    <2>1. CASE tag = mine
      BY <1>18, <2>1 DEF Shared
    <2>2. CASE tag # mine
      BY <1>10, <2>2
    <2> QED BY <2>1, <2>2
  <1>20. ASSUME NEW v \in Callers, Making(v)' PROVE v \in Makers
    <2>1. CASE v # t
      <3>1. Making(v)
        BY <1>1, <1>20, <2>1 DEF StepOf, Untouched, Making, Called
      <3> QED BY <3>1 DEF OnceInv
    <2> QED BY <1>5, <2>1
  <1> QED BY <1>3, <1>11, <1>19, <1>20 DEF OnceInv

\* A call that ends, or is of another operation, makes nothing.
LEMMA OverOnce ==
  ASSUME CallsInv, OnceInv, NEW t \in Callers,
         Raise(t) \/ Deny(t) \/ Scored(t) \/ ReadEnds(t) \/ ReadGroups(t) \/ TurnPage(t)
  PROVE  OnceInv'
  <1>1. StepOf(t) /\ OwnInv
    BY RaiseKeeps, ScoredKeeps, ReadEndsKeeps, ReadGroupsKeeps, TurnPageKeeps DEF CallsInv
  <1>2. lists' = lists /\ late' = late /\ op' = op
    BY DEF Raise, Deny, Scored, ReadEnds, ReadGroups, TurnPage
  <1>3. CASE Raise(t) \/ Deny(t) \/ Scored(t) \/ ReadEnds(t)
    <2>1. PICK p \in Ended : End(t, p)
      BY <1>3 DEF Raise, Deny, Scored, ReadEnds, Throw, Ended
    <2>2. pc'[t] \in Ended
      BY <1>1, <2>1, EndGives
    <2> QED BY <1>1, <1>2, <2>2, OnceQuiet DEF Making, Called, Ended
  <1>4. CASE ReadGroups(t) \/ TurnPage(t)
    <2>1. op'[t] # "put"
      BY <1>2, <1>4 DEF ReadGroups, TurnPage, Page
    <2> QED BY <1>1, <1>2, <2>1, OnceQuiet DEF Making
  <1> QED BY <1>3, <1>4

\* A POST that is given up has made no line item yet.
LEMMA FailOnce ==
  ASSUME CallsInv, OnceInv, NEW t \in Callers, Fail(t)
  PROVE  OnceInv'
  <1>1. StepOf(t) /\ OwnInv /\ GrownLists /\ ListsInv /\ \A v \in Callers : AskedInv(v)
    BY FailKeeps DEF CallsInv, CallInv, StepOf
  <1>2. /\ lists' = lists
        /\ \/ late' = late
           \/ late' = late \cup {<<t, req[t]>>} /\ req[t].do # "get"
    BY DEF Fail
  <1>3. pc'[t] = "failed"
    BY <1>1, EndGives DEF Fail, Throw
  <1>4. \A e : Stray(e) => Stray(e)'
    BY <1>2 DEF Stray
  <1>5. ASSUME NEW tag \in Tags PROVE Shared(tag)'
    <2>1. Kept(tag)' \subseteq Kept(tag)
      BY <1>2, <1>4 DEF Kept
    <2>2. Sees(t, tag)'
      BY <1>3 DEF Sees, Called
    <2>3. ASSUME NEW v \in Makers, Sees(v, tag) PROVE Sees(v, tag)'
      BY <1>1, <2>2, <2>3, SeesKept DEF StepOf, Makers
    <2> QED BY <2>1, <2>3, SharedKept DEF OnceInv
  <1>6. ASSUME NEW v \in Callers, Making(v)' PROVE v \in Makers
    <2>1. v # t
      BY <1>3, <1>6 DEF Making, Called
    <2>2. Making(v)
      BY <1>1, <1>6, <2>1 DEF StepOf, Untouched, Making, Called
    <2> QED BY <2>2 DEF OnceInv
  <1>7. Makers' = Makers
    BY DEF Makers
  <1> QED BY <1>5, <1>6, <1>7 DEF OnceInv

LEMMA ResendOnce ==
  ASSUME CallsInv, OnceInv, NEW t \in Callers, Resend(t)
  PROVE  OnceInv'
  <1>1. StepOf(t) /\ OwnInv
    BY ResendKeeps DEF CallsInv
  <1>2. /\ UNCHANGED <<lists, late, op, want, req>> /\ pc[t] \in {"out", "back"} /\ Retried(t)
        /\ pc' = [pc EXCEPT ![t] = "out"]
    BY DEF Resend
  <1>3. pc'[t] = "out" /\ Called(t)
    BY <1>1, <1>2, UpdateMoves DEF OwnInv, Called
  <1>4. ASSUME NEW tag \in Tags, Sees(t, tag) PROVE Sees(t, tag)'
    <2>1. want[t] = tag /\ op[t] = "put" => req[t].do # "create"
      BY <1>2, <1>3, <1>4 DEF Sees, Retried
    <2> QED BY <1>2, <1>3, <1>4, <2>1 DEF Sees
  <1>5. Making(t)' => t \in Makers
    BY <1>2, <1>3 DEF Making, OnceInv
  <1> QED BY <1>1, <1>2, <1>4, <1>5, OnceQuiet

\* The search turns over no page that has the tag, and a caller that sees a line item
\* of the tag does not come to make one.
LEMMA NotThere ==
  ASSUME NEW t \in Callers, answer[t].els \in Seq(Entries), FoundAt(t) = 0
  PROVE  \A e \in Range(answer[t].els) : e.of # want[t]
  <1> DEFINE I == {i \in 1 .. Len(answer[t].els) : answer[t].els[i].of = want[t]}
  <1>1. FoundAt(t) = IF I # {} THEN Min(I) ELSE 0
    BY DEF FoundAt, SelectInSeq
  <1>2. I = {}
    <2>1. I \subseteq Nat /\ 0 \notin I
      OBVIOUS
    <2> HIDE DEF I
    <2>2. SUFFICES ASSUME I # {} PROVE FALSE
      OBVIOUS
    <2>3. \E m \in I : \A k \in I : m <= k
      BY <2>1, <2>2, Least
    <2>4. Min(I) \in I
      BY <2>3 DEF Min
    <2> QED BY <1>1, <2>1, <2>2, <2>4
  <1> QED BY <1>2 DEF Range

LEMMA PutOnce ==
  ASSUME CallsInv, OnceInv, NEW t \in Callers,
         Found(t) \/ SearchOn(t) \/ CreateIt(t) \/ ScoreIt(t)
  PROVE  OnceInv'
  <1> DEFINE L == lists["lineitems"]
  <1>1. StepOf(t) /\ OwnInv /\ AskedInv(t) /\ ListsInv
    BY PutKeeps DEF CallsInv, CallInv
  <1>2. UNCHANGED <<lists, late, op, want>>
    BY DEF Found, SearchOn, CreateIt, ScoreIt
  <1>3. pc[t] = "back" /\ Called(t)
    BY DEF Found, SearchOn, CreateIt, ScoreIt, Page, Called
  <1>4. Making(t)' => t \in Makers
    BY <1>2, <1>3 DEF Making, OnceInv
  <1>5. CASE Found(t) \/ ScoreIt(t)
    <2>1. PICK i : Ask(t, Score(i))
      BY <1>5 DEF Found, ScoreIt
    <2>2. req'[t].do = "score"
      BY <1>1, <2>1, AskGives DEF Score
    <2>3. \A tag \in Tags : Sees(t, tag)'
      BY <2>2 DEF Sees
    <2> QED BY <1>1, <1>2, <1>4, <2>3, OnceQuiet
  <1>6. CASE SearchOn(t) \/ CreateIt(t)
    <2>1. Page(t, {"put"}) /\ FoundAt(t) = 0
      BY <1>6 DEF SearchOn, CreateIt
    <2>2. /\ op[t] = "put" /\ answer[t].ok = "page" /\ req[t].do = "get" /\ req[t] \in Gets
          /\ answer[t].next \in Nat
      BY <2>1, SearchInHand
    <2>3. answer[t].els \in Seq(Entries)
      BY <1>1, <1>3, <2>2 DEF AskedInv
    <2>4. \A e \in Range(answer[t].els) : e.of # want[t]
      BY <2>1, <2>3, NotThere
    <2>5. ASSUME NEW tag \in Tags, want[t] = tag, Sees(t, tag)
          PROVE  answer[t].next # 0 /\ Ahead(L, tag, {}, answer[t].next)
      <3>1. Ahead(L, tag, Range(answer[t].els), answer[t].next)
        BY <1>3, <2>2, <2>5 DEF Sees
      <3>2. PICK e \in Tagged(L, tag) : ToCome(L, {e}, Range(answer[t].els), answer[t].next)
        BY <3>1 DEF Ahead
      <3>3. e \notin Range(answer[t].els)
        BY <2>4, <2>5 DEF Tagged
      <3>4. answer[t].next > 0 /\ ToCome(L, {e}, {}, answer[t].next)
        BY <3>2, <3>3 DEF ToCome, OnceInv
      <3> QED BY <2>2, <3>2, <3>4 DEF Ahead
    <2>6. CASE SearchOn(t)
      <3> DEFINE r == Following(req[t], answer[t].next)
      <3>1. Ask(t, r)
        BY <2>6 DEF SearchOn
      <3>2. r.at = answer[t].next /\ r.do = "get"
        BY <2>2, FollowingType
      <3> HIDE DEF r
      <3>3. pc'[t] = "out" /\ req'[t] = r
        BY <1>1, <3>1, AskGives
      <3>4. ASSUME NEW tag \in Tags, Sees(t, tag) PROVE Sees(t, tag)'
        <4>1. want[t] = tag => Ahead(lists'["lineitems"], tag, {}, req'[t].at)
          BY <1>2, <2>5, <3>2, <3>3, <3>4
        <4> QED BY <1>2, <3>2, <3>3, <4>1 DEF Sees
      <3> QED BY <1>1, <1>2, <1>4, <3>4, OnceQuiet
    <2>7. CASE CreateIt(t)
      <3>1. answer[t].next = 0
        BY <2>7 DEF CreateIt
      <3>2. ASSUME NEW tag \in Tags, Sees(t, tag) PROVE Sees(t, tag)'
        <4>1. want[t] # tag
          BY <2>5, <3>1, <3>2
        <4> QED BY <1>2, <4>1 DEF Sees
      <3> QED BY <1>1, <1>2, <1>4, <3>2, OnceQuiet
    <2> QED BY <1>6, <2>6, <2>7
  <1> QED BY <1>5, <1>6

\* What the platform adds of itself is no line item of the tool's.
LEMMA WorldOnce ==
  ASSUME CallsInv, OnceInv, Grow \/ \E t \in Callers : Authorize(t) \/ Expire(t)
  PROVE  OnceInv'
  <1>1. GrownLists /\ ListsInv /\ \A v \in Callers : Untouched(v) /\ AskedInv(v)
    BY WorldKeeps DEF CallsInv, CallInv
  <1>2. late' = late
    BY DEF Grow, Authorize, Expire
  <1>3. ASSUME NEW tag \in Tags
        PROVE  Tagged(lists'["lineitems"], tag) = Tagged(lists["lineitems"], tag)
    <2>1. CASE lists'["lineitems"] = lists["lineitems"]
      BY <2>1
    <2>2. CASE Grow
      <3>1. PICK l \in Growing, of \in Belongs, n \in Nat :
              /\ Adds(l, Entry(n, of))
              /\ l = "lineitems" => of = NoTag
        BY <1>1, <2>2, GrowAdds
      <3>2. l \in Lists /\ Entry(n, of) \in Entries /\ "lineitems" \in Lists
        BY <3>1, CourseOK DEF Entry, Entries, Lists
      <3>3. CASE l = "lineitems"
        <4>1. Range(lists'["lineitems"]) = Range(lists["lineitems"]) \cup {Entry(n, NoTag)}
          BY <1>1, <3>1, <3>2, <3>3, AddsOne
        <4>2. Entry(n, NoTag).of # tag
          BY CourseOK DEF Entry
        <4> QED BY <4>1, <4>2 DEF Tagged
      <3>4. CASE l # "lineitems"
        BY <1>1, <2>1, <3>1, <3>2, <3>4, AddsOne
      <3> QED BY <3>3, <3>4
    <2> QED BY <2>1, <2>2 DEF Authorize, Expire
  <1>4. ASSUME NEW tag \in Tags PROVE Shared(tag)'
    <2>1. \A v \in Makers : Sees(v, tag) => Sees(v, tag)'
      BY <1>1, SeesKept DEF Makers
    <2>2. Kept(tag)' \subseteq Kept(tag)
      BY <1>2, <1>3 DEF Kept, Stray
    <2> QED BY <2>1, <2>2, SharedKept DEF OnceInv
  <1>5. Makers' = Makers /\ \A v \in Callers : Making(v)' = Making(v)
    BY <1>1 DEF Makers, Making, Called, Untouched
  <1> QED BY <1>2, <1>4, <1>5 DEF OnceInv

\* A POST that arrives after its caller gave it up makes a line item that is not counted.
LEMMA StraggleOnce ==
  ASSUME CallsInv, OnceInv, Straggle
  PROVE  OnceInv'
  <1>1. GrownLists /\ ListsInv /\ \A v \in Callers : Untouched(v) /\ AskedInv(v)
    BY WorldKeeps DEF CallsInv, CallInv
  <1>2. PICK t \in Callers, r \in Posts :
          /\ Creates(r) \/ Scores(t, r)
          /\ late' = (late \ {<<t, r>>}) \cup ({t} \X Trail(r))
    BY <1>1, Arrives
  <1>4. ASSUME NEW e, Stray(e) PROVE Stray(e)'
    <2>1. PICK c \in Callers : <<c, Strayed(e.id)>> \in late
      BY <1>4 DEF Stray
    <2>2. Strayed(e.id) # r
      BY ReqKinds DEF Strayed
    <2>3. <<c, Strayed(e.id)>> \in late'
      BY <1>2, <2>1, <2>2
    <2> QED BY <2>3 DEF Stray
  <1> DEFINE L == lists["lineitems"]
             L2 == lists'["lineitems"]
  <1>5. ASSUME NEW e \in Range(L2), e \notin Range(L), e.of \in Tags PROVE Stray(e)'
    <2>1. CASE Creates(r)
      <3> DEFINE new == Entry(Len(L) + 1, r.of)
      <3>1. r.of \in Tags /\ r.do = "create" /\ Adds("lineitems", new)
        BY <2>1 DEF Posts, Creates
      <3>2. new \in Entries /\ "lineitems" \in Lists
        <4>1. Len(L) + 1 \in Nat
          BY <1>1 DEF ListsInv, Lists
        <4> QED BY <3>1, <4>1 DEF Entry, Entries, Belongs, Lists
      <3>3. Range(L2) = Range(L) \cup {new}
        BY <1>1, <3>1, <3>2, AddsOne
      <3>4. e.id = Len(L) + 1
        BY <1>5, <3>3 DEF Entry
      <3>5. <<t, Strayed(e.id)>> \in late'
        BY <1>2, <3>1, <3>4 DEF Trail
      <3> QED BY <3>5 DEF Stray
    <2>2. CASE Scores(t, r)
      <3>1. L2 = L
        BY <1>1, <2>2 DEF Scores, Adds, ListsInv, Lists
      <3> QED BY <1>5, <3>1
    <2> QED BY <1>2, <2>1, <2>2
  <1>6. ASSUME NEW tag \in Tags PROVE Shared(tag)'
    <2>1. Kept(tag)' \subseteq Kept(tag)
      BY <1>4, <1>5, <1>6 DEF Kept, Tagged
    <2>2. \A v \in Makers : Sees(v, tag) => Sees(v, tag)'
      BY <1>1, SeesKept DEF Makers
    <2> QED BY <2>1, <2>2, SharedKept DEF OnceInv
  <1>7. Makers' = Makers /\ \A v \in Callers : Making(v)' = Making(v)
    BY <1>1 DEF Makers, Making, Called, Untouched
  <1> QED BY <1>6, <1>7 DEF OnceInv

\* When the course begins without line items of the tool and the platform takes no address
\* for another page, put_grade makes at most one line item of a tag for each caller that
\* uses it, after whatever failures and however often it is called again, besides those of
\* POSTs that arrive after their callers gave them up: a line item that is there is seen by
\* every search that begins later, through lists that move.
THEOREM OnePerCaller ==
  ASSUME Alone
  PROVE  Spec => []OneLineItemPerCaller
  <1>1. Init => OnceInv
    <2> SUFFICES ASSUME Init PROVE OnceInv
      OBVIOUS
    <2>1. lists = Course /\ \A t \in Callers : ~Making(t)
      BY DEF Init, Making, Called
    <2>2. ASSUME NEW tag \in Tags PROVE Shared(tag)
      <3>1. Kept(tag) = {}
        BY <2>1 DEF Alone, Kept, Tagged, Range, ToSet
      <3>2. PICK f : f = [e \in {} |-> e]
        OBVIOUS
      <3>3. f \in [{} -> Makers] /\ DOMAIN f = {}
        BY <3>2
      <3> QED BY <3>1, <3>3 DEF Shared
    <2> QED BY <2>1, <2>2 DEF OnceInv, Alone
  <1>2. CallsInv /\ OnceInv /\ [Next]_vars => OnceInv'
    <2> SUFFICES ASSUME CallsInv, OnceInv, [Next]_vars PROVE OnceInv'
      OBVIOUS
    <2>1. CASE Grow
      BY <2>1, WorldOnce
    <2>2. CASE Straggle
      BY <2>2, StraggleOnce
    <2>3. ASSUME NEW t \in Callers, Call(t) PROVE OnceInv'
      BY <2>3, CallOnce
    <2>4. ASSUME NEW t \in Callers, Serve(t) PROVE OnceInv'
      <3>1. CASE Authorize(t)
        BY <3>1, WorldOnce
      <3>2. CASE ServePage(t)
        BY <3>2, PageOnce
      <3>3. CASE ServeCreate(t)
        BY <3>3, CreateOnce
      <3>4. CASE ServeScore(t) \/ Refuse(t)
        BY <3>4, AnswerOnce
      <3>5. CASE Deny(t)
        BY <3>5, OverOnce
      <3> QED BY <2>4, <3>1, <3>2, <3>3, <3>4, <3>5 DEF Serve
    <2>5. ASSUME NEW t \in Callers, Receive(t) PROVE OnceInv'
      <3>1. CASE Raise(t) \/ TurnPage(t) \/ ReadGroups(t) \/ ReadEnds(t) \/ Scored(t)
        BY <3>1, OverOnce
      <3>2. CASE Found(t) \/ SearchOn(t) \/ CreateIt(t) \/ ScoreIt(t)
        BY <3>2, PutOnce
      <3> QED BY <2>5, <3>1, <3>2 DEF Receive
    <2>6. ASSUME NEW t \in Callers, Break(t) PROVE OnceInv'
      <3>1. CASE Resend(t)
        BY <3>1, ResendOnce
      <3>2. CASE Fail(t)
        BY <3>2, FailOnce
      <3> QED BY <2>6, <3>1, <3>2 DEF Break
    <2>7. ASSUME NEW t \in Callers, Expire(t) PROVE OnceInv'
      BY <2>7, WorldOnce
    <2>8. CASE UNCHANGED vars
      <3>1. ListsInv /\ GrownLists /\ \A v \in Callers : AskedInv(v) /\ Untouched(v)
        BY <2>8, SameGrow DEF CallsInv, CallInv, vars, Untouched
      <3>2. \A v \in Callers : Making(v)' = Making(v)
        BY <3>1 DEF Making, Called, Untouched
      <3>3. Makers' = Makers /\ \A tag : Kept(tag)' \subseteq Kept(tag)
        BY <2>8 DEF vars, Makers, Kept, Stray
      <3>4. ASSUME NEW tag \in Tags PROVE Shared(tag)'
        <4>1. \A v \in Makers : Sees(v, tag) => Sees(v, tag)'
          BY <3>1, SeesKept DEF Makers
        <4> QED BY <3>3, <4>1, SharedKept DEF OnceInv
      <3> QED BY <3>2, <3>3, <3>4 DEF OnceInv
    <2> QED BY <2>1, <2>2, <2>3, <2>4, <2>5, <2>6, <2>7, <2>8 DEF Next
  <1>3. OnceInv => OneLineItemPerCaller
    <2> SUFFICES ASSUME OnceInv, NEW tag \in Tags
                 PROVE  Cardinality(Kept(tag)) <= Cardinality(Makers)
      <3>1. \A g \in Tags : Kept(g) = {e \in Range(lists.lineitems) : e.of = g /\ ~Stray(e)}
        BY DEF Kept, Tagged
      <3> QED BY <3>1 DEF OneLineItemPerCaller, Makers
    <2> DEFINE S == Kept(tag)
    <2>1. PICK f \in [S -> Makers] : \A d, e \in DOMAIN f : f[d] = f[e] => d = e
      BY DEF OnceInv, Shared
    <2> HIDE DEF S
    <2>2. f \in Injection(S, Makers)
      BY <2>1 DEF Injection, IsInjective
    <2>3. IsFiniteSet(Makers)
      <3>1. Makers \subseteq Callers
        BY DEF Makers
      <3> QED BY <3>1, FS_Subset DEF Alone
    <2> QED BY <2>2, <2>3, FS_Injection DEF S
  <1> QED BY <1>1, <1>2, <1>3, CallsAlways, PTL DEF Spec

-----------------------------------------------------------------------------
(* Types.                                                                    *)

NetOK ==
  /\ pc \in [Callers -> Phases]
  /\ req \in [Callers -> Gets \cup Posts \cup {NoReq}] /\ tries \in [Callers -> 0 .. Retries]
  /\ answer \in [Callers -> Answers]
  /\ \A t \in Callers : Called(t) <=> req[t] # NoReq

OwnOK ==
  /\ op \in [Callers -> AllOps] /\ want \in [Callers -> Tags \cup Nat]
  /\ got \in [Callers -> Seq(Entries)] /\ sets \in [Callers -> Seq(Entries)]
  /\ item \in [Callers -> Nat] /\ made \in [Callers -> 0 .. 1]

\* The platform numbers its line items from 1, a score is for one that has a number, and
\* a call that is still to make a line item has made none.
Numbered ==
  /\ \A e \in Range(lists["lineitems"]) : e.id # 0
  /\ \A t \in Callers : Called(t) /\ op[t] = "puton" => item[t] # 0
  /\ \A t \in Callers : pc[t] = "out" /\ req[t].do = "create" => made[t] = 0

WorldOK ==
  /\ granted \in ScopeChoices /\ late \subseteq Callers \X (Posts \cup Strays)
  /\ token \in [Callers -> {"none", "live", "expired"}]

TypesInv == NetOK /\ OwnOK /\ WorldOK /\ Numbered

LEMMA AnswerKinds ==
  /\ Refusal \in Answers
  /\ \A a \in Answers : a.ok = "page" => a.els \in Seq(Entries)
  /\ \A a \in Answers : a.ok = "posted" => a.id \in Nat
  /\ \A els \in Seq(Entries), n \in Nat : [ok |-> "page", els |-> els, next |-> n] \in Answers
  /\ \A i \in Nat : [ok |-> "posted", id |-> i] \in Answers
  BY DEF Refusal, Answers

LEMMA UpdateTypes ==
  ASSUME NEW S, NEW f \in [Callers -> S], NEW t \in Callers, NEW x \in S
  PROVE  /\ [f EXCEPT ![t] = x] \in [Callers -> S] /\ [f EXCEPT ![t] = x][t] = x
         /\ \A v \in Callers \ {t} : [f EXCEPT ![t] = x][v] = f[v]
  OBVIOUS

LEMMA AskTypes ==
  ASSUME NetOK, NEW t \in Callers, NEW r \in Gets \cup Posts, Ask(t, r)
  PROVE  NetOK'
  <1>1. Refusal \in Answers /\ r # NoReq /\ "out" \in Phases /\ Retries \in 0 .. Retries
    BY ReqKinds, AnswerKinds, CourseOK DEF Phases
  <1>2. /\ pc' \in [Callers -> Phases] /\ pc'[t] = "out"
        /\ \A v \in Callers \ {t} : pc'[v] = pc[v]
    BY <1>1, UpdateTypes DEF NetOK, Ask
  <1>3. /\ req' \in [Callers -> Gets \cup Posts \cup {NoReq}] /\ req'[t] = r
        /\ \A v \in Callers \ {t} : req'[v] = req[v]
    BY UpdateTypes DEF NetOK, Ask
  <1>4. tries' \in [Callers -> 0 .. Retries] /\ answer' \in [Callers -> Answers]
    BY <1>1, UpdateTypes DEF NetOK, Ask
  <1> QED BY <1>1, <1>2, <1>3, <1>4 DEF NetOK, Called

LEMMA EndTypes ==
  ASSUME NetOK, NEW t \in Callers, NEW p \in Ended, End(t, p)
  PROVE  NetOK'
  <1>1. Refusal \in Answers /\ p \in Phases /\ p \notin {"out", "back"} /\ 0 \in 0 .. Retries
    BY AnswerKinds, CourseOK DEF Phases, Ended
  <1>2. /\ pc' \in [Callers -> Phases] /\ pc'[t] = p
        /\ \A v \in Callers \ {t} : pc'[v] = pc[v]
    BY <1>1, UpdateTypes DEF NetOK, End
  <1>3. /\ req' \in [Callers -> Gets \cup Posts \cup {NoReq}] /\ req'[t] = NoReq
        /\ \A v \in Callers \ {t} : req'[v] = req[v]
    BY UpdateTypes DEF NetOK, End
  <1>4. tries' \in [Callers -> 0 .. Retries] /\ answer' \in [Callers -> Answers]
    BY <1>1, UpdateTypes DEF NetOK, End
  <1> QED BY <1>1, <1>2, <1>3, <1>4 DEF NetOK, Called

LEMMA ThrowTypes ==
  ASSUME NetOK, OwnOK, NEW t \in Callers, NEW p \in Ended, Throw(t, p), UNCHANGED <<op, want, made>>
  PROVE  NetOK' /\ OwnOK'
  <1>1. End(t, p) /\ <<>> \in Seq(Entries) /\ 0 \in Nat
    BY DEF Throw
  <1>2. /\ got' \in [Callers -> Seq(Entries)] /\ sets' \in [Callers -> Seq(Entries)]
        /\ item' \in [Callers -> Nat]
    BY <1>1, UpdateTypes DEF OwnOK, Throw
  <1> QED BY <1>1, <1>2, EndTypes DEF OwnOK

LEMMA BeginTypes ==
  ASSUME OwnOK, NEW t \in Callers, NEW o \in AllOps, NEW w \in Tags \cup Nat, NEW i \in Nat,
         NEW reads, Begin(t, o, w, i, reads)
  PROVE  OwnOK'
  <1>1. <<>> \in Seq(Entries) /\ 0 \in 0 .. 1
    OBVIOUS
  <1>2. op' \in [Callers -> AllOps] /\ want' \in [Callers -> Tags \cup Nat]
    BY UpdateTypes DEF OwnOK, Begin
  <1>3. /\ got' \in [Callers -> Seq(Entries)] /\ sets' \in [Callers -> Seq(Entries)]
        /\ item' \in [Callers -> Nat] /\ made' \in [Callers -> 0 .. 1]
    BY <1>1, UpdateTypes DEF OwnOK, Begin
  <1> QED BY <1>2, <1>3 DEF OwnOK

LEMMA AnsweredTypes ==
  ASSUME NetOK, NEW t \in Callers, NEW a \in Answers, Answered(t, a)
  PROVE  NetOK'
  <1>1. "back" \in Phases /\ UNCHANGED <<req, tries>> /\ pc[t] = "out"
    BY DEF Phases, Answered
  <1>2. /\ pc' \in [Callers -> Phases] /\ pc'[t] = "back"
        /\ \A v \in Callers \ {t} : pc'[v] = pc[v]
    BY <1>1, UpdateTypes DEF NetOK, Answered
  <1>3. answer' \in [Callers -> Answers]
    BY UpdateTypes DEF NetOK, Answered
  <1> QED BY <1>1, <1>2, <1>3 DEF NetOK, Called

LEMMA LineItemsOnly ==
  ASSUME ListsInv, NEW l \in Lists, NEW e \in Entries, Adds(l, e), l = "lineitems" => e.id # 0,
         \A x \in Range(lists["lineitems"]) : x.id # 0
  PROVE  \A x \in Range(lists'["lineitems"]) : x.id # 0
  <1>1. /\ Range(lists'[l]) = Range(lists[l]) \cup {e}
        /\ \A k \in Lists \ {l} : lists'[k] = lists[k]
    BY AddsOne
  <1>2. CASE l = "lineitems"
    BY <1>1, <1>2
  <1>3. CASE l # "lineitems"
    <2>1. lists'["lineitems"] = lists["lineitems"]
      BY <1>1, <1>3 DEF Lists
    <2> QED BY <2>1
  <1> QED BY <1>2, <1>3

LEMMA PostNumbers ==
  ASSUME ListsInv, NEW t \in Callers, NEW r \in Posts, Creates(r) \/ Scores(t, r),
         \A x \in Range(lists["lineitems"]) : x.id # 0
  PROVE  \A x \in Range(lists'["lineitems"]) : x.id # 0
  <1>1. /\ Len(lists["lineitems"]) + 1 \in Nat \ {0} /\ "lineitems" \in Lists
        /\ "results" \in Lists
    BY DEF ListsInv, Lists
  <1>2. CASE Creates(r)
    <2>1. r.of \in Tags /\ Adds("lineitems", Entry(Len(lists["lineitems"]) + 1, r.of))
      BY <1>2 DEF Creates, Posts
    <2>2. /\ Entry(Len(lists["lineitems"]) + 1, r.of) \in Entries
          /\ Entry(Len(lists["lineitems"]) + 1, r.of).id # 0
      BY <1>1, <2>1 DEF Entry, Entries, Belongs
    <2> QED BY <1>1, <2>1, <2>2, LineItemsOnly
  <1>3. CASE Scores(t, r)
    <2>1. r.of \in Nat
      BY <1>3 DEF Scores, Posts
    <2>2. Entry(t, r.of) \in Entries
      BY <2>1 DEF Entry, Entries, Belongs
    <2>3. lists' = lists \/ Adds("results", Entry(t, r.of))
      BY <1>3 DEF Scores
    <2> QED BY <1>1, <2>2, <2>3, LineItemsOnly
  <1> QED BY <1>2, <1>3

\* Where the step gives the line items their numbers and leaves the other callers alone,
\* caller t's own part is what is left.
LEMMA NumbersKept ==
  ASSUME Numbered, \A e \in Range(lists'["lineitems"]) : e.id # 0, NEW t \in Callers,
         \A v \in Callers \ {t} : Untouched(v),
         Called(t)' /\ op'[t] = "puton" => item'[t] # 0,
         pc'[t] = "out" /\ req'[t].do = "create" => made'[t] = 0
  PROVE  Numbered'
  BY DEF Numbered, Untouched, Called

LEMMA InitTypes ==
  ASSUME Init
  PROVE  TypesInv
  <1>1. /\ "idle" \in Phases /\ "roster" \in AllOps /\ 0 \in 0 .. Retries /\ 0 \in 0 .. 1
        /\ <<>> \in Seq(Entries) /\ Refusal \in Answers
    BY AnswerKinds, CourseOK DEF Phases, Ended, AllOps
  <1>2. NetOK
    BY <1>1 DEF Init, NetOK, Called
  <1>3. OwnOK
    BY <1>1 DEF Init, OwnOK
  <1>4. WorldOK
    BY DEF Init, WorldOK
  <1>5. Numbered
    <2>1. \A e \in Range(lists["lineitems"]) : e.id # 0
      BY CourseHolds DEF Init, Range, ToSet
    <2> QED BY <2>1 DEF Init, Numbered, Called
  <1> QED BY <1>2, <1>3, <1>4, <1>5 DEF TypesInv

LEMMA AskedKept ==
  ASSUME TypesInv, CallsInv, NEW t \in Callers, StepOf(t), OwnOK',
         UNCHANGED <<granted, lists, late, token>>, NEW r \in Gets \cup Posts, Ask(t, r),
         op'[t] = "puton" => item'[t] # 0, r.do = "create" => made'[t] = 0
  PROVE  TypesInv'
  <1>1. NetOK' /\ WorldOK'
    BY AskTypes DEF TypesInv, WorldOK
  <1>2. OwnInv /\ \A v \in Callers \ {t} : Untouched(v)
    BY DEF CallsInv, StepOf
  <1>3. req'[t] = r
    BY <1>2, AskGives
  <1>4. Numbered'
    BY <1>2, <1>3, NumbersKept DEF TypesInv, Numbered
  <1> QED BY <1>1, <1>4 DEF TypesInv

LEMMA EndKept ==
  ASSUME TypesInv, CallsInv, NEW t \in Callers, StepOf(t), OwnOK', WorldOK', lists' = lists,
         NEW p \in Ended, End(t, p)
  PROVE  TypesInv'
  <1>1. NetOK'
    BY EndTypes DEF TypesInv
  <1>2. OwnInv /\ \A v \in Callers \ {t} : Untouched(v)
    BY DEF CallsInv, StepOf
  <1>3. pc'[t] \notin {"out", "back"}
    BY <1>2, EndGives DEF Ended
  <1>4. Numbered'
    BY <1>2, <1>3, NumbersKept DEF TypesInv, Numbered, Called
  <1> QED BY <1>1, <1>4 DEF TypesInv

LEMMA BegunKept ==
  ASSUME TypesInv, CallsInv, NEW t \in Callers, StepOf(t),
         NEW o \in AllOps, NEW w \in Tags \cup Nat, NEW i \in Nat, NEW reads,
         Begin(t, o, w, i, reads),
         \/ \E r \in Gets \cup Posts : /\ r.do # "create" /\ Ask(t, r)
                                       /\ o = "puton" => i # 0
         \/ \E p \in Ended : End(t, p)
  PROVE  TypesInv'
  <1>1. UNCHANGED <<granted, lists, late, token>>
    BY DEF Begin
  <1>2. OwnOK' /\ WorldOK'
    BY <1>1, BeginTypes DEF TypesInv, WorldOK
  <1>3. op'[t] = o /\ item'[t] = i
    BY BeginGives DEF CallsInv
  <1> QED BY <1>1, <1>2, <1>3, AskedKept, EndKept

LEMMA CallTypes ==
  ASSUME TypesInv, CallsInv, NEW t \in Callers, Call(t)
  PROVE  TypesInv'
  <1>1. StepOf(t)
    BY CallKeeps
  <1>2. /\ {"forbidden", "done"} \subseteq Ended /\ Lists \subseteq Lists /\ 0 \in Nat
        /\ 0 \in Tags \cup Nat
    BY DEF Ended
  <1>3. AllOps = {"roster", "lineitems", "sets", "grades", "put", "puton"}
    BY DEF AllOps
  <1>4. \A l \in Lists, of \in Nat : Get(l, of) \in Gets /\ Get(l, of).do = "get"
    BY GetType
  <1>5. {"members", "lineitems", "sets", "results"} \subseteq Lists
    BY DEF Lists
  <1>6. Len(lists["lineitems"]) \in Nat
    BY <1>5 DEF CallsInv, ListsInv
  <1>7. CASE GetMembers(t)
    BY <1>1, <1>2, <1>3, <1>4, <1>5, <1>7, BegunKept DEF GetMembers
  <1>8. CASE GetLineItems(t)
    BY <1>1, <1>2, <1>3, <1>4, <1>5, <1>8, BegunKept DEF GetLineItems
  <1>9. CASE GetSets(t)
    BY <1>1, <1>2, <1>3, <1>4, <1>5, <1>9, BegunKept DEF GetSets
  <1>10. ASSUME NEW i \in 0 .. Len(lists["lineitems"]), GetGrades(t, i) PROVE TypesInv'
    <2>1. i \in Nat /\ i \in Tags \cup Nat
      BY <1>6
    <2> QED BY <1>1, <1>2, <1>3, <1>4, <1>5, <1>10, <2>1, BegunKept DEF GetGrades
  <1>11. ASSUME NEW i \in 0 .. Len(lists["lineitems"]), PutGradeOn(t, i) PROVE TypesInv'
    <2>1. /\ i \in Nat /\ i \in Tags \cup Nat /\ Score(i) \in Gets \cup Posts
          /\ Score(i).do # "create"
      BY <1>6, PostType
    <2> QED BY <1>1, <1>2, <1>3, <1>11, <2>1, BegunKept DEF PutGradeOn
  <1>12. ASSUME NEW tag \in Tags, PutGrade(t, tag) PROVE TypesInv'
    BY <1>1, <1>2, <1>3, <1>4, <1>5, <1>12, BegunKept DEF PutGrade
  <1>13. CASE NewService(t)
    <2>1. UNCHANGED <<granted, lists, late, op, want, pc, req, tries, answer, got, sets, item, made>>
      BY <1>13 DEF NewService
    <2>2. token' \in [Callers -> {"none", "live", "expired"}]
      BY <1>13, UpdateTypes DEF NewService, TypesInv, WorldOK
    <2> QED BY <2>1, <2>2 DEF TypesInv, NetOK, OwnOK, WorldOK, Numbered, Called
  <1> QED BY <1>7, <1>8, <1>9, <1>10, <1>11, <1>12, <1>13 DEF Call

LEMMA AnswerTypes ==
  ASSUME TypesInv, CallsInv, NEW t \in Callers, StepOf(t), NEW a \in Answers, Answered(t, a),
         made' \in [Callers -> 0 .. 1],
         \A e \in Range(lists'["lineitems"]) : e.id # 0
  PROVE  TypesInv'
  <1>1. /\ UNCHANGED <<granted, late, token, op, want, req, got, sets, item>> /\ pc[t] = "out"
    BY DEF Answered
  <1>2. NetOK' /\ OwnOK' /\ WorldOK'
    BY <1>1, AnsweredTypes DEF TypesInv, OwnOK, WorldOK
  <1>3. pc'[t] = "back" /\ \A v \in Callers \ {t} : Untouched(v)
    BY AnsweredGives DEF CallsInv, StepOf
  <1>4. Called(t)' => Called(t)
    BY <1>1 DEF Called
  <1>5. Numbered'
    BY <1>1, <1>3, <1>4, NumbersKept DEF TypesInv, Numbered
  <1> QED BY <1>2, <1>5 DEF TypesInv

LEMMA ServeTypes ==
  ASSUME TypesInv, CallsInv, NEW t \in Callers, Serve(t)
  PROVE  TypesInv'
  <1>1. /\ ListsInv /\ AskedInv(t) /\ NetOK /\ OwnOK
        /\ \A e \in Range(lists["lineitems"]) : e.id # 0
    BY DEF CallsInv, CallInv, TypesInv, Numbered
  <1>2. CASE Authorize(t)
    <2>1. UNCHANGED <<granted, lists, late, op, want, pc, req, tries, answer, got, sets, item, made>>
      BY <1>2 DEF Authorize
    <2>2. token' \in [Callers -> {"none", "live", "expired"}]
      BY <1>2, UpdateTypes DEF Authorize, TypesInv, WorldOK
    <2> QED BY <2>1, <2>2 DEF TypesInv, NetOK, OwnOK, WorldOK, Numbered, Called
  <1>3. CASE ServePage(t)
    <2> DEFINE s == Listing(req[t])
    <2>1. PICK at \in Nat \ {0}, next \in Nat :
            /\ Answered(t, [ok |-> "page", els |-> PageAt(s, at), next |-> next])
            /\ s \in Seq(Entries) /\ UNCHANGED <<lists, made>>
      BY <1>3, ServedPage
    <2> DEFINE a == [ok |-> "page", els |-> PageAt(s, at), next |-> next]
    <2>2. Answered(t, a)
      BY <2>1
    <2>3. PageAt(s, at) \in Seq(Entries)
      <3> HIDE DEF s
      <3> QED BY <2>1, PageHolds
    <2> HIDE DEF s
    <2>4. a \in Answers
      BY <2>1, <2>3, AnswerKinds
    <2>5. StepOf(t)
      BY <1>3, ServePageKeeps
    <2> HIDE DEF a
    <2>6. made' \in [Callers -> 0 .. 1] /\ \A e \in Range(lists'["lineitems"]) : e.id # 0
      BY <1>1, <2>1 DEF OwnOK
    <2> QED BY <2>2, <2>4, <2>5, <2>6, AnswerTypes
  <1>4. CASE ServeCreate(t)
    <2>1. /\ Creates(req[t]) /\ req[t].do = "create" /\ pc[t] = "out"
          /\ Answered(t, [ok |-> "posted", id |-> Len(lists["lineitems"]) + 1])
          /\ made' = [made EXCEPT ![t] = made[t] + 1]
      BY <1>4 DEF ServeCreate, Creates, Answered
    <2>2. req[t] \in Posts /\ made[t] = 0
      BY <1>1, <2>1 DEF AskedInv, Called, TypesInv, Numbered
    <2>3. [ok |-> "posted", id |-> Len(lists["lineitems"]) + 1] \in Answers
      <3>1. Len(lists["lineitems"]) + 1 \in Nat
        BY <1>1 DEF ListsInv, Lists
      <3> QED BY <3>1, AnswerKinds
    <2>4. made' \in [Callers -> 0 .. 1]
      <3>1. made[t] + 1 \in 0 .. 1
        BY <2>2
      <3> QED BY <1>1, <2>1, <3>1, UpdateTypes DEF OwnOK
    <2>5. \A e \in Range(lists'["lineitems"]) : e.id # 0
      BY <1>1, <2>1, <2>2, PostNumbers
    <2>6. StepOf(t)
      BY <1>4, ServePostKeeps
    <2> QED BY <2>1, <2>3, <2>4, <2>5, <2>6, AnswerTypes
  <1>5. CASE ServeScore(t)
    <2>1. /\ Scores(t, req[t]) /\ req[t].do = "score" /\ pc[t] = "out"
          /\ Answered(t, [ok |-> "posted", id |-> req[t].of]) /\ made' = made
      BY <1>5 DEF ServeScore, Scores, Answered
    <2>2. req[t] \in Posts /\ req[t].of \in Nat
      BY <1>1, <2>1 DEF AskedInv, Called, Posts
    <2>3. [ok |-> "posted", id |-> req[t].of] \in Answers
      BY <2>2, AnswerKinds
    <2>4. \A e \in Range(lists'["lineitems"]) : e.id # 0
      BY <1>1, <2>1, <2>2, PostNumbers
    <2>5. StepOf(t) /\ made' \in [Callers -> 0 .. 1]
      BY <1>1, <1>5, <2>1, ServePostKeeps DEF OwnOK
    <2> QED BY <2>1, <2>3, <2>4, <2>5, AnswerTypes
  <1>6. CASE Refuse(t)
    <2>1. /\ Answered(t, Refusal) /\ UNCHANGED <<lists, made>> /\ Refusal \in Answers
      BY <1>6, AnswerKinds DEF Refuse
    <2>2. StepOf(t)
      BY <1>6, RefuseKeeps
    <2> QED BY <1>1, <2>1, <2>2, AnswerTypes DEF OwnOK
  <1>7. CASE Deny(t)
    <2>1. /\ Throw(t, "refused") /\ UNCHANGED <<granted, lists, late, token, op, want, made>>
          /\ End(t, "refused") /\ StepOf(t) /\ "refused" \in Ended
      BY <1>7, RaiseKeeps DEF Deny, Throw, Ended
    <2> QED BY <1>1, <2>1, ThrowTypes, EndKept DEF TypesInv, WorldOK
  <1> QED BY <1>2, <1>3, <1>4, <1>5, <1>6, <1>7 DEF Serve

LEMMA ReceiveTypes ==
  ASSUME TypesInv, CallsInv, NEW t \in Callers, Receive(t)
  PROVE  TypesInv'
  <1>1. /\ ListsInv /\ AskedInv(t) /\ NetOK /\ OwnOK /\ WorldOK
        /\ \A l \in Lists, of \in Nat : Get(l, of) \in Gets /\ Get(l, of).do = "get"
        /\ {"done", "refused", "forbidden"} \subseteq Ended
    BY GetType DEF CallsInv, CallInv, TypesInv, Ended
  <1>2. answer[t] \in Answers /\ got[t] \in Seq(Entries)
    BY <1>1 DEF NetOK, OwnOK
  <1>3. answer[t].ok = "page" => WithPage(t) \in Seq(Entries)
    BY <1>2, AnswerKinds, JoinedRange DEF WithPage
  <1>4. CASE Raise(t)
    <2>1. /\ Throw(t, "refused") /\ UNCHANGED <<granted, lists, late, token, op, want, made>>
          /\ End(t, "refused") /\ StepOf(t)
      BY <1>4, RaiseKeeps DEF Raise, Throw
    <2> QED BY <1>1, <2>1, ThrowTypes, EndKept DEF WorldOK
  <1>5. CASE TurnPage(t)
    <2> DEFINE r == Following(req[t], answer[t].next)
    <2>1. /\ Page(t, {"roster", "lineitems", "sets"}) /\ Ask(t, r)
          /\ got' = [got EXCEPT ![t] = WithPage(t)]
          /\ UNCHANGED <<granted, lists, late, token, op, want, sets, item, made>> /\ StepOf(t)
      BY <1>5, TurnPageKeeps DEF TurnPage
    <2>2. /\ req[t] \in Gets /\ answer[t].next \in Nat /\ WithPage(t) \in Seq(Entries)
          /\ op[t] # "puton"
      BY <2>1, PageInHand DEF Page
    <2>3. r \in Gets /\ r.do # "create"
      BY <2>2, FollowingType
    <2> HIDE DEF r
    <2>4. OwnOK'
      BY <1>1, <2>1, <2>2, UpdateTypes DEF OwnOK
    <2> QED BY <2>1, <2>2, <2>3, <2>4, AskedKept
  <1>6. CASE ReadGroups(t)
    <2>1. /\ Page(t, {"sets"}) /\ sets' = [sets EXCEPT ![t] = WithPage(t)]
          /\ got' = [got EXCEPT ![t] = <<>>]
          /\ Ask(t, Get("groups", 0)) \/ End(t, "done")
          /\ UNCHANGED <<granted, lists, late, token, op, want, item, made>> /\ StepOf(t)
      BY <1>6, ReadGroupsKeeps DEF ReadGroups
    <2>2. WithPage(t) \in Seq(Entries) /\ op[t] # "puton" /\ <<>> \in Seq(Entries)
      BY <1>3, <2>1 DEF Page
    <2>3. OwnOK'
      BY <1>1, <2>1, <2>2, UpdateTypes DEF OwnOK
    <2>4. Get("groups", 0) \in Gets /\ Get("groups", 0).do # "create"
      BY <1>1 DEF Lists
    <2> QED BY <1>1, <2>1, <2>2, <2>3, <2>4, AskedKept, EndKept DEF WorldOK
  <1>7. CASE ReadEnds(t)
    <2>1. /\ answer[t].ok = "page" /\ got' = [got EXCEPT ![t] = WithPage(t)] /\ End(t, "done")
          /\ UNCHANGED <<granted, lists, late, token, op, want, sets, item, made>> /\ StepOf(t)
      BY <1>7, ReadEndsKeeps DEF ReadEnds, Page
    <2>2. OwnOK'
      BY <1>1, <1>3, <2>1, UpdateTypes DEF OwnOK
    <2> QED BY <1>1, <2>1, <2>2, EndKept DEF WorldOK
  <1>8. CASE Found(t)
    <2> DEFINE i == answer[t].els[FoundAt(t)].id
    <2>1. /\ Page(t, {"put"}) /\ FoundAt(t) # 0 /\ item' = [item EXCEPT ![t] = i] /\ Ask(t, Score(i))
          /\ UNCHANGED <<granted, lists, late, token, op, want, got, sets, made>> /\ StepOf(t)
      BY <1>8, PutKeeps DEF Found
    <2>2. i \in Nat /\ op[t] = "put"
      BY <2>1, SearchInHand
    <2> HIDE DEF i
    <2>3. OwnOK' /\ Score(i) \in Posts /\ Score(i).do = "score"
      BY <1>1, <2>1, <2>2, UpdateTypes, PostType DEF OwnOK
    <2> QED BY <2>1, <2>2, <2>3, AskedKept
  <1>9. CASE SearchOn(t)
    <2> DEFINE r == Following(req[t], answer[t].next)
    <2>1. /\ Page(t, {"put"}) /\ Ask(t, r)
          /\ UNCHANGED <<granted, lists, late, token, op, want, got, sets, item, made>> /\ StepOf(t)
      BY <1>9, PutKeeps DEF SearchOn
    <2>2. req[t] \in Gets /\ answer[t].next \in Nat /\ op[t] = "put"
      BY <2>1, SearchInHand
    <2>3. r \in Gets /\ r.do # "create"
      BY <2>2, FollowingType
    <2> HIDE DEF r
    <2> QED BY <1>1, <2>1, <2>2, <2>3, AskedKept DEF OwnOK
  <1>10. CASE CreateIt(t)
    <2>1. /\ Page(t, {"put"}) /\ UNCHANGED <<granted, lists, late, token, op, want, made>>
          /\ \/ Ask(t, Create(want[t])) /\ UNCHANGED <<got, sets, item>>
             \/ Throw(t, "forbidden")
          /\ StepOf(t)
      BY <1>10, PutKeeps DEF CreateIt
    <2>2. want[t] \in Tags /\ made[t] = 0 /\ op[t] = "put"
      BY <2>1, SearchInHand
    <2>3. CASE Throw(t, "forbidden")
      <3>1. End(t, "forbidden")
        BY <2>3 DEF Throw
      <3> QED BY <1>1, <2>1, <2>3, <3>1, ThrowTypes, EndKept DEF WorldOK
    <2>4. CASE Ask(t, Create(want[t])) /\ UNCHANGED <<got, sets, item>>
      <3>1. Create(want[t]) \in Posts /\ OwnOK' /\ made'[t] = 0
        BY <1>1, <2>1, <2>2, <2>4, PostType DEF OwnOK
      <3> QED BY <2>1, <2>2, <2>4, <3>1, AskedKept
    <2> QED BY <2>1, <2>3, <2>4
  <1>11. CASE ScoreIt(t)
    <2> DEFINE i == answer[t].id
    <2>1. /\ pc[t] = "back" /\ answer[t].ok = "posted" /\ req[t].do = "create"
          /\ item' = [item EXCEPT ![t] = i] /\ Ask(t, Score(i))
          /\ UNCHANGED <<granted, lists, late, token, op, want, got, sets, made>> /\ StepOf(t)
      BY <1>11, PutKeeps DEF ScoreIt
    <2>2. i \in Nat /\ op[t] # "puton"
      BY <1>1, <1>2, <2>1, AnswerKinds DEF AskedInv, Called
    <2> HIDE DEF i
    <2>3. OwnOK' /\ Score(i) \in Posts /\ Score(i).do = "score"
      BY <1>1, <2>1, <2>2, UpdateTypes, PostType DEF OwnOK
    <2> QED BY <2>1, <2>2, <2>3, AskedKept
  <1>12. CASE Scored(t)
    <2>1. /\ End(t, "done") /\ StepOf(t)
          /\ UNCHANGED <<granted, lists, late, token, op, want, got, sets, item, made>>
      BY <1>12, ScoredKeeps DEF Scored
    <2> QED BY <1>1, <2>1, EndKept DEF OwnOK, WorldOK
  <1> QED BY <1>4, <1>5, <1>6, <1>7, <1>8, <1>9, <1>10, <1>11, <1>12
           DEF Receive

LEMMA BreakTypes ==
  ASSUME TypesInv, CallsInv, NEW t \in Callers, Break(t)
  PROVE  TypesInv'
  <1>1. AskedInv(t) /\ NetOK /\ OwnOK /\ WorldOK /\ Numbered
    BY DEF CallsInv, CallInv, TypesInv
  <1>2. CASE Resend(t)
    <2>1. /\ pc[t] \in {"out", "back"} /\ tries[t] > 0
          /\ req[t].do = "get" \/ pc[t] = "out"
          /\ pc' = [pc EXCEPT ![t] = "out"] /\ tries' = [tries EXCEPT ![t] = tries[t] - 1]
          /\ answer' = [answer EXCEPT ![t] = Refusal]
          /\ UNCHANGED <<granted, lists, late, token, op, want, req, got, sets, item, made>>
      BY <1>2 DEF Resend, Retried
    <2>2. tries[t] - 1 \in 0 .. Retries /\ "out" \in Phases /\ Refusal \in Answers
      BY <1>1, <2>1, AnswerKinds, CourseOK DEF NetOK, Phases
    <2>3. /\ pc' \in [Callers -> Phases] /\ pc'[t] = "out"
          /\ \A v \in Callers \ {t} : pc'[v] = pc[v]
      BY <1>1, <2>1, <2>2, UpdateTypes DEF NetOK
    <2>4. tries' \in [Callers -> 0 .. Retries] /\ answer' \in [Callers -> Answers]
      BY <1>1, <2>1, <2>2, UpdateTypes DEF NetOK
    <2>5. NetOK'
      BY <1>1, <2>1, <2>3, <2>4 DEF NetOK, Called
    <2>6. StepOf(t)
      BY <1>2, ResendKeeps
    <2>7. Numbered'
      BY <1>1, <2>1, <2>3, <2>6, NumbersKept DEF Numbered, StepOf, Called
    <2> QED BY <1>1, <2>1, <2>5, <2>7 DEF TypesInv, OwnOK, WorldOK
  <1>3. CASE Fail(t)
    <2>1. /\ pc[t] \in {"out", "back"} /\ Throw(t, "failed") /\ End(t, "failed") /\ StepOf(t)
          /\ UNCHANGED <<granted, lists, token, op, want, made>> /\ "failed" \in Ended
          /\ \/ late' = late
             \/ req[t].do # "get" /\ late' = late \cup {<<t, req[t]>>}
      BY <1>3, FailKeeps DEF Fail, Throw, Ended
    <2>2. req[t].do # "get" => req[t] \in Posts
      BY <1>1, <2>1 DEF AskedInv, Called
    <2>3. WorldOK'
      BY <1>1, <2>1, <2>2 DEF WorldOK
    <2> QED BY <1>1, <2>1, <2>3, ThrowTypes, EndKept
  <1> QED BY <1>2, <1>3 DEF Break

LEMMA WorldTypes ==
  ASSUME TypesInv, CallsInv, Grow \/ Straggle \/ \E t \in Callers : Expire(t)
  PROVE  TypesInv'
  <1>1. /\ UNCHANGED <<granted, op, want, pc, req, tries, answer, got, sets, item, made>>
        /\ ListsInv /\ NetOK /\ OwnOK /\ WorldOK /\ Numbered
        /\ \A e \in Range(lists["lineitems"]) : e.id # 0
    BY DEF Grow, Straggle, Expire, CallsInv, TypesInv, Numbered
  <1>2. WorldOK'
    <2>1. CASE Grow
      BY <1>1, <2>1 DEF Grow, WorldOK
    <2>2. CASE Straggle
      <3>1. token' = token
        BY <2>2 DEF Straggle
      <3>2. PICK t \in Callers, r \in Posts :
              late' = (late \ {<<t, r>>}) \cup ({t} \X Trail(r))
        BY <1>1, <2>2, Arrives
      <3>3. Len(lists.lineitems) + 1 \in Nat
        BY <1>1 DEF ListsInv, Lists
      <3>4. Trail(r) \subseteq Strays
        BY <3>3 DEF Trail, Strayed, Strays
      <3>5. late' \subseteq Callers \X (Posts \cup Strays)
        BY <1>1, <3>2, <3>4 DEF WorldOK
      <3> QED BY <1>1, <3>1, <3>5 DEF WorldOK
    <2>3. ASSUME NEW t \in Callers, Expire(t) PROVE WorldOK'
      BY <1>1, <2>3, UpdateTypes DEF Expire, WorldOK
    <2> QED BY <2>1, <2>2, <2>3
  <1>3. \A e \in Range(lists'["lineitems"]) : e.id # 0
    <2>1. CASE Grow
      <3>1. PICK l \in Growing, of \in Belongs, n \in Nat : Adds(l, Entry(n, of)) /\ n # 0
        BY <1>1, <2>1, GrowAdds
      <3>2. l \in Lists /\ Entry(n, of) \in Entries /\ Entry(n, of).id # 0
        BY <3>1, CourseOK DEF Entry, Entries
      <3> QED BY <1>1, <3>1, <3>2, LineItemsOnly
    <2>2. CASE Straggle
      <3>1. PICK t \in Callers, r \in Posts : Creates(r) \/ Scores(t, r)
        BY <1>1, <2>2, Arrives
      <3> QED BY <1>1, <3>1, PostNumbers
    <2>3. CASE \E t \in Callers : Expire(t)
      BY <1>1, <2>3 DEF Expire
    <2> QED BY <2>1, <2>2, <2>3
  <1> QED BY <1>1, <1>2, <1>3 DEF TypesInv, NetOK, OwnOK, Numbered, Called

LEMMA TypesAlways == Spec => []TypesInv
  <1>1. Init => TypesInv
    BY InitTypes
  <1>2. CallsInv /\ TypesInv /\ [Next]_vars => TypesInv'
    <2> SUFFICES ASSUME CallsInv, TypesInv, [Next]_vars PROVE TypesInv'
      OBVIOUS
    <2>1. CASE Grow \/ Straggle
      BY <2>1, WorldTypes
    <2>2. ASSUME NEW t \in Callers, Call(t) \/ Serve(t) \/ Receive(t) \/ Break(t) \/ Expire(t)
          PROVE  TypesInv'
      BY <2>2, CallTypes, ServeTypes, ReceiveTypes, BreakTypes, WorldTypes
    <2>3. CASE UNCHANGED vars
      BY <2>3 DEF vars, TypesInv, NetOK, OwnOK, WorldOK, Numbered, Called
    <2> QED BY <2>1, <2>2, <2>3 DEF Next
  <1> QED BY <1>1, <1>2, CallsAlways, PTL DEF Spec

\* Every variable of a call and of the platform's lists keeps its type, for every course,
\* set of callers, page size and number of retries.  With it: a request is out exactly
\* while a call is under way, put_grade never posts a score without a line item to post
\* it to, and no call makes two line items.
THEOREM TypeCorrect == Spec => []TypeOK
  <1>1. CallsInv /\ TypesInv => TypeOK
    <2> SUFFICES ASSUME CallsInv, TypesInv PROVE TypeOK
      OBVIOUS
    <2>1. ASSUME NEW t \in Callers, Called(t), req[t].do = "score"
          PROVE  item[t] # 0
      <3>1. AskedInv(t) /\ GradeInv(t) /\ op[t] \in AllOps
        BY DEF CallsInv, CallInv, TypesInv, OwnOK
      <3>2. op[t] \in {"put", "puton"}
        BY <2>1, <3>1 DEF AskedInv, AllOps
      <3>3. CASE op[t] = "put"
        <4>1. Entry(item[t], want[t]) \in Range(lists["lineitems"])
          BY <2>1, <3>1, <3>3 DEF GradeInv
        <4> QED BY <4>1 DEF TypesInv, Numbered, Entry
      <3>4. CASE op[t] = "puton"
        BY <2>1, <3>4 DEF TypesInv, Numbered
      <3> QED BY <3>2, <3>3, <3>4
    <2> QED BY <2>1 DEF TypeOK, CallsInv, ListsInv, TypesInv, NetOK, OwnOK, WorldOK, Called
  <1> QED BY <1>1, CallsAlways, TypesAlways, PTL

-----------------------------------------------------------------------------
(* What a call leaves to do.                                                 *)

\* The kinds of requests a call has before it, with the one that is out.
Left(t) ==
  CASE op[t] = "put" /\ req[t].do = "get" -> 3
    [] op[t] = "put" /\ req[t].do = "create" -> 2
    [] op[t] = "sets" /\ req[t].list = "sets" -> 2
    [] OTHER -> 1

\* The call comes nearer to its end: to its next kind of request, to a page further on
\* that begins inside the list, to its last retry, to an answer; or it stays where it is.
Nearer(t) ==
  \/ Left(t)' < Left(t)
  \/ /\ Left(t)' = Left(t) /\ req[t].do = "get" /\ req'[t].list = req[t].list
     /\ req[t].at < req'[t].at /\ req'[t].at <= Len(lists[req[t].list])
  \/ Left(t)' = Left(t) /\ req'[t] = req[t] /\ tries'[t] < tries[t]
  \/ Left(t)' = Left(t) /\ UNCHANGED <<req[t], tries[t]>> /\ pc[t] = "out" /\ pc'[t] = "back"
  \/ UNCHANGED <<op[t], req[t], tries[t], pc[t], answer[t]>>

\* A link that does not lead back leads to a page that begins inside the list.
NextInv(t) ==
  pc[t] = "back" /\ answer[t].ok = "page" /\ op[t] # "grades" /\ answer[t].next > req[t].at =>
    answer[t].next <= Len(lists[req[t].list])

LEMMA NextKept ==
  ASSUME CallsInv, GrownLists, NEW v \in Callers, NextInv(v), Untouched(v)
  PROVE  NextInv(v)'
  <1>1. ListsInv /\ AskedInv(v)
    BY DEF CallsInv, CallInv
  <1>2. SUFFICES ASSUME pc[v] = "back", answer[v].ok = "page", op[v] # "grades",
                        answer[v].next > req[v].at
                 PROVE  answer[v].next <= Len(lists'[req[v].list])
    BY DEF NextInv, Untouched
  <1> DEFINE l == req[v].list
             n == answer[v].next
  <1>3. Called(v) /\ req[v].do = "get" /\ n \in Nat
    BY <1>1, <1>2 DEF AskedInv, Called, Refusal
  <1>4. l \in Lists /\ req[v].at \in Nat
    BY <1>1, <1>3, AskedOf
  <1>5. n <= Len(lists[l]) /\ n > req[v].at
    BY <1>2 DEF NextInv
  <1> HIDE DEF l, n
  <1>6. lists[l] \in Seq(Entries) /\ lists'[l] \in Seq(Entries) /\ Moved(lists[l], lists'[l])
    BY <1>1, <1>4 DEF ListsInv, GrownLists
  <1>7. n \in DOMAIN lists[l]
    BY <1>3, <1>4, <1>5, <1>6
  <1>8. PICK j \in DOMAIN lists'[l] : j >= n
    BY <1>6, <1>7 DEF Moved
  <1>9. n <= Len(lists'[l])
    BY <1>3, <1>6, <1>8
  <1> QED BY <1>9 DEF l, n

\* What is to be shown of a step of caller t.
Counts(t) ==
  /\ GrownLists /\ \A v \in Callers \ {t} : Untouched(v)
  /\ Called(t) /\ Called(t)' => Nearer(t) \/ LedBack(t)
  /\ NextInv(t)'

LEMMA NotBackNext ==
  ASSUME NEW t \in Callers, pc'[t] # "back" \/ answer'[t].ok # "page"
  PROVE  NextInv(t)'
  BY DEF NextInv

LEMMA CallCounts ==
  ASSUME CallsInv, NEW t \in Callers, Call(t)
  PROVE  Counts(t)
  <1>1. StepOf(t) /\ OwnInv
    BY CallKeeps DEF CallsInv
  <1>2. pc[t] \in Ended
    BY DEF Call, GetMembers, GetLineItems, GetSets, GetGrades, PutGrade, PutGradeOn, Begin,
           NewService
  <1>3. ~Called(t) /\ pc[t] # "back"
    BY <1>2 DEF Ended, Called
  <1>4. pc'[t] # "back"
    <2>1. CASE NewService(t)
      BY <1>3, <2>1 DEF NewService
    <2>2. CASE (\E r : Ask(t, r)) \/ End(t, "done") \/ End(t, "forbidden")
      BY <1>1, <2>2, AskGives, EndGives
    <2> QED BY <2>1, <2>2 DEF Call, GetMembers, GetLineItems, GetSets, GetGrades, PutGrade, PutGradeOn
  <1> QED BY <1>1, <1>3, <1>4, NotBackNext DEF Counts, StepOf

LEMMA AnswerCounts ==
  ASSUME CallsInv, NEW t \in Callers, Serve(t)
  PROVE  Counts(t)
  <1>1. OwnInv /\ AskedInv(t) /\ ListsInv
    BY DEF CallsInv, CallInv
  <1>2. CASE Authorize(t)
    <2>1. GrownLists /\ \A v \in Callers : Untouched(v)
      BY <1>2, WorldKeeps
    <2>2. pc'[t] = "out"
      BY <1>2 DEF Authorize
    <2> QED BY <2>1, <2>2, NotBackNext DEF Counts, Nearer, Untouched
  <1>4. CASE Deny(t)
    <2>1. StepOf(t)
      BY <1>4, RaiseKeeps
    <2>2. pc'[t] = "refused"
      BY <1>1, <1>4, EndGives DEF Deny, Throw
    <2> QED BY <2>1, <2>2, NotBackNext DEF Counts, StepOf, Called
  <1>3. CASE ServePage(t) \/ ServeCreate(t) \/ ServeScore(t) \/ Refuse(t)
    <2>1. StepOf(t)
      BY <1>3, ServePageKeeps, ServePostKeeps, RefuseKeeps
    <2>2. PICK a : /\ Answered(t, a)
                   /\ a.ok = "page" => /\ ServePage(t) /\ a.next \in Nat
                                       /\ \/ a.next \in 1 .. req[t].at
                                          \/ \E at \in Nat : a.next = NextPage(Len(Listing(req[t])), at)
      <3>1. CASE ServePage(t)
        <4>1. PICK at \in Nat \ {0}, next \in Nat :
                /\ Answered(t, [ok |-> "page", els |-> PageAt(Listing(req[t]), at), next |-> next])
                /\ next = NextPage(Len(Listing(req[t])), at) \/ next \in 1 .. req[t].at
          BY <3>1, ServedPage
        <4> WITNESS [ok |-> "page", els |-> PageAt(Listing(req[t]), at), next |-> next]
        <4> QED BY <3>1, <4>1
      <3>2. CASE ServeCreate(t) \/ ServeScore(t) \/ Refuse(t)
        <4>1. Refusal.ok # "page"
          BY DEF Refusal
        <4> QED BY <3>2, <4>1 DEF ServeCreate, ServeScore, Refuse
      <3> QED BY <1>3, <3>1, <3>2
    <2>3. /\ pc[t] = "out" /\ pc'[t] = "back" /\ req'[t] = req[t] /\ answer'[t] = a
          /\ op'[t] = op[t] /\ tries'[t] = tries[t]
      BY <1>1, <2>2, AnsweredGives DEF Answered
    <2>4. Called(t) => Nearer(t)
      BY <2>3 DEF Nearer, Left
    <2>5. NextInv(t)'
      <3>1. CASE a.ok # "page"
        BY <2>3, <3>1, NotBackNext
      <3>2. CASE a.ok = "page"
        <4> DEFINE r == req[t]
        <4>1. lists' = lists /\ r.list \in Lists /\ r.at \in Nat
              /\ (op[t] # "grades" => Listing(r) = lists[r.list])
          BY <2>2, <3>2, ServedPage
        <4>2. Len(lists[r.list]) \in Nat /\ PageSize \in Nat \ {0}
          BY <1>1, <4>1, CourseOK DEF ListsInv
        <4>3. op[t] # "grades" /\ a.next > r.at => a.next <= Len(lists[r.list])
          <5> HIDE DEF r
          <5>1. SUFFICES ASSUME op[t] # "grades", a.next > r.at PROVE a.next <= Len(lists[r.list])
            OBVIOUS
          <5>2. PICK at \in Nat : a.next = NextPage(Len(Listing(r)), at)
            BY <2>2, <3>2, <4>1, <5>1 DEF r
          <5> QED BY <4>1, <4>2, <5>1, <5>2 DEF NextPage
        <4> QED BY <2>3, <4>1, <4>3 DEF NextInv
      <3> QED BY <2>2, <3>1, <3>2
    <2> QED BY <2>1, <2>4, <2>5 DEF Counts, StepOf
  <1> QED BY <1>2, <1>3, <1>4 DEF Serve

\* A page further on, of the same kind, or a link back.
LEMMA TurnsNearer ==
  ASSUME CallsInv, NEW t \in Callers, NextInv(t), op'[t] = op[t],
         Page(t, {"roster", "lineitems", "sets"}) \/ Page(t, {"put"}), answer[t].next # 0,
         Ask(t, Following(req[t], answer[t].next))
  PROVE  Nearer(t) \/ LedBack(t)
  <1> DEFINE r == Following(req[t], answer[t].next)
  <1>1. req[t] \in Gets /\ req[t].do = "get" /\ answer[t].next \in Nat /\ req[t].at \in Nat
    BY PageInHand, SearchInHand DEF Gets
  <1>2. r.do = "get" /\ r.list = req[t].list /\ r.at = answer[t].next
    BY <1>1, FollowingType
  <1>3. answer[t].next > req[t].at => answer[t].next <= Len(lists[req[t].list])
    BY DEF NextInv, Page
  <1>4. req'[t] = r
    BY AskGives DEF CallsInv
  <1> HIDE DEF r
  <1>5. Left(t)' = Left(t)
    BY <1>1, <1>2, <1>4 DEF Left
  <1>6. answer[t].next <= req[t].at => LedBack(t)
    BY <1>1 DEF LedBack, Page
  <1> QED BY <1>1, <1>2, <1>3, <1>4, <1>5, <1>6 DEF Nearer

LEMMA ReceiveCounts ==
  ASSUME CallsInv, NEW t \in Callers, Receive(t), NextInv(t)
  PROVE  Counts(t)
  <1>1. OwnInv /\ AskedInv(t)
    BY DEF CallsInv, CallInv
  <1>2. StepOf(t)
    BY RaiseKeeps, TurnPageKeeps, ReadGroupsKeeps, ReadEndsKeeps, PutKeeps, ScoredKeeps DEF Receive
  <1>3. ASSUME NEW p \in Ended, End(t, p)
        PROVE  Counts(t)
    <2>1. pc'[t] # "back" /\ ~Called(t)'
      BY <1>1, <1>3, EndGives DEF Called, Ended
    <2> QED BY <1>2, <2>1, NotBackNext DEF Counts, StepOf
  <1>4. ASSUME NEW r, Ask(t, r), Nearer(t) \/ LedBack(t)
        PROVE  Counts(t)
    <2>1. pc'[t] = "out"
      BY <1>1, <1>4, AskGives
    <2> QED BY <1>2, <1>4, <2>1, NotBackNext DEF Counts, StepOf
  <1>5. {"done", "refused", "forbidden"} \subseteq Ended
    BY DEF Ended
  <1>6. CASE Raise(t) \/ ReadEnds(t) \/ Scored(t)
    BY <1>3, <1>5, <1>6 DEF Raise, ReadEnds, Scored, Throw
  <1>7. CASE TurnPage(t) \/ SearchOn(t)
    BY <1>4, <1>7, TurnsNearer DEF TurnPage, SearchOn
  <1>8. CASE ReadGroups(t)
    <2>1. CASE Ask(t, Get("groups", 0))
      <3>1. op[t] = "sets" /\ op'[t] = "sets" /\ req[t].list = "sets"
        BY <1>8 DEF ReadGroups, Page
      <3>2. req'[t] = Get("groups", 0) /\ Get("groups", 0).list = "groups"
        BY <1>1, <2>1, AskGives DEF Get
      <3>3. Left(t) = 2 /\ Left(t)' = 1
        BY <3>1, <3>2 DEF Left
      <3> QED BY <1>4, <2>1, <3>3 DEF Nearer
    <2> QED BY <1>3, <1>5, <1>8, <2>1 DEF ReadGroups
  <1>9. ASSUME NEW i, Ask(t, Score(i)), op'[t] = op[t], op[t] = "put",
               req[t].do \in {"get", "create"}
        PROVE  Counts(t)
    <2>1. req'[t] = Score(i) /\ Score(i).do = "score"
      BY <1>1, <1>9, AskGives DEF Score
    <2>2. Left(t) \in {2, 3} /\ Left(t)' = 1
      BY <1>9, <2>1 DEF Left
    <2> QED BY <1>4, <1>9, <2>2 DEF Nearer
  <1>10. CASE Found(t)
    <2>1. op[t] = "put" /\ req[t].do = "get" /\ op' = op /\ \E i : Ask(t, Score(i))
      BY <1>10, SearchInHand DEF Found
    <2> QED BY <1>9, <2>1
  <1>11. CASE CreateIt(t)
    <2>1. op[t] = "put" /\ req[t].do = "get" /\ op' = op
      BY <1>11, SearchInHand DEF CreateIt
    <2>2. CASE Ask(t, Create(want[t]))
      <3>1. req'[t] = Create(want[t]) /\ Create(want[t]).do = "create"
        BY <1>1, <2>2, AskGives DEF Create
      <3>2. Left(t) = 3 /\ Left(t)' = 2
        BY <2>1, <3>1 DEF Left
      <3> QED BY <1>4, <2>2, <3>2 DEF Nearer
    <2> QED BY <1>3, <1>5, <1>11, <2>2 DEF CreateIt, Throw
  <1>12. CASE ScoreIt(t)
    <2>1. /\ pc[t] = "back" /\ req[t].do = "create" /\ op' = op /\ Ask(t, Score(answer[t].id))
      BY <1>12 DEF ScoreIt
    <2>2. op[t] = "put"
      BY <1>1, <2>1 DEF AskedInv, Called
    <2> QED BY <1>9, <2>1, <2>2
  <1> QED BY <1>6, <1>7, <1>8, <1>10, <1>11, <1>12 DEF Receive

LEMMA BreakCounts ==
  ASSUME CallsInv, TypesInv, NEW t \in Callers, Break(t)
  PROVE  Counts(t)
  <1>1. StepOf(t) /\ OwnInv /\ tries \in [Callers -> 0 .. Retries]
    BY ResendKeeps, FailKeeps DEF Break, CallsInv, TypesInv, NetOK
  <1>2. CASE Resend(t)
    <2>1. /\ pc' = [pc EXCEPT ![t] = "out"] /\ tries' = [tries EXCEPT ![t] = tries[t] - 1]
          /\ UNCHANGED <<op, req>>
      BY <1>2 DEF Resend
    <2>2. pc'[t] = "out" /\ tries'[t] < tries[t]
      <3>1. DOMAIN pc = Callers
        BY <1>1 DEF OwnInv
      <3>2. tries'[t] = tries[t] - 1 /\ tries[t] \in 0 .. Retries
        BY <1>1, <2>1
      <3> QED BY <2>1, <3>1, <3>2, CourseOK
    <2>3. Nearer(t)
      BY <2>1, <2>2 DEF Nearer, Left
    <2> QED BY <1>1, <2>2, <2>3, NotBackNext DEF Counts, StepOf
  <1>3. CASE Fail(t)
    <2>1. pc'[t] = "failed"
      BY <1>1, <1>3, EndGives DEF Fail, Throw
    <2> QED BY <1>1, <2>1, NotBackNext DEF Counts, StepOf, Called
  <1> QED BY <1>2, <1>3 DEF Break

\* A call that goes on comes nearer to its end with every step of its own, or was led
\* back by the platform's last link: the loops of get_members and the others go on to a
\* page behind the one they had that begins inside the list, whatever the platform adds
\* meanwhile; put_grade never goes back to its search; and a request is sent again at
\* most as often as build_session says.  Nothing in the code bounds the links that lead
\* back; nothing else keeps a call from its end.  CallsEnd rests on this.
THEOREM CallsCountDown ==
  Spec => [][\A t \in Callers : Called(t) /\ Called(t)' => Nearer(t) \/ LedBack(t)]_vars
  <1> DEFINE AllNext == \A t \in Callers : NextInv(t)
  <1>1. Init => AllNext
    BY DEF Init, NextInv
  <1>2. CallsInv /\ TypesInv /\ AllNext /\ [Next]_vars =>
          AllNext' /\ \A t \in Callers : Called(t) /\ Called(t)' => Nearer(t) \/ LedBack(t)
    <2> SUFFICES ASSUME CallsInv, TypesInv, AllNext, [Next]_vars
                 PROVE  /\ AllNext'
                        /\ \A t \in Callers : Called(t) /\ Called(t)' => Nearer(t) \/ LedBack(t)
      OBVIOUS
    <2>1. ASSUME GrownLists, NEW v \in Callers, Untouched(v)
          PROVE  NextInv(v)' /\ Nearer(v)
      BY <2>1, NextKept DEF Nearer, Untouched
    <2>2. ASSUME NEW t \in Callers, Counts(t)
          PROVE  AllNext' /\ \A v \in Callers : Called(v) /\ Called(v)' => Nearer(v) \/ LedBack(v)
      BY <2>1, <2>2 DEF Counts
    <2>3. ASSUME NEW t \in Callers, Call(t) \/ Serve(t) \/ Receive(t) \/ Break(t)
          PROVE  Counts(t)
      BY <2>3, CallCounts, AnswerCounts, ReceiveCounts, BreakCounts
    <2>4. CASE Grow \/ Straggle \/ \E t \in Callers : Expire(t)
      BY <2>1, <2>4, WorldKeeps
    <2>5. CASE UNCHANGED vars
      <3>1. GrownLists /\ \A v \in Callers : Untouched(v)
        BY <2>5, SameGrow DEF vars, CallsInv, Untouched
      <3> QED BY <2>1, <3>1
    <2> QED BY <2>2, <2>3, <2>4, <2>5 DEF Next
  <1> QED BY <1>1, <1>2, CallsAlways, TypesAlways, PTL DEF Spec
=============================================================================
