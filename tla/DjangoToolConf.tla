---------------------------- MODULE DjangoToolConf ----------------------------
(***************************************************************************)
(* DjangoDbToolConf: the tool configuration in a database that an          *)
(* administrator edits while logins and launches look tools up.  The       *)
(* object keeps what it fetched, by issuer for a lookup without a client   *)
(* and by issuer and client for the others, in the same dict.  A launch    *)
(* looks its tool up twice, for its registration and for its deployment.   *)
(***************************************************************************)
EXTENDS Naturals, FiniteSets, Sequences, SequencesExt

CONSTANTS
  Workers,     \* each has a configuration object of its own
  Keeps,       \* which it may keep from one request to the next
  Issuers, Clients, Deployments,
  Keys,        \* rows of LtiToolKey, all with a public half
  Rows,        \* what the administrator may make of a tool
  NoClient, NoRow,
  Miss, Crash, \* what a lookup may find instead of a tool
  MaxEdits

ToolRows == [client : Clients, active : BOOLEAN, default : BOOLEAN,
             deps : SUBSET Deployments, key : Keys]

ASSUME RowsOK ==
  /\ Rows \subseteq ToolRows /\ Keeps \in BOOLEAN /\ MaxEdits \in Nat
  /\ NoClient \notin Clients /\ {NoRow, Miss, Crash} \cap Rows = {} /\ Miss # Crash

VARIABLES
  tools,   \* the table: tools[iss][client], unique together
  edits,
  cache,   \* _lti_tools of each worker's object
  req,     \* the worker's request
  seen     \* history: what the table held since the worker's object was made

vars == <<tools, edits, cache, req, seen>>

-----------------------------------------------------------------------------
\* An issuer's place in _lti_tools: nothing, a tool, or a dict by client.
Nothing == [is |-> "none"]
ATool(row) == [is |-> "tool", row |-> row]
ADict(by) == [is |-> "dict", by |-> by]
NoTools == [c \in Clients |-> NoRow]

\* Mutant: any client of the issuer will do.
CachedAnyClient(w, iss, client) ==
  LET slot == cache[w][iss]
      kept == IF slot.is = "dict" THEN Range(slot.by) \ {NoRow} ELSE {}
  IN  IF kept = {} THEN Miss ELSE CHOOSE row \in kept : TRUE

\* What the first lines of get_lti_tool come to: the row, a miss, or a crash. A
\* tool has no get, and a dict is no tool.
Cached(w, iss, client) ==
  LET slot == cache[w][iss] IN
  CASE slot.is = "none" -> Miss
    [] slot.is = "tool" -> IF client = NoClient THEN slot.row ELSE Crash
    [] slot.is = "dict" -> IF client = NoClient THEN Crash
                           ELSE IF slot.by[client] = NoRow THEN Miss ELSE slot.by[client]

Active(iss) == {tools[iss][c] : c \in {d \in Clients : tools[iss][d] # NoRow
                                                       /\ tools[iss][d].active}}

\* The row the query may return.  order_by("use_by_default") is ascending, and
\* leaves rows that are equal in it in any order.
Queried(iss, client) ==
  IF client = NoClient
  THEN {row \in Active(iss) : \A other \in Active(iss) : row.default => other.default}
  ELSE {row \in Active(iss) : row.client = client}

Kept(slot, client, row) ==
  IF client = NoClient THEN ATool(row)
  ELSE ADict([(IF slot.is = "dict" THEN slot.by ELSE NoTools) EXCEPT ![client] = row])

\* get_lti_tool: what a lookup of worker w may find, a tool, Miss for "not found in
\* settings" or Crash, and the issuer's slot after it.
Finds(w, iss, client) ==
  LET hit == Cached(w, iss, client) slot == cache[w][iss] IN
  IF hit # Miss THEN {<<hit, slot>>}
  ELSE IF Queried(iss, client) = {} THEN {<<Miss, slot>>}
  ELSE {<<row, Kept(slot, client, row)>> : row \in Queried(iss, client)}

-----------------------------------------------------------------------------
Ended == {"idle", "accepted", "redirected", "refused", "crashed"}

NoCache == [iss \in Issuers |-> Nothing]
Now == [iss \in Issuers |-> [c \in Clients |-> {tools[iss][c]}]]

Init ==
  /\ tools = [iss \in Issuers |-> NoTools] /\ edits = 0
  /\ cache = [w \in Workers |-> NoCache]
  /\ req = [w \in Workers |-> [pc |-> "idle", iss |-> CHOOSE i \in Issuers : TRUE,
                               client |-> NoClient, dep |-> CHOOSE d \in Deployments : TRUE,
                               tool |-> NoRow]]
  /\ seen = [w \in Workers |-> Now]

\* The administrator saves a tool, or deletes it.
Edit(iss, c, row) ==
  /\ edits < MaxEdits /\ tools[iss][c] # row
  /\ edits' = edits + 1
  /\ tools' = [tools EXCEPT ![iss][c] = row]
  /\ seen' = [w \in Workers |-> [seen[w] EXCEPT ![iss][c] = @ \cup {row}]]
  /\ UNCHANGED <<cache, req>>

\* A login or a launch arrives at worker w.
Arrive(w, pc, iss, client, dep) ==
  /\ req[w].pc \in Ended
  /\ req' = [req EXCEPT ![w] = [pc |-> pc, iss |-> iss, client |-> client, dep |-> dep,
                                tool |-> NoRow]]
  /\ \/ cache' = [cache EXCEPT ![w] = NoCache] /\ seen' = [seen EXCEPT ![w] = Now]
     \/ Keeps /\ UNCHANGED <<cache, seen>>
  /\ UNCHANGED <<tools, edits>>

\* One lookup of the request: with the tool found it goes on as "to" says, or it ends.
Consult(w, to) ==
  /\ \E f \in Finds(w, req[w].iss, req[w].client) :
       /\ cache' = [cache EXCEPT ![w][req[w].iss] = f[2]]
       /\ req' = [req EXCEPT ![w] =
            CASE f[1] = Crash -> [@ EXCEPT !.pc = "crashed"]
              [] f[1] = Miss -> [@ EXCEPT !.pc = "refused"]
              [] OTHER -> [@ EXCEPT !.pc = to[f[1]],
                                    !.tool = IF req[w].pc = "found" THEN req[w].tool ELSE f[1]]]
  /\ UNCHANGED <<tools, edits, seen>>

\* find_registration_by_params for a login: the redirect names the tool's client.
Login(w) == req[w].pc = "login" /\ Consult(w, [row \in Rows |-> "redirected"])

\* find_registration_by_params for a launch.
Registration(w) == req[w].pc = "launch" /\ Consult(w, [row \in Rows |-> "found"])

\* find_deployment_by_params: looked up again, and the deployment among its own.
Deployment(w) ==
  /\ req[w].pc = "found"
  /\ Consult(w, [row \in Rows |-> IF req[w].dep \in row.deps THEN "accepted" ELSE "refused"])

Next ==
  \/ \E iss \in Issuers, c \in Clients, row \in Rows \cup {NoRow} :
       (row # NoRow => row.client = c) /\ Edit(iss, c, row)
  \/ \E w \in Workers :
       \/ \E iss \in Issuers, d \in Deployments :
            \/ \E c \in Clients : Arrive(w, "launch", iss, c, d)
            \/ \E c \in Clients \cup {NoClient} : Arrive(w, "login", iss, c, d)
       \/ Login(w) \/ Registration(w) \/ Deployment(w)

Spec == Init /\ [][Next]_vars

-----------------------------------------------------------------------------
\* A launch is judged by what the table held at one time since its configuration
\* object was made: its key and its deployments are those of one saved tool, though
\* it looks the tool up twice and the administrator may save in between.
LaunchAsStored ==
  \A w \in Workers :
    LET r == req[w] IN
    /\ r.pc = "accepted" =>
         \E row \in seen[w][r.iss][r.client] \ {NoRow} :
           row.active /\ row.key = r.tool.key /\ r.dep \in row.deps
    /\ r.pc = "refused" /\ r.client # NoClient =>
         \E row \in seen[w][r.iss][r.client] :
           row = NoRow \/ ~(row # NoRow /\ row.active /\ r.dep \in row.deps)
=============================================================================
