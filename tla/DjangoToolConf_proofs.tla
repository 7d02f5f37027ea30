------------------------ MODULE DjangoToolConf_proofs ------------------------
(***************************************************************************)
(* Proofs about DjangoToolConf, for every table, every number of workers   *)
(* and edits, and objects that are kept between requests or not.           *)
(***************************************************************************)
EXTENDS DjangoToolConf, TLAPS

(* What the object keeps was in the table.                                   *)

Slots == {Nothing} \cup {ATool(row) : row \in Rows}
         \cup {ADict(by) : by \in [Clients -> Rows \cup {NoRow}]}

Requests == [pc : Ended \cup {"login", "launch", "found"},
             iss : Issuers \cup {CHOOSE i \in Issuers : TRUE},
             client : Clients \cup {NoClient},
             dep : Deployments \cup {CHOOSE d \in Deployments : TRUE},
             tool : Rows \cup {NoRow}]

\* The dict of an issuer holds rows that were active, each under its own client,
\* at a time that s remembers.
SlotKept(slot, s) ==
  slot.is = "dict" =>
    \A c \in Clients : slot.by[c] # NoRow => slot.by[c] \in s[c] /\ slot.by[c].active

TableInv ==
  /\ tools \in [Issuers -> [Clients -> Rows \cup {NoRow}]]
  /\ \A iss \in Issuers, c \in Clients : tools[iss][c] # NoRow => tools[iss][c].client = c
  /\ seen \in [Workers -> [Issuers -> [Clients -> SUBSET (Rows \cup {NoRow})]]]
  /\ \A w \in Workers, iss \in Issuers, c \in Clients : tools[iss][c] \in seen[w][iss][c]

CacheInv ==
  /\ cache \in [Workers -> [Issuers -> Slots]]
  /\ \A w \in Workers, iss \in Issuers : SlotKept(cache[w][iss], seen[w][iss])

\* Between its two lookups a launch has its tool, and the object keeps it.
Underway(w) ==
  LET r == req[w] IN
  /\ r.pc # "idle" => r.iss \in Issuers
  /\ r.pc \in {"launch", "found", "accepted"} => r.client \in Clients
  /\ r.pc = "found" => /\ cache[w][r.iss].is = "dict"
                       /\ r.tool \in Rows /\ cache[w][r.iss].by[r.client] = r.tool

Judged(w) ==
  LET r == req[w] IN
  /\ r.pc = "accepted" =>
       \E row \in seen[w][r.iss][r.client] \ {NoRow} :
         row.active /\ row.key = r.tool.key /\ r.dep \in row.deps
  /\ r.pc = "refused" /\ r.client # NoClient =>
       \E row \in seen[w][r.iss][r.client] :
         row = NoRow \/ ~(row # NoRow /\ row.active /\ r.dep \in row.deps)

DjangoInv ==
  /\ TableInv /\ CacheInv
  /\ req \in [Workers -> Requests]
  /\ \A w \in Workers : Underway(w) /\ Judged(w)

LEMMA RowType == \A row \in Rows : /\ row.client \in Clients /\ row.active \in BOOLEAN
                                   /\ row # NoRow /\ row # Miss /\ row # Crash
  BY RowsOK DEF ToolRows

LEMMA SlotType ==
  ASSUME NEW slot \in Slots
  PROVE  \/ slot = Nothing /\ slot.is = "none"
         \/ slot.is = "tool" /\ slot.row \in Rows
         \/ slot.is = "dict" /\ slot.by \in [Clients -> Rows \cup {NoRow}]
  BY DEF Slots, Nothing, ATool, ADict

LEMMA KeptSlot ==
  ASSUME NEW slot \in Slots, NEW client \in Clients, NEW row \in Rows
  PROVE  /\ Kept(slot, client, row) \in Slots
         /\ Kept(slot, client, row).is = "dict"
         /\ Kept(slot, client, row).by[client] = row
         /\ \A c \in Clients : c # client =>
              Kept(slot, client, row).by[c] = IF slot.is = "dict" THEN slot.by[c] ELSE NoRow
  <1> DEFINE old == IF slot.is = "dict" THEN slot.by ELSE NoTools
             by == [old EXCEPT ![client] = row]
  <1>1. old \in [Clients -> Rows \cup {NoRow}]
    BY SlotType DEF NoTools
  <1>2. \A c \in Clients : old[c] = IF slot.is = "dict" THEN slot.by[c] ELSE NoRow
    BY DEF NoTools
  <1>3. Kept(slot, client, row) = ADict(by)
    BY RowsOK DEF Kept
  <1> HIDE DEF old
  <1>4. /\ by \in [Clients -> Rows \cup {NoRow}] /\ by[client] = row
        /\ \A c \in Clients : c # client => by[c] = old[c]
    BY <1>1
  <1> HIDE DEF by
  <1>5. ADict(by).is = "dict" /\ ADict(by).by = by /\ ADict(by) \in Slots
    BY <1>4 DEF ADict, Slots
  <1> QED BY <1>2, <1>3, <1>4, <1>5

\* The query returns active rows of the table; with a client, the client's.
LEMMA QueriedRows ==
  ASSUME TableInv, NEW iss \in Issuers, NEW client
  PROVE  /\ Queried(iss, client) \subseteq Rows
         /\ client \in Clients =>
              /\ \A row \in Queried(iss, client) : row = tools[iss][client] /\ row.active
              /\ Queried(iss, client) = {} => tools[iss][client] = NoRow \/ ~tools[iss][client].active
  <1>1. \A row \in Active(iss) : \E c \in Clients : /\ row = tools[iss][c] /\ row.active
                                                     /\ row \in Rows /\ row.client = c
    BY DEF Active, TableInv
  <1>2. Queried(iss, client) \subseteq Active(iss)
    BY DEF Queried
  <1>3. ASSUME client \in Clients
        PROVE  Queried(iss, client) = {row \in Active(iss) : row.client = client}
    BY <1>3, RowsOK DEF Queried
  <1>4. ASSUME client \in Clients, tools[iss][client] # NoRow, tools[iss][client].active
        PROVE  tools[iss][client] \in Active(iss) /\ tools[iss][client].client = client
    BY <1>4 DEF Active, TableInv
  <1> QED BY <1>1, <1>2, <1>3, <1>4

\* What a lookup finds, and what it leaves in the object.
LEMMA FindsKept ==
  ASSUME DjangoInv, NEW w \in Workers, NEW iss \in Issuers, NEW client \in Clients \cup {NoClient},
         NEW f \in Finds(w, iss, client)
  PROVE  /\ f[1] \in Rows \cup {Miss, Crash} /\ f[2] \in Slots
         /\ SlotKept(f[2], seen[w][iss])
         /\ client \in Clients /\ f[1] \in Rows =>
              /\ f[2].is = "dict" /\ f[2].by[client] = f[1]
              /\ f[1] \in seen[w][iss][client] /\ f[1].active
              /\ cache[w][iss].is = "dict" /\ cache[w][iss].by[client] # NoRow =>
                   f[1] = cache[w][iss].by[client]
         /\ client \in Clients /\ f[1] = Miss /\ f[1] # Crash =>
              tools[iss][client] = NoRow \/ ~tools[iss][client].active
         /\ client \in Clients /\ cache[w][iss].is = "dict"
              /\ cache[w][iss].by[client] \in Rows => f[1] \in Rows
  <1> DEFINE slot == cache[w][iss]
             hit == Cached(w, iss, client)
             s == seen[w][iss]
  <1>1. slot \in Slots /\ SlotKept(slot, s) /\ TableInv
    BY DEF DjangoInv, CacheInv
  <1>2. /\ slot.is = "none" => hit = Miss
        /\ slot.is = "tool" => hit = IF client = NoClient THEN slot.row ELSE Crash
        /\ slot.is = "dict" => hit = IF client = NoClient THEN Crash
                                     ELSE IF slot.by[client] = NoRow THEN Miss ELSE slot.by[client]
    BY DEF Cached
  <1>3. f \in IF hit # Miss THEN {<<hit, slot>>}
              ELSE IF Queried(iss, client) = {} THEN {<<Miss, slot>>}
              ELSE {<<row, Kept(slot, client, row)>> : row \in Queried(iss, client)}
    BY DEF Finds
  <1> HIDE DEF slot, hit, s
  <1>4. hit \in Rows \cup {Miss, Crash}
    BY <1>1, <1>2, SlotType
  <1>5. CASE hit # Miss
    <2>1. f[1] = hit /\ f[2] = slot
      BY <1>3, <1>5
    <2>2. client \in Clients /\ hit \in Rows => slot.is = "dict" /\ slot.by[client] = hit
      BY <1>1, <1>2, SlotType, RowType, RowsOK
    <2>3. client \in Clients /\ hit \in Rows => hit \in s[client] /\ hit.active
      BY <1>1, <2>2, RowType DEF SlotKept
    <2>4. client \in Clients /\ slot.is = "dict" /\ slot.by[client] \in Rows => hit \in Rows
      BY <1>2, RowType, RowsOK
    <2> QED BY <1>1, <1>4, <1>5, <2>1, <2>2, <2>3, <2>4 DEF slot, s
  <1>6. CASE hit = Miss
    <2>0. client \in Clients /\ slot.is = "dict" => slot.by[client] \notin Rows
      BY <1>2, <1>6, RowType, RowsOK
    <2>a. client \in Clients /\ slot.is = "dict" => slot.by[client] = NoRow
      BY <1>1, <2>0, SlotType
    <2>1. CASE Queried(iss, client) = {}
      <3>1. f[1] = Miss /\ f[2] = slot
        BY <1>3, <1>6, <2>1
      <3> QED BY <1>1, <2>0, <2>1, <3>1, QueriedRows, RowType DEF slot, s
    <2>2. CASE Queried(iss, client) # {}
      <3>1. PICK row \in Queried(iss, client) : f = <<row, Kept(slot, client, row)>>
        BY <1>3, <1>6, <2>2
      <3>2. row \in Rows /\ f[1] = row /\ f[2] = Kept(slot, client, row)
        BY <1>1, <3>1, QueriedRows
      <3>3. CASE client = NoClient
        <4>1. f[2] = ATool(row)
          BY <3>2, <3>3 DEF Kept
        <4> QED BY <3>2, <3>3, <4>1, RowType, RowsOK DEF ATool, Slots, SlotKept
      <3>4. CASE client \in Clients
        <4>1. row = tools[iss][client] /\ row.active /\ row \in s[client]
          BY <1>1, <3>1, <3>4, QueriedRows DEF TableInv, s
        <4>2. /\ f[2] \in Slots /\ f[2].is = "dict" /\ f[2].by[client] = row
              /\ \A c \in Clients : c # client =>
                   f[2].by[c] = IF slot.is = "dict" THEN slot.by[c] ELSE NoRow
          BY <1>1, <3>2, <3>4, KeptSlot
        <4>3. SlotKept(f[2], s)
          BY <1>1, <4>1, <4>2 DEF SlotKept
        <4> QED BY <2>a, <2>0, <3>2, <4>1, <4>2, <4>3, RowType DEF slot, s
      <3> QED BY <3>3, <3>4
    <2> QED BY <2>1, <2>2
  <1> QED BY <1>5, <1>6

(* Every step keeps it.                                                      *)

\* What a history that only grows keeps true.
LEMMA SlotKeptGrows ==
  ASSUME NEW slot, NEW s, NEW t, \A c \in Clients : s[c] \subseteq t[c], SlotKept(slot, s)
  PROVE  SlotKept(slot, t)
  BY DEF SlotKept

LEMMA InitDjango == Init => DjangoInv
  <1> SUFFICES ASSUME Init PROVE DjangoInv
    OBVIOUS
  <1>1. /\ tools \in [Issuers -> [Clients -> Rows \cup {NoRow}]]
        /\ \A iss \in Issuers, c \in Clients : tools[iss][c] = NoRow
    BY DEF Init, NoTools
  <1>2. /\ Now \in [Issuers -> [Clients -> SUBSET (Rows \cup {NoRow})]]
        /\ \A iss \in Issuers, c \in Clients : tools[iss][c] \in Now[iss][c]
    BY <1>1 DEF Now
  <1>3. /\ seen \in [Workers -> [Issuers -> [Clients -> SUBSET (Rows \cup {NoRow})]]]
        /\ \A w \in Workers : seen[w] = Now
    BY <1>2 DEF Init
  <1>4. TableInv
    BY <1>1, <1>2, <1>3 DEF TableInv
  <1>5. /\ NoCache \in [Issuers -> Slots]
        /\ \A iss \in Issuers : NoCache[iss].is = "none"
    BY DEF NoCache, Nothing, Slots
  <1>6. /\ cache \in [Workers -> [Issuers -> Slots]]
        /\ \A w \in Workers : cache[w] = NoCache
    BY <1>5 DEF Init
  <1>7. CacheInv
    BY <1>5, <1>6 DEF CacheInv, SlotKept
  <1>8. /\ req \in [Workers -> Requests]
        /\ \A w \in Workers : req[w].pc = "idle"
    BY DEF Init, Requests, Ended
  <1> QED BY <1>4, <1>7, <1>8 DEF DjangoInv, Underway, Judged

LEMMA EditKeeps ==
  ASSUME DjangoInv, NEW iss \in Issuers, NEW c \in Clients, NEW row \in Rows \cup {NoRow},
         row # NoRow => row.client = c, Edit(iss, c, row)
  PROVE  DjangoInv'
  <1>1. TableInv /\ CacheInv
    BY DEF DjangoInv
  <1>2. /\ tools' \in [Issuers -> [Clients -> Rows \cup {NoRow}]]
        /\ \A i \in Issuers, d \in Clients :
             tools'[i][d] = IF i = iss /\ d = c THEN row ELSE tools[i][d]
    BY <1>1 DEF TableInv, Edit
  <1>3. /\ seen' \in [Workers -> [Issuers -> [Clients -> SUBSET (Rows \cup {NoRow})]]]
        /\ \A w \in Workers, i \in Issuers, d \in Clients :
             seen'[w][i][d] = IF i = iss /\ d = c THEN seen[w][i][d] \cup {row} ELSE seen[w][i][d]
    <2>1. ASSUME NEW w \in Workers
          PROVE  /\ seen'[w] \in [Issuers -> [Clients -> SUBSET (Rows \cup {NoRow})]]
                 /\ \A i \in Issuers, d \in Clients :
                      seen'[w][i][d] = IF i = iss /\ d = c THEN seen[w][i][d] \cup {row}
                                                          ELSE seen[w][i][d]
      <3> DEFINE old == seen[w]
                 at == [old[iss] EXCEPT ![c] = old[iss][c] \cup {row}]
                 new == [old EXCEPT ![iss] = at]
      <3>1. old \in [Issuers -> [Clients -> SUBSET (Rows \cup {NoRow})]]
        BY <1>1 DEF TableInv
      <3>2. seen'[w] = new
        BY DEF Edit
      <3> HIDE DEF old
      <3>3. old[iss] \in [Clients -> SUBSET (Rows \cup {NoRow})]
        BY <3>1
      <3>4. at \in [Clients -> SUBSET (Rows \cup {NoRow})]
        BY <3>3
      <3>5. \A d \in Clients : at[d] = IF d = c THEN old[iss][d] \cup {row} ELSE old[iss][d]
        BY <3>3
      <3> HIDE DEF at
      <3>6. new \in [Issuers -> [Clients -> SUBSET (Rows \cup {NoRow})]]
        BY <3>1, <3>4
      <3>7. \A i \in Issuers : new[i] = IF i = iss THEN at ELSE old[i]
        BY <3>1
      <3> QED BY <3>2, <3>5, <3>6, <3>7 DEF old
    <2>2. seen' = [w \in Workers |-> seen'[w]]
      BY DEF Edit
    <2> QED BY <2>1, <2>2
  <1>9. ASSUME NEW w \in Workers, NEW i \in Issuers, NEW d \in Clients
        PROVE  seen'[w][i][d] = IF i = iss /\ d = c THEN seen[w][i][d] \cup {row}
                                                    ELSE seen[w][i][d]
    BY <1>3
  <1>4. TableInv'
    <2>1. \A i \in Issuers, d \in Clients : tools'[i][d] # NoRow => tools'[i][d].client = d
      <3> SUFFICES ASSUME NEW i \in Issuers, NEW d \in Clients, tools'[i][d] # NoRow
                   PROVE  tools'[i][d].client = d
        OBVIOUS
      <3>1. CASE i = iss /\ d = c
        BY <1>2, <3>1
      <3>2. CASE ~(i = iss /\ d = c)
        <4>1. tools'[i][d] = tools[i][d]
          BY <1>2, <3>2
        <4> QED BY <1>1, <4>1 DEF TableInv
      <3> QED BY <3>1, <3>2
    <2>2. \A w \in Workers, i \in Issuers, d \in Clients : tools'[i][d] \in seen'[w][i][d]
      <3>1. \A w \in Workers, i \in Issuers, d \in Clients : tools[i][d] \in seen[w][i][d]
        BY <1>1 DEF TableInv
      <3> SUFFICES ASSUME NEW w \in Workers, NEW i \in Issuers, NEW d \in Clients
                   PROVE  tools'[i][d] \in seen'[w][i][d]
        OBVIOUS
      <3>2. tools'[i][d] = IF i = iss /\ d = c THEN row ELSE tools[i][d]
        BY <1>2
      <3>3. seen'[w][i][d] = IF i = iss /\ d = c THEN seen[w][i][d] \cup {row}
                                                ELSE seen[w][i][d]
        BY <1>9
      <3>4. tools[i][d] \in seen[w][i][d]
        BY <3>1
      <3>5. CASE i = iss /\ d = c
        BY <3>2, <3>3, <3>5
      <3>6. CASE ~(i = iss /\ d = c)
        BY <3>2, <3>3, <3>4, <3>6
      <3> QED BY <3>5, <3>6
    <2> QED BY <1>2, <1>3, <2>1, <2>2 DEF TableInv
  <1>5. cache' = cache /\ req' = req
    BY DEF Edit
  <1>6. \A w \in Workers, i \in Issuers, d \in Clients : seen[w][i][d] \subseteq seen'[w][i][d]
    <2> SUFFICES ASSUME NEW w \in Workers, NEW i \in Issuers, NEW d \in Clients
                 PROVE  seen[w][i][d] \subseteq seen'[w][i][d]
      OBVIOUS
    <2>1. CASE i = iss /\ d = c
      <3>1. seen'[w][i][d] = seen[w][i][d] \cup {row}
        BY <1>9, <2>1
      <3> QED BY <3>1
    <2>2. CASE ~(i = iss /\ d = c)
      <3>1. seen'[w][i][d] = seen[w][i][d]
        BY <1>9, <2>2
      <3> QED BY <3>1
    <2> QED BY <2>1, <2>2
  <1>7. CacheInv'
    BY <1>1, <1>5, <1>6 DEF CacheInv, SlotKept
  <1>8. ASSUME NEW w \in Workers
        PROVE  Underway(w)' /\ Judged(w)'
    <2>1. Underway(w) /\ Judged(w) /\ req[w] \in Requests
      BY DEF DjangoInv
    <2>2. req[w].pc \in {"accepted", "refused"} => req[w].iss \in Issuers
      BY <2>1 DEF Underway
    <2>3. req[w].pc \in {"accepted", "refused"} /\ req[w].client # NoClient => req[w].client \in Clients
      BY <2>1 DEF Requests
    <2>4. req[w].pc = "accepted" => req[w].client # NoClient
      BY <2>1, RowsOK DEF Underway
    <2>5. req[w].pc \in {"accepted", "refused"} /\ req[w].client # NoClient =>
            seen[w][req[w].iss][req[w].client] \subseteq seen'[w][req[w].iss][req[w].client]
      BY <1>6, <2>2, <2>3
    <2>6. Judged(w)'
      BY <1>5, <2>1, <2>4, <2>5 DEF Judged
    <2>7. Underway(w)'
      BY <1>5, <2>1 DEF Underway
    <2> QED BY <2>6, <2>7
  <1> QED BY <1>4, <1>5, <1>7, <1>8 DEF DjangoInv

\* A request of another worker is untouched by what worker w does.
LEMMA OthersKept ==
  ASSUME DjangoInv, NEW w \in Workers, NEW v \in Workers, req'[v] = req[v],
         cache'[v] = cache[v], seen'[v] = seen[v]
  PROVE  Underway(v)' /\ Judged(v)'
  <1>1. Underway(v) /\ Judged(v)
    BY DEF DjangoInv
  <1>2. Underway(v)'
    BY <1>1 DEF Underway
  <1>3. Judged(v)'
    BY <1>1 DEF Judged
  <1> QED BY <1>2, <1>3

LEMMA ArriveKeeps ==
  ASSUME DjangoInv, NEW w \in Workers, NEW pc \in {"launch", "login"}, NEW iss \in Issuers,
         NEW client \in Clients \cup {NoClient}, NEW dep \in Deployments,
         pc = "launch" => client \in Clients, Arrive(w, pc, iss, client, dep)
  PROVE  DjangoInv'
  <1> DEFINE r == [pc |-> pc, iss |-> iss, client |-> client, dep |-> dep, tool |-> NoRow]
  <1>1. TableInv /\ CacheInv /\ req \in [Workers -> Requests] /\ tools' = tools
    BY DEF DjangoInv, Arrive
  <1>2. /\ r \in Requests /\ r.pc \in {"launch", "login"} /\ r.iss \in Issuers
        /\ r.pc = "launch" => r.client \in Clients
    BY DEF Requests, Ended
  <1>3. req' = [req EXCEPT ![w] = r]
    BY DEF Arrive
  <1> HIDE DEF r
  <1>4. /\ req' \in [Workers -> Requests] /\ req'[w] = r
        /\ \A v \in Workers : v # w => req'[v] = req[v]
    BY <1>1, <1>2, <1>3
  <1>5. Underway(w)' /\ Judged(w)'
    BY <1>2, <1>4 DEF Underway, Judged
  <1>6. /\ Now \in [Issuers -> [Clients -> SUBSET (Rows \cup {NoRow})]]
        /\ \A i \in Issuers, d \in Clients : tools[i][d] \in Now[i][d]
    BY <1>1 DEF Now, TableInv
  <1>7. /\ NoCache \in [Issuers -> Slots]
        /\ \A i \in Issuers : NoCache[i].is = "none"
    BY DEF NoCache, Nothing, Slots
  <1>8. CASE cache' = [cache EXCEPT ![w] = NoCache] /\ seen' = [seen EXCEPT ![w] = Now]
    <2>1. /\ cache' \in [Workers -> [Issuers -> Slots]] /\ cache'[w] = NoCache
          /\ \A v \in Workers : v # w => cache'[v] = cache[v]
      BY <1>1, <1>7, <1>8 DEF CacheInv
    <2>2. /\ seen' \in [Workers -> [Issuers -> [Clients -> SUBSET (Rows \cup {NoRow})]]]
          /\ seen'[w] = Now
          /\ \A v \in Workers : v # w => seen'[v] = seen[v]
      BY <1>1, <1>6, <1>8 DEF TableInv
    <2>3. ASSUME NEW v \in Workers
          PROVE  /\ \A i \in Issuers, d \in Clients : tools[i][d] \in seen'[v][i][d]
                 /\ \A i \in Issuers : SlotKept(cache'[v][i], seen'[v][i])
      <3>1. CASE v = w
        BY <1>6, <1>7, <2>1, <2>2, <3>1 DEF SlotKept
      <3>2. CASE v # w
        BY <1>1, <2>1, <2>2, <3>2 DEF TableInv, CacheInv
      <3> QED BY <3>1, <3>2
    <2>4. TableInv'
      BY <1>1, <2>2, <2>3 DEF TableInv
    <2>5. CacheInv'
      BY <2>1, <2>3 DEF CacheInv
    <2>6. \A v \in Workers : v # w => Underway(v)' /\ Judged(v)'
      BY <1>4, <2>1, <2>2, OthersKept
    <2> QED BY <1>4, <1>5, <2>4, <2>5, <2>6 DEF DjangoInv
  <1>9. CASE UNCHANGED <<cache, seen>>
    <2>1. TableInv' /\ CacheInv'
      BY <1>1, <1>9 DEF TableInv, CacheInv
    <2>2. \A v \in Workers : v # w => Underway(v)' /\ Judged(v)'
      BY <1>4, <1>9, OthersKept
    <2> QED BY <1>4, <1>5, <2>1, <2>2 DEF DjangoInv
  <1> QED BY <1>8, <1>9 DEF Arrive

\* A lookup keeps the table and the objects as they should be; how it leaves its own
\* request is for each of the three to say.
LEMMA ConsultKeeps ==
  ASSUME DjangoInv, NEW w \in Workers, req[w].iss \in Issuers,
         NEW f \in Finds(w, req[w].iss, req[w].client),
         cache' = [cache EXCEPT ![w][req[w].iss] = f[2]],
         UNCHANGED <<tools, edits, seen>>,
         NEW r, r \in Requests, req' = [req EXCEPT ![w] = r],
         r.iss = req[w].iss, r.client = req[w].client,
         r.pc \in Ended \cup {"found"}, r.pc # "idle",
         r.pc \in {"found", "accepted"} => r.client \in Clients,
         r.pc = "found" => f[1] \in Rows /\ r.tool = f[1],
         r.pc = "accepted" => f[1] \in Rows /\ r.tool.key = f[1].key /\ r.dep \in f[1].deps,
         r.pc = "refused" /\ r.client # NoClient =>
           \/ f[1] = Miss
           \/ f[1] \in Rows /\ r.dep \notin f[1].deps
  PROVE  DjangoInv'
  <1> DEFINE iss == req[w].iss
             client == req[w].client
  <1>1. /\ TableInv /\ CacheInv /\ req \in [Workers -> Requests]
        /\ client \in Clients \cup {NoClient} /\ iss \in Issuers
    BY DEF DjangoInv, Requests
  <1>2. f \in Finds(w, iss, client) /\ cache' = [cache EXCEPT ![w][iss] = f[2]]
        /\ r.iss = iss /\ r.client = client
    OBVIOUS
  <1> HIDE DEF iss, client
  <1>3. /\ f[1] \in Rows \cup {Miss, Crash} /\ f[2] \in Slots
        /\ SlotKept(f[2], seen[w][iss])
        /\ client \in Clients /\ f[1] \in Rows =>
             /\ f[2].is = "dict" /\ f[2].by[client] = f[1]
             /\ f[1] \in seen[w][iss][client] /\ f[1].active
        /\ client \in Clients /\ f[1] = Miss =>
             tools[iss][client] = NoRow \/ ~tools[iss][client].active
    BY <1>1, <1>2, FindsKept, RowsOK
  <1>4. /\ req' \in [Workers -> Requests] /\ req'[w] = r
        /\ \A v \in Workers : v # w => req'[v] = req[v]
    BY <1>1
  <1>5. /\ cache' \in [Workers -> [Issuers -> Slots]] /\ cache'[w][iss] = f[2]
        /\ \A i \in Issuers : i # iss => cache'[w][i] = cache[w][i]
        /\ \A v \in Workers : v # w => cache'[v] = cache[v]
    <2> DEFINE new == [cache[w] EXCEPT ![iss] = f[2]]
    <2>1. cache[w] \in [Issuers -> Slots] /\ cache \in [Workers -> [Issuers -> Slots]]
      BY <1>1 DEF CacheInv
    <2>2. /\ new \in [Issuers -> Slots] /\ new[iss] = f[2]
          /\ \A i \in Issuers : i # iss => new[i] = cache[w][i]
      BY <1>1, <1>3, <2>1
    <2>3. cache' = [cache EXCEPT ![w] = new]
      BY <1>2
    <2> HIDE DEF new
    <2> QED BY <2>1, <2>2, <2>3
  <1>6. TableInv'
    BY <1>1 DEF TableInv
  <1>7. \A v \in Workers, i \in Issuers : SlotKept(cache'[v][i], seen'[v][i])
    <2> SUFFICES ASSUME NEW v \in Workers, NEW i \in Issuers
                 PROVE  SlotKept(cache'[v][i], seen[v][i])
      OBVIOUS
    <2>1. CASE v = w /\ i = iss
      BY <1>3, <1>5, <2>1
    <2>2. CASE ~(v = w /\ i = iss)
      <3>1. cache'[v][i] = cache[v][i]
        BY <1>5, <2>2
      <3> QED BY <1>1, <3>1 DEF CacheInv
    <2> QED BY <2>1, <2>2
  <1>8. CacheInv'
    BY <1>5, <1>7 DEF CacheInv
  <1>9. Underway(w)'
    BY <1>1, <1>2, <1>3, <1>4, <1>5 DEF Underway, Ended
  <1>10. Judged(w)'
    <2>1. ASSUME r.pc = "accepted"
          PROVE  \E row \in seen[w][iss][client] \ {NoRow} :
                   row.active /\ row.key = r.tool.key /\ r.dep \in row.deps
      BY <1>2, <1>3, <2>1, RowType
    <2>2. ASSUME r.pc = "refused", r.client # NoClient
          PROVE  \E row \in seen[w][iss][client] :
                   row = NoRow \/ ~(row # NoRow /\ row.active /\ r.dep \in row.deps)
      <3>1. client \in Clients
        BY <1>1, <1>2, <2>2
      <3>2. tools[iss][client] \in seen[w][iss][client]
        BY <1>1, <3>1 DEF TableInv
      <3> QED BY <1>3, <2>2, <3>1, <3>2
    <2> QED BY <1>2, <1>4, <2>1, <2>2 DEF Judged
  <1>11. \A v \in Workers : v # w => Underway(v)' /\ Judged(v)'
    BY <1>4, <1>5, OthersKept
  <1> QED BY <1>4, <1>6, <1>8, <1>9, <1>10, <1>11 DEF DjangoInv

\* What one lookup makes of its request.
LEMMA ConsultGoesOn ==
  ASSUME DjangoInv, NEW w \in Workers, req[w].pc # "idle",
         NEW to \in [Rows -> Ended \cup {"found"}], Consult(w, to)
  PROVE  \E f \in Finds(w, req[w].iss, req[w].client), r \in Requests :
           /\ cache' = [cache EXCEPT ![w][req[w].iss] = f[2]]
           /\ UNCHANGED <<tools, edits, seen>>
           /\ req' = [req EXCEPT ![w] = r]
           /\ req[w].iss \in Issuers /\ req[w].client \in Clients \cup {NoClient}
           /\ f[1] \in Rows \cup {Miss, Crash}
           /\ r.iss = req[w].iss /\ r.client = req[w].client /\ r.dep = req[w].dep
           /\ f[1] = Crash => r.pc = "crashed"
           /\ f[1] = Miss => r.pc = "refused"
           /\ f[1] \in Rows =>
                r.pc = to[f[1]] /\ r.tool = IF req[w].pc = "found" THEN req[w].tool ELSE f[1]
  <1> DEFINE old == req[w]
  <1>1. PICK f \in Finds(w, old.iss, old.client) :
          /\ cache' = [cache EXCEPT ![w][old.iss] = f[2]]
          /\ req' = [req EXCEPT ![w] =
               CASE f[1] = Crash -> [@ EXCEPT !.pc = "crashed"]
                 [] f[1] = Miss -> [@ EXCEPT !.pc = "refused"]
                 [] OTHER -> [@ EXCEPT !.pc = to[f[1]],
                                       !.tool = IF old.pc = "found" THEN old.tool ELSE f[1]]]
    BY DEF Consult
  <1>2. UNCHANGED <<tools, edits, seen>>
    BY DEF Consult
  <1>3. old \in Requests /\ old.iss \in Issuers /\ old.client \in Clients \cup {NoClient}
    BY DEF DjangoInv, Underway, Requests
  <1>4. f[1] \in Rows \cup {Miss, Crash}
    BY <1>1, <1>3, FindsKept
  <1> DEFINE r == CASE f[1] = Crash -> [old EXCEPT !.pc = "crashed"]
                    [] f[1] = Miss -> [old EXCEPT !.pc = "refused"]
                    [] OTHER -> [old EXCEPT !.pc = to[f[1]],
                                            !.tool = IF old.pc = "found" THEN old.tool ELSE f[1]]
  <1>5. req' = [req EXCEPT ![w] = r]
    BY <1>1, <1>3 DEF DjangoInv
  <1>6. /\ r \in Requests
        /\ r.iss = old.iss /\ r.client = old.client /\ r.dep = old.dep
        /\ f[1] = Crash => r.pc = "crashed"
        /\ f[1] = Miss => r.pc = "refused"
        /\ f[1] \in Rows => r.pc = to[f[1]] /\ r.tool = IF old.pc = "found" THEN old.tool ELSE f[1]
    <2> HIDE DEF old
    <2>1. CASE f[1] = Crash
      <3>1. r = [old EXCEPT !.pc = "crashed"]
        BY <2>1, RowsOK
      <3> QED BY <1>3, <2>1, <3>1, RowsOK DEF Requests, Ended
    <2>2. CASE f[1] = Miss
      <3>1. r = [old EXCEPT !.pc = "refused"]
        BY <2>2, RowsOK
      <3> QED BY <1>3, <2>2, <3>1, RowsOK DEF Requests, Ended
    <2>3. CASE f[1] \in Rows
      <3> DEFINE pc == to[f[1]]
                 tool == IF old.pc = "found" THEN old.tool ELSE f[1]
      <3>1. r = [old EXCEPT !.pc = pc, !.tool = tool]
        BY <2>3, RowType
      <3>2. pc \in Ended \cup {"found"} /\ tool \in Rows \cup {NoRow}
        BY <1>3, <2>3 DEF Requests
      <3>3. f[1] # Crash /\ f[1] # Miss
        BY <2>3, RowType
      <3> HIDE DEF pc, tool, r
      <3>4. /\ r \in Requests /\ r.iss = old.iss /\ r.client = old.client /\ r.dep = old.dep
            /\ r.pc = pc /\ r.tool = tool
        BY <1>3, <3>1, <3>2 DEF Requests
      <3> QED BY <3>3, <3>4 DEF pc, tool
    <2> QED BY <1>4, <2>1, <2>2, <2>3
  <1> QED BY <1>1, <1>2, <1>3, <1>4, <1>5, <1>6

LEMMA LoginKeeps ==
  ASSUME DjangoInv, NEW w \in Workers, Login(w)
  PROVE  DjangoInv'
  <1> DEFINE to == [row \in Rows |-> "redirected"]
  <1>1. req[w].pc = "login" /\ Consult(w, to) /\ to \in [Rows -> Ended \cup {"found"}]
    BY DEF Login, Ended
  <1>2. \A row \in Rows : to[row] = "redirected"
    OBVIOUS
  <1> HIDE DEF to
  <1>3. PICK f \in Finds(w, req[w].iss, req[w].client), r \in Requests :
          /\ cache' = [cache EXCEPT ![w][req[w].iss] = f[2]]
          /\ UNCHANGED <<tools, edits, seen>>
          /\ req' = [req EXCEPT ![w] = r]
          /\ req[w].iss \in Issuers /\ req[w].client \in Clients \cup {NoClient}
          /\ f[1] \in Rows \cup {Miss, Crash}
          /\ r.iss = req[w].iss /\ r.client = req[w].client
          /\ f[1] = Crash => r.pc = "crashed"
          /\ f[1] = Miss => r.pc = "refused"
          /\ f[1] \in Rows => r.pc = to[f[1]]
    BY <1>1, ConsultGoesOn
  <1>4. r.pc \in {"crashed", "refused", "redirected"} /\ (r.pc = "refused" => f[1] = Miss)
    BY <1>2, <1>3
  <1> QED BY <1>3, <1>4, ConsultKeeps DEF Ended

LEMMA RegistrationKeeps ==
  ASSUME DjangoInv, NEW w \in Workers, Registration(w)
  PROVE  DjangoInv'
  <1> DEFINE to == [row \in Rows |-> "found"]
  <1>1. req[w].pc = "launch" /\ Consult(w, to) /\ to \in [Rows -> Ended \cup {"found"}]
    BY DEF Registration
  <1>2. \A row \in Rows : to[row] = "found"
    OBVIOUS
  <1>a. req[w].client \in Clients
    BY <1>1 DEF DjangoInv, Underway
  <1> HIDE DEF to
  <1>3. PICK f \in Finds(w, req[w].iss, req[w].client), r \in Requests :
          /\ cache' = [cache EXCEPT ![w][req[w].iss] = f[2]]
          /\ UNCHANGED <<tools, edits, seen>>
          /\ req' = [req EXCEPT ![w] = r]
          /\ req[w].iss \in Issuers
          /\ f[1] \in Rows \cup {Miss, Crash}
          /\ r.iss = req[w].iss /\ r.client = req[w].client
          /\ f[1] = Crash => r.pc = "crashed"
          /\ f[1] = Miss => r.pc = "refused"
          /\ f[1] \in Rows =>
               r.pc = to[f[1]] /\ r.tool = IF req[w].pc = "found" THEN req[w].tool ELSE f[1]
    BY <1>1, ConsultGoesOn
  <1>4. /\ r.pc \in {"crashed", "refused", "found"}
        /\ r.pc = "refused" => f[1] = Miss
        /\ r.pc = "found" => f[1] \in Rows /\ r.tool = f[1]
    BY <1>1, <1>2, <1>3
  <1> QED BY <1>a, <1>3, <1>4, ConsultKeeps DEF Ended

\* The second lookup hits what the first one kept, whatever was saved in between.
LEMMA DeploymentKeeps ==
  ASSUME DjangoInv, NEW w \in Workers, Deployment(w)
  PROVE  DjangoInv'
  <1> DEFINE to == [row \in Rows |-> IF req[w].dep \in row.deps THEN "accepted" ELSE "refused"]
  <1>1. req[w].pc = "found" /\ Consult(w, to) /\ to \in [Rows -> Ended \cup {"found"}]
    BY DEF Deployment, Ended
  <1>2. \A row \in Rows : to[row] = IF req[w].dep \in row.deps THEN "accepted" ELSE "refused"
    OBVIOUS
  <1> HIDE DEF to
  <1>3. PICK f \in Finds(w, req[w].iss, req[w].client), r \in Requests :
          /\ cache' = [cache EXCEPT ![w][req[w].iss] = f[2]]
          /\ UNCHANGED <<tools, edits, seen>>
          /\ req' = [req EXCEPT ![w] = r]
          /\ req[w].iss \in Issuers
          /\ f[1] \in Rows \cup {Miss, Crash}
          /\ r.iss = req[w].iss /\ r.client = req[w].client /\ r.dep = req[w].dep
          /\ f[1] \in Rows =>
               r.pc = to[f[1]] /\ r.tool = IF req[w].pc = "found" THEN req[w].tool ELSE f[1]
    BY <1>1, ConsultGoesOn
  <1>4. /\ req[w].client \in Clients /\ req[w].tool \in Rows
        /\ cache[w][req[w].iss].is = "dict"
        /\ cache[w][req[w].iss].by[req[w].client] = req[w].tool
    BY <1>1 DEF DjangoInv, Underway
  <1>5. f[1] \in Rows /\ f[1] = req[w].tool
    <2> DEFINE slot == cache[w][req[w].iss]
    <2>1. slot.by[req[w].client] \in Rows /\ slot.by[req[w].client] # NoRow
      BY <1>4, RowType
    <2>0. /\ req[w].iss \in Issuers /\ req[w].client \in Clients
          /\ f \in Finds(w, req[w].iss, req[w].client)
      BY <1>3, <1>4
    <2> HIDE <1>3, <1>4
    <2>2. slot.is = "dict" /\ slot.by[req[w].client] \in Rows => f[1] \in Rows
      BY <2>0, FindsKept
    <2>3. f[1] \in Rows /\ slot.is = "dict" /\ slot.by[req[w].client] # NoRow =>
            f[1] = slot.by[req[w].client]
      BY <2>0, FindsKept
    <2> QED BY <1>4, <2>1, <2>2, <2>3
  <1>6. /\ r.pc \in {"accepted", "refused"} /\ r.tool = f[1]
        /\ r.pc = "accepted" => r.dep \in f[1].deps
        /\ r.pc = "refused" => r.dep \notin f[1].deps
    BY <1>1, <1>2, <1>3, <1>5
  <1> QED BY <1>3, <1>4, <1>5, <1>6, ConsultKeeps DEF Ended

LEMMA DjangoAlways == Spec => []DjangoInv
  <1>1. ASSUME DjangoInv, [Next]_vars
        PROVE  DjangoInv'
    <2>1. CASE UNCHANGED vars
      <3>1. TableInv' /\ CacheInv'
        BY <1>1, <2>1 DEF vars, DjangoInv, TableInv, CacheInv
      <3>2. \A w \in Workers : Underway(w)' /\ Judged(w)'
        BY <1>1, <2>1, OthersKept DEF vars
      <3> QED BY <1>1, <2>1, <3>1, <3>2 DEF vars, DjangoInv
    <2>2. CASE Next
      <3>1. CASE \E iss \in Issuers, c \in Clients, row \in Rows \cup {NoRow} :
                   (row # NoRow => row.client = c) /\ Edit(iss, c, row)
        BY <1>1, <3>1, EditKeeps
      <3>2. CASE \E w \in Workers, iss \in Issuers, d \in Deployments :
                   \/ \E c \in Clients : Arrive(w, "launch", iss, c, d)
                   \/ \E c \in Clients \cup {NoClient} : Arrive(w, "login", iss, c, d)
        BY <1>1, <3>2, ArriveKeeps
      <3>3. CASE \E w \in Workers : Login(w) \/ Registration(w) \/ Deployment(w)
        BY <1>1, <3>3, LoginKeeps, RegistrationKeeps, DeploymentKeeps
      <3> QED BY <2>2, <3>1, <3>2, <3>3 DEF Next
    <2> QED BY <1>1, <2>1, <2>2
  <1> QED BY <1>1, InitDjango, PTL DEF Spec

\* A launch is judged by one tool that the table held since the object was made, though
\* get_lti_tool is asked twice and the administrator saves in between: for any number
\* of saves, workers and tools, and whether or not objects outlive their requests.
THEOREM JudgedAsStored == Spec => []LaunchAsStored
  <1>1. DjangoInv => LaunchAsStored
    BY DEF DjangoInv, Judged, LaunchAsStored
  <1> QED BY <1>1, DjangoAlways, PTL
=============================================================================
