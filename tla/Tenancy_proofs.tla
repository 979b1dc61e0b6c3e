--------------------------- MODULE Tenancy_proofs ---------------------------
(***************************************************************************)
(* What uses the table of companies: the API, over any tables and with any *)
(* requests; the slug index, over companies that change in any way; and    *)
(* the two together.                                                       *)
(***************************************************************************)
EXTENDS Tenants, TLAPS

\* How a request ends.
Ends == {"refused", "done", "failed"}

\* A step leaves what the request is and has.
SameRequest(q) ==
    /\ rq'[q] = rq[q] /\ op'[q] = op[q] /\ by'[q] = by[q]
    /\ obj'[q] = obj[q] /\ copy'[q] = copy[q]

\* A response ends its request and is nothing to the others.
LEMMA ResponseEnds ==
    ASSUME RequestsOK, NEW r \in Requests, NEW from, NEW to \in Ends,
           Respond(r, from, to)
    PROVE  /\ rq'[r] = to /\ op'[r] = "none"
           /\ \A q \in Requests \ {r} : SameRequest(q)
           /\ \A q \in Requests : rq'[q] = "have" => SameRequest(q)
           /\ \A q \in Requests : op'[q] \in OrganizerOps => SameRequest(q)
BY DEF RequestsOK, Respond, Goto, SameRequest, Ends, OrganizerOps, ObjectOps, Creations

LEMMA AfterResponse ==
    ASSUME RequestsOK, NEW r \in Requests, NEW from, NEW to \in Ends, Respond(r, from, to)
    PROVE  RequestsOK'
<1>1. /\ rq'[r] \notin {"permitted", "have"}
      /\ \A q \in Requests \ {r} : SameRequest(q)
  BY ResponseEnds DEF Ends
<1>2. ASSUME NEW q \in Requests, rq'[q] \in {"permitted", "have"}
      PROVE  q # r /\ SameRequest(q)
  BY <1>1, <1>2
<1>3. \A q \in Requests : rq'[q] = "have" => HasRead(q)'
  BY <1>2 DEF RequestsOK, HasRead, SameRequest
<1>4. \A q \in Requests : rq'[q] \in {"permitted", "have"} => by'[q] \in Users
  BY <1>2 DEF RequestsOK, SameRequest
<1>5. /\ DOMAIN rq' = Requests /\ DOMAIN op' = Requests /\ DOMAIN by' = Requests
      /\ DOMAIN obj' = Requests /\ DOMAIN copy' = Requests
  BY DEF RequestsOK, Respond, Goto
<1> QED
  BY <1>3, <1>4, <1>5 DEF RequestsOK

\* A step that leaves a request as it is leaves it what it has read.
LEMMA SameRequests ==
    ASSUME RequestsOK, UNCHANGED requestVars
    PROVE  RequestsOK' /\ \A q \in Requests : SameRequest(q)
BY DEF RequestsOK, HasRead, SameRequest, requestVars

\* A request is fresh as long as its object, and the company of its object, are
\* what they were: a step that touches what it changes keeps the others fresh.
LEMMA FreshKept ==
    ASSUME Fresh, stale \subseteq stale',
           \A q \in Requests : rq'[q] = "have" => SameRequest(q),
           \A q \in Requests \ stale' : rq[q] = "have" =>
              /\ row'[obj[q]] = row[obj[q]]
              /\ op[q] \in {"patch_event", "delete_event"} =>
                    company'[copy[q].company] = company[copy[q].company]
    PROVE  Fresh'
<1> SUFFICES ASSUME NEW q \in Requests \ stale', rq'[q] = "have"
             PROVE  UpToDate(q)'
  BY DEF Fresh
<1>1. SameRequest(q) /\ rq[q] = "have"
  BY DEF SameRequest
<1>2. UpToDate(q)
  BY <1>1 DEF Fresh
<1> QED
  BY <1>1, <1>2 DEF UpToDate, Exists, SameRequest

\* Nobody becomes an organizer again as long as no row says so, and as long as
\* neither a new request of an organizer nor a new copy is of one who is demoted.
LEMMA DemotionKept ==
    ASSUME DemotionInv, UNCHANGED <<demoted, early>>,
           \A u \in demoted : row'[u] # None => row'[u].role # "organizer",
           \A q \in Requests : op'[q] \in OrganizerOps =>
              SameRequest(q) \/ by'[q] \notin demoted,
           \A q \in Requests : rq'[q] = "have" =>
              \/ SameRequest(q)
              \/ obj'[q] \notin demoted
              \/ copy'[q].role # "organizer"
    PROVE  DemotionInv'
BY DEF DemotionInv, DemotionLasts, Exists, SameRequest

\* A step that leaves the tables alone.
LEMMA SameTables ==
    ASSUME TablesOK, UNCHANGED <<row, company, tokens>>
    PROVE  TablesOK'
BY DEF TablesOK, Exists, Saved

\* What the rows say of those who are demoted, in the step's first state.
LEMMA RowsOfDemoted ==
    ASSUME DemotionInv
    PROVE  \A u \in demoted : row[u] # None => row[u].role # "organizer"
BY DEF DemotionInv, DemotionLasts, Exists

-----------------------------------------------------------------------------
(***************************************************************************)
(* The steps of a request that write no table.                             *)
(***************************************************************************)

LEMMA RefusalStep ==
    ASSUME TenancyInv, NEW r \in Requests,
           NoOrganizer(r) \/ NoObject(r) \/ WriteFails(r) \/ CreateFails(r)
    PROVE  TenancyInv'
<1>1. /\ UNCHANGED <<row, company, tokens, stale, demoted, early>>
      /\ \E from, to \in {"idle", "permitted", "have"} \cup Ends :
            Respond(r, from, to) /\ to \in Ends
  BY DEF NoOrganizer, NoObject, WriteFails, CreateFails, Ends, histories
<1>2. TablesOK'
  BY <1>1, SameTables DEF TenancyInv
<1>3. RequestsOK'
  BY <1>1, AfterResponse DEF TenancyInv
<1>4. /\ \A q \in Requests : rq'[q] = "have" => SameRequest(q)
      /\ \A q \in Requests : op'[q] \in OrganizerOps => SameRequest(q)
  BY <1>1, ResponseEnds DEF TenancyInv
<1>5. Fresh'
  BY <1>1, <1>4, FreshKept DEF TenancyInv
<1>6. DemotionInv'
  BY <1>1, <1>4, RowsOfDemoted, DemotionKept DEF TenancyInv
<1> QED
  BY <1>2, <1>3, <1>5, <1>6 DEF TenancyInv

\* The user is an organizer in the table, so not demoted, and the request has no
\* object yet.
LEMMA BeginStep ==
    ASSUME TenancyInv, NEW r \in Requests, Begin(r)
    PROVE  TenancyInv'
<1> PICK o \in OrganizerOps \cup {"patch_company"}, u \in Users :
        /\ Exists(u)
        /\ o \in OrganizerOps => row[u].role = "organizer"
        /\ Goto(r, "idle", "permitted")
        /\ op' = [op EXCEPT ![r] = o]
        /\ by' = [by EXCEPT ![r] = u]
        /\ UNCHANGED <<row, company, tokens, obj, copy, histories, saves>>
  BY DEF Begin, IsOrganizer, Authenticated
<1>1. \A q \in Requests \ {r} : SameRequest(q)
  BY DEF TenancyInv, RequestsOK, Goto, SameRequest
<1>2. rq'[r] = "permitted" /\ by'[r] = u /\ op'[r] = o
  BY DEF TenancyInv, RequestsOK, Goto
<1>3. TablesOK'
  BY SameTables DEF TenancyInv
<1>4. \A q \in Requests : rq'[q] = "have" => SameRequest(q)
  BY <1>1, <1>2
<1>5. DemotionInv'
  <2>1. o \in OrganizerOps => u \notin demoted
    BY DEF TenancyInv, DemotionInv, DemotionLasts
  <2>2. UNCHANGED <<row, demoted, early>>
    BY DEF histories
  <2>3. \A q \in Requests : op'[q] \in OrganizerOps => SameRequest(q) \/ by'[q] \notin demoted
    BY <1>1, <1>2, <2>1
  <2> QED
    BY <1>4, <2>2, <2>3, RowsOfDemoted, DemotionKept DEF TenancyInv
<1>6. RequestsOK'
  <2>1. \A q \in Requests : rq'[q] = "have" => HasRead(q)'
    BY <1>4 DEF TenancyInv, RequestsOK, HasRead, SameRequest
  <2>2. \A q \in Requests : rq'[q] \in {"permitted", "have"} => by'[q] \in Users
    BY <1>1, <1>2 DEF TenancyInv, RequestsOK, SameRequest
  <2> QED
    BY <2>1, <2>2 DEF TenancyInv, RequestsOK, Goto
<1>7. Fresh'
  BY <1>4, FreshKept DEF TenancyInv, histories
<1> QED
  BY <1>3, <1>5, <1>6, <1>7 DEF TenancyInv

\* The profile is the row of the user, who exists.
LEMMA ProfileStep ==
    ASSUME TenancyInv, NEW r \in Requests, BeginProfile(r)
    PROVE  TenancyInv'
<1> PICK u \in Users :
        /\ Exists(u)
        /\ Goto(r, "idle", "have")
        /\ op' = [op EXCEPT ![r] = "patch_profile"]
        /\ by' = [by EXCEPT ![r] = u]
        /\ obj' = [obj EXCEPT ![r] = u]
        /\ copy' = [copy EXCEPT ![r] = row[u]]
        /\ UNCHANGED <<row, company, tokens, histories, saves>>
  BY DEF BeginProfile, Authenticated
<1>1. \A q \in Requests \ {r} : SameRequest(q)
  BY DEF TenancyInv, RequestsOK, Goto, SameRequest
<1>2. /\ rq'[r] = "have" /\ by'[r] = u /\ op'[r] = "patch_profile"
      /\ obj'[r] = u /\ copy'[r] = row[u]
  BY DEF TenancyInv, RequestsOK, Goto
<1>3. TablesOK'
  BY SameTables DEF TenancyInv
<1>4. Exists(u) /\ row[u] \in UserRow
  BY DEF TenancyInv, TablesOK
<1>5. DemotionInv'
  <2>1. op'[r] \notin OrganizerOps
    BY <1>2 DEF OrganizerOps, ObjectOps, Creations
  <2>2. u \in demoted => copy'[r].role # "organizer"
    BY <1>2, <1>4 DEF TenancyInv, DemotionInv, DemotionLasts
  <2>3. UNCHANGED <<row, demoted, early>>
    BY DEF histories
  <2> QED
    BY <1>1, <1>2, <2>1, <2>2, <2>3, RowsOfDemoted, DemotionKept DEF TenancyInv
<1>6. RequestsOK'
  <2>1. HasRead(r)'
    BY <1>2, <1>4 DEF HasRead
  <2>2. \A q \in Requests : rq'[q] = "have" => HasRead(q)'
    BY <1>1, <2>1 DEF TenancyInv, RequestsOK, HasRead, SameRequest
  <2>3. \A q \in Requests : rq'[q] \in {"permitted", "have"} => by'[q] \in Users
    BY <1>1, <1>2 DEF TenancyInv, RequestsOK, SameRequest
  <2> QED
    BY <2>2, <2>3 DEF TenancyInv, RequestsOK, Goto
<1>7. Fresh'
  <2>1. UpToDate(r)'
    BY <1>2, <1>4 DEF UpToDate, Exists
  <2>2. \A q \in Requests \ stale : q # r /\ rq'[q] = "have" => UpToDate(q)'
    BY <1>1 DEF TenancyInv, Fresh, UpToDate, Exists, SameRequest
  <2> QED
    BY <2>1, <2>2 DEF Fresh, histories
<1> QED
  BY <1>3, <1>5, <1>6, <1>7 DEF TenancyInv

\* The querysets give the request an object of its table, and an event only if
\* its company is the user's.
LEMMA FindStep ==
    ASSUME TenancyInv, NEW r \in Requests, FindObject(r)
    PROVE  TenancyInv'
<1> PICK x \in MayPatch(r) :
        /\ obj' = [obj EXCEPT ![r] = x]
        /\ copy' = [copy EXCEPT ![r] = row[x]]
  BY DEF FindObject
<1>0. /\ Goto(r, "permitted", "have")
      /\ UNCHANGED <<row, company, tokens, op, by, stale, demoted, early>>
  BY DEF FindObject, histories
<1>1. \A q \in Requests \ {r} : SameRequest(q)
  BY <1>0 DEF TenancyInv, RequestsOK, Goto, SameRequest
<1>2. /\ rq[r] = "permitted" /\ rq'[r] = "have" /\ by'[r] = by[r] /\ op'[r] = op[r]
      /\ obj'[r] = x /\ copy'[r] = row[x]
  BY <1>0 DEF TenancyInv, RequestsOK, Goto
<1>3. TablesOK'
  BY <1>0, SameTables DEF TenancyInv
<1>4. /\ Exists(x)
      /\ \/ /\ op[r] \in {"patch_event", "delete_event"}
            /\ x \in Events /\ company[row[x].company].owner = by[r]
         \/ op[r] \in {"patch_tier", "delete_tier"} /\ x \in Tiers
  BY DEF MayPatch, OwnEvents, AnyTiers
<1>5. DemotionInv'
  <2>1. x \notin demoted
    BY <1>4, TenancyAssumption DEF TenancyInv, DemotionInv
  <2>2. \A q \in Requests : rq'[q] = "have" => SameRequest(q) \/ obj'[q] \notin demoted
    BY <1>1, <1>2, <2>1
  <2>3. DemotionLasts'
    BY <1>0 DEF TenancyInv, DemotionInv, DemotionLasts, Exists
  <2> QED
    BY <1>0, <2>2, <2>3 DEF TenancyInv, DemotionInv, SameRequest
<1>6. RequestsOK'
  <2>1. HasRead(r)'
    BY <1>2, <1>4 DEF TenancyInv, TablesOK, HasRead
  <2>2. \A q \in Requests : rq'[q] = "have" => HasRead(q)'
    BY <1>1, <2>1 DEF TenancyInv, RequestsOK, HasRead, SameRequest
  <2>3. \A q \in Requests : rq'[q] \in {"permitted", "have"} => by'[q] \in Users
    BY <1>1, <1>2 DEF TenancyInv, RequestsOK, SameRequest
  <2> QED
    BY <1>0, <2>2, <2>3 DEF TenancyInv, RequestsOK, Goto
<1>7. Fresh'
  <2>1. UpToDate(r)'
    BY <1>0, <1>2, <1>4 DEF UpToDate, Exists
  <2>2. \A q \in Requests \ stale : q # r /\ rq'[q] = "have" => UpToDate(q)'
    BY <1>0, <1>1 DEF TenancyInv, Fresh, UpToDate, Exists, SameRequest
  <2> QED
    BY <1>0, <2>1, <2>2 DEF Fresh
<1> QED
  BY <1>3, <1>5, <1>6, <1>7 DEF TenancyInv

-----------------------------------------------------------------------------
(***************************************************************************)
(* The steps that write the tables.                                        *)
(***************************************************************************)

\* x is the object of a table, and new a row that table may have.
RowFits(x, new) ==
    \/ x \in Users /\ new \in UserRow
    \/ x \in Events /\ new \in EventRow /\ new.company \in Saved
    \/ x \in Tiers /\ new \in TierRow

LEMMA RowWritten ==
    ASSUME TablesOK, NEW x, NEW new, RowFits(x, new),
           row' = [row EXCEPT ![x] = new],
           UNCHANGED company, tokens' \in [Users -> SUBSET UserRole]
    PROVE  /\ TablesOK'
           /\ row'[x] = new /\ new # None
           /\ \A y \in Users \cup Events \cup Tiers : y # x => row'[y] = row[y]
<1>1. new # None /\ new \in UserRow \cup EventRow \cup TierRow
  BY TenancyAssumption DEF RowFits
<1>2. x \in Users \cup Events \cup Tiers
  BY DEF RowFits
<1>3. /\ row'[x] = new
      /\ \A y \in Users \cup Events \cup Tiers : y # x => row'[y] = row[y]
  BY <1>2 DEF TablesOK
<1>4. Saved' = Saved
  BY DEF Saved
<1>5. row' \in [Users \cup Events \cup Tiers ->
                   UserRow \cup EventRow \cup TierRow \cup {None}]
  BY <1>1 DEF TablesOK
<1>6. \A u \in Users : row'[u] # None => row'[u] \in UserRow
  BY <1>3, TenancyAssumption DEF TablesOK, RowFits, Exists
<1>7. \A e \in Events : row'[e] # None => row'[e] \in EventRow /\ row'[e].company \in Saved
  BY <1>3, TenancyAssumption DEF TablesOK, RowFits, Exists
<1>8. \A t \in Tiers : row'[t] # None => row'[t] \in TierRow
  BY <1>3, TenancyAssumption DEF TablesOK, RowFits, Exists
<1>9. TablesOK'
  BY <1>4, <1>5, <1>6, <1>7, <1>8 DEF TablesOK, Exists
<1> QED
  BY <1>1, <1>3, <1>9

\* Of what a request has, that is a row of a table, a write touches its own.
LEMMA FreshWritten ==
    ASSUME TenancyInv, NEW x, NEW new, RowFits(x, new),
           row' = [row EXCEPT ![x] = new],
           \/ Touch({x})
           \/ ~Exists(x) /\ UNCHANGED stale,
           UNCHANGED company,
           \A q \in Requests : rq'[q] = "have" => SameRequest(q)
    PROVE  Fresh'
<1>1. \A q \in Requests : rq[q] = "have" => obj[q] \in Users \cup Events \cup Tiers
  BY DEF TenancyInv, RequestsOK, HasRead
<1>2. stale \subseteq stale'
  BY DEF Touch
<1>3. \A q \in Requests \ stale' : rq[q] = "have" => obj[q] # x
  BY DEF Touch, Holding, TenancyInv, Fresh, UpToDate
<1>4. \A q \in Requests \ stale' : rq[q] = "have" => row'[obj[q]] = row[obj[q]]
  BY <1>1, <1>3 DEF TenancyInv, TablesOK
<1> QED
  BY <1>2, <1>4, FreshKept DEF TenancyInv

\* The row a request saves is of the table of its object.
LEMMA AskedFits ==
    ASSUME TenancyInv, NEW r \in Requests, rq[r] = "have",
           op[r] \notin {"delete_event", "delete_tier"}, NEW new \in AskedFor(r)
    PROVE  /\ RowFits(obj[r], new)
           /\ op[r] \in PatchOps
           /\ op[r] = "patch_profile" => new = copy[r]
           /\ op[r] = "patch_event" => new.company = copy[r].company
           /\ op[r] = "patch_tier" => new.held = copy[r].held
           /\ op[r] # "patch_profile" => obj[r] \in Events \cup Tiers
<1>1. HasRead(r)
  BY DEF TenancyInv, RequestsOK
<1>2. CASE op[r] = "patch_profile"
  BY <1>1, <1>2 DEF HasRead, AskedFor, RowFits, PatchOps
<1>3. CASE op[r] = "patch_event"
  <2>1. /\ obj[r] \in Events /\ copy[r] \in EventRow /\ new.company \in Saved
        /\ \E s \in Statuses : new = [copy[r] EXCEPT !.status = s]
    BY <1>1, <1>3 DEF HasRead, AskedFor, AskedOfEvent
  <2>2. new \in EventRow /\ new.company = copy[r].company
    BY <2>1, TenancyAssumption DEF EventRow
  <2> QED
    BY <1>3, <2>1, <2>2 DEF RowFits, PatchOps
<1>4. CASE op[r] = "patch_tier"
  <2>1. /\ obj[r] \in Tiers /\ copy[r] \in TierRow
        /\ \E e \in Events : new = [copy[r] EXCEPT !.event = e]
    BY <1>1, <1>4 DEF HasRead, AskedFor, AskedOfTier
  <2>2. new \in TierRow /\ new.held = copy[r].held
    BY <2>1 DEF TierRow
  <2> QED
    BY <1>4, <2>1, <2>2 DEF RowFits, PatchOps
<1> QED
  BY <1>1, <1>2, <1>3, <1>4 DEF HasRead

\* A stale request may bring a row back, but not to one who is demoted: no request
\* has read that he is an organizer.
LEMMA SaveStep ==
    ASSUME TenancyInv, NEW r \in Requests, SaveObject(r)
    PROVE  TenancyInv'
<1> PICK new \in AskedFor(r) : row' = [row EXCEPT ![obj[r]] = new]
  BY DEF SaveObject
<1>0. /\ Respond(r, "have", "done") /\ rq[r] = "have"
      /\ op[r] \notin {"delete_event", "delete_tier"}
      /\ Touch({obj[r]})
      /\ UNCHANGED <<company, tokens, demoted, early>>
  BY DEF SaveObject, Respond, Goto
<1>1. /\ RowFits(obj[r], new)
      /\ op[r] = "patch_profile" => new = copy[r]
      /\ op[r] # "patch_profile" => obj[r] \in Events \cup Tiers
  BY <1>0, AskedFits
<1>2. tokens' \in [Users -> SUBSET UserRole]
  BY <1>0 DEF TenancyInv, TablesOK
<1>3. /\ TablesOK' /\ row'[obj[r]] = new
      /\ \A y \in Users \cup Events \cup Tiers : y # obj[r] => row'[y] = row[y]
  BY <1>0, <1>1, <1>2, RowWritten DEF TenancyInv
<1>4. RequestsOK'
  BY <1>0, AfterResponse DEF TenancyInv, Ends
<1>5. /\ \A q \in Requests : rq'[q] = "have" => SameRequest(q)
      /\ \A q \in Requests : op'[q] \in OrganizerOps => SameRequest(q)
  BY <1>0, ResponseEnds DEF TenancyInv, Ends
<1>6. Fresh'
  BY <1>0, <1>1, <1>5, FreshWritten
<1>7. DemotionInv'
  <2>1. ASSUME NEW u \in demoted, row'[u] # None
        PROVE  row'[u].role # "organizer"
    <3>1. CASE u = obj[r]
      <4>1. op[r] = "patch_profile"
        BY <1>1, <3>1, TenancyAssumption DEF TenancyInv, DemotionInv
      <4> QED
        BY <1>0, <1>1, <1>3, <3>1, <4>1 DEF TenancyInv, DemotionInv
    <3>2. CASE u # obj[r]
      BY <1>3, <2>1, <3>2 DEF TenancyInv, DemotionInv, DemotionLasts, Exists
    <3> QED
      BY <3>1, <3>2
  <2> QED
    BY <1>0, <1>5, <2>1, DemotionKept DEF TenancyInv
<1> QED
  BY <1>3, <1>4, <1>6, <1>7 DEF TenancyInv

\* A cascade takes rows away and leaves the others as they are; the events that it
\* leaves have companies that it leaves.
LEMMA Deleted ==
    ASSUME TenancyInv, NEW x, Delete(x),
           UNCHANGED <<tokens, demoted, early>>,
           \A q \in Requests : rq'[q] = "have" => SameRequest(q),
           \A q \in Requests : op'[q] \in OrganizerOps => SameRequest(q)
    PROVE  TablesOK' /\ Fresh' /\ DemotionInv'
<1> DEFINE gone == GoneWith(x)
<1>1. /\ row' = [y \in DOMAIN row |-> IF y \in gone THEN None ELSE row[y]]
      /\ company' = [c \in DOMAIN company |-> IF c = x THEN None ELSE company[c]]
      /\ stale' = stale \cup {q \in Requests : \E y \in gone : Holding(q, y)}
  BY DEF Delete, Touch
<1>2. \A e \in Events : Exists(e) /\ e \notin gone => row[e].company # x
  BY DEF GoneWith, AnyEvents
<1> HIDE DEF gone
<1>3. /\ DOMAIN row = Users \cup Events \cup Tiers
      /\ DOMAIN company = Companies
  BY DEF TenancyInv, TablesOK
<1>4. /\ \A y \in Users \cup Events \cup Tiers :
            row'[y] = IF y \in gone THEN None ELSE row[y]
      /\ \A c \in Companies : c # x => company'[c] = company[c]
  BY <1>1, <1>3
<1>5. TablesOK'
  <2>1. row' \in [Users \cup Events \cup Tiers ->
                    UserRow \cup EventRow \cup TierRow \cup {None}]
    BY <1>1, <1>3 DEF TenancyInv, TablesOK
  <2>2. /\ \A u \in Users : row'[u] # None => row'[u] \in UserRow
        /\ \A t \in Tiers : row'[t] # None => row'[t] \in TierRow
    BY <1>4 DEF TenancyInv, TablesOK, Exists
  <2>3. ASSUME NEW e \in Events, row'[e] # None
        PROVE  row'[e] \in EventRow /\ row'[e].company \in Saved'
    <3>1. Exists(e) /\ e \notin gone /\ row'[e] = row[e]
      BY <1>4, <2>3 DEF Exists
    <3>2. row[e] \in EventRow /\ row[e].company \in Saved /\ row[e].company # x
      BY <1>2, <3>1 DEF TenancyInv, TablesOK
    <3> QED
      BY <1>4, <3>1, <3>2 DEF Saved
  <2>4. company' \in [Companies -> CompanyRow \cup {None}]
    BY <1>1, <1>3 DEF TenancyInv, TablesOK
  <2> QED
    BY <2>1, <2>2, <2>3, <2>4 DEF TenancyInv, TablesOK, Exists
<1>6. Fresh'
  <2>1. ASSUME NEW q \in Requests \ stale', rq[q] = "have"
        PROVE  /\ row'[obj[q]] = row[obj[q]]
               /\ op[q] \in {"patch_event", "delete_event"} =>
                     company'[copy[q].company] = company[copy[q].company]
    <3>1. /\ obj[q] \notin gone /\ UpToDate(q) /\ HasRead(q)
          /\ obj[q] \in Users \cup Events \cup Tiers
      BY <1>1, <2>1 DEF Holding, TenancyInv, Fresh, RequestsOK, HasRead
    <3>2. row'[obj[q]] = row[obj[q]]
      BY <1>4, <3>1
    <3>3. CASE op[q] \in {"patch_event", "delete_event"}
      <4>1. obj[q] \in Events /\ copy[q] \in EventRow
        BY <3>1, <3>3 DEF HasRead
      <4>2. copy[q].company \in Companies /\ copy[q].company # x
        BY <1>2, <3>1, <4>1 DEF UpToDate, EventRow
      <4> QED
        BY <1>4, <3>2, <4>2
    <3> QED
      BY <3>2, <3>3
  <2> QED
    BY <1>1, <2>1, FreshKept DEF TenancyInv
<1>7. DemotionInv'
  <2>1. \A u \in demoted : row'[u] # None => row'[u].role # "organizer"
    BY <1>4, RowsOfDemoted DEF TenancyInv, DemotionInv
  <2> QED
    BY <2>1, DemotionKept DEF TenancyInv
<1> QED
  BY <1>5, <1>6, <1>7

LEMMA DeleteStep ==
    ASSUME TenancyInv, NEW r \in Requests, DeleteObject(r)
    PROVE  TenancyInv'
<1>1. /\ Respond(r, "have", "done")
      /\ Delete(obj[r]) /\ UNCHANGED <<tokens, demoted, early>>
  BY DEF DeleteObject
<1>2. /\ \A q \in Requests : rq'[q] = "have" => SameRequest(q)
      /\ \A q \in Requests : op'[q] \in OrganizerOps => SameRequest(q)
  BY <1>1, ResponseEnds DEF TenancyInv, Ends
<1>3. TablesOK' /\ Fresh' /\ DemotionInv'
  BY <1>1, <1>2, Deleted
<1>4. RequestsOK'
  BY <1>1, AfterResponse DEF TenancyInv, Ends
<1> QED
  BY <1>3, <1>4 DEF TenancyInv

\* The other tables when only the companies change, and none of them goes.
LEMMA CompanyWritten ==
    ASSUME TablesOK, company' \in [Companies -> CompanyRow \cup {None}],
           Saved \subseteq Saved', UNCHANGED <<row, tokens>>
    PROVE  TablesOK'
BY DEF TablesOK, Exists

LEMMA CreateCompanyStep ==
    ASSUME TenancyInv, NEW r \in Requests, CreateCompany(r)
    PROVE  TenancyInv'
<1>1. /\ Respond(r, "permitted", "done") /\ by[r] \in Users
      /\ NewCompany(by[r], Companies \ (Saved \cup deleted))
      /\ UNCHANGED <<row, tokens, stale, demoted, early>>
  BY DEF CreateCompany, Respond, Goto, TenancyInv, RequestsOK, histories
<1>2. PICK c \in Companies \ Saved, new \in CompanyRow :
        company' = [company EXCEPT ![c] = new]
  BY <1>1 DEF NewCompany, SaveCompany, CompanyRow
<1>3. /\ company' \in [Companies -> CompanyRow \cup {None}]
      /\ Saved \subseteq Saved'
      /\ \A d \in Saved : company'[d] = company[d]
  BY <1>2 DEF TenancyInv, TablesOK, Saved
<1>4. TablesOK'
  BY <1>1, <1>3, CompanyWritten DEF TenancyInv
<1>5. RequestsOK'
  BY <1>1, AfterResponse DEF TenancyInv, Ends
<1>6. /\ \A q \in Requests : rq'[q] = "have" => SameRequest(q)
      /\ \A q \in Requests : op'[q] \in OrganizerOps => SameRequest(q)
  BY <1>1, ResponseEnds DEF TenancyInv, Ends
<1>7. Fresh'
  <2>1. \A q \in Requests \ stale' :
          rq[q] = "have" /\ op[q] \in {"patch_event", "delete_event"} =>
             copy[q].company \in Saved
    BY <1>1 DEF TenancyInv, RequestsOK, HasRead, Fresh, UpToDate, TablesOK
  <2> QED
    BY <1>1, <1>3, <1>6, <2>1, FreshKept DEF TenancyInv
<1>8. DemotionInv'
  BY <1>1, <1>6, RowsOfDemoted, DemotionKept DEF TenancyInv
<1> QED
  BY <1>4, <1>5, <1>7, <1>8 DEF TenancyInv

LEMMA CreateTierStep ==
    ASSUME TenancyInv, NEW r \in Requests, CreateTier(r)
    PROVE  TenancyInv'
<1>1. /\ Respond(r, "permitted", "done")
      /\ UNCHANGED <<company, tokens, stale, demoted, early>>
  BY DEF CreateTier, histories
<1>2. PICK t \in Tiers \ AnyTiers, e \in Events :
        row' = [row EXCEPT ![t] = [event |-> e, held |-> 0]]
  BY DEF CreateTier, AnyEvents
<1> DEFINE new == [event |-> e, held |-> 0]
<1>3. RowFits(t, new) /\ ~Exists(t)
  BY <1>2 DEF RowFits, TierRow, AnyTiers
<1>4. tokens' \in [Users -> SUBSET UserRole]
  BY <1>1 DEF TenancyInv, TablesOK
<1> HIDE DEF new
<1>5. /\ TablesOK'
      /\ \A y \in Users \cup Events \cup Tiers : y # t => row'[y] = row[y]
  BY <1>1, <1>2, <1>3, <1>4, RowWritten DEF TenancyInv, new
<1>6. RequestsOK'
  BY <1>1, AfterResponse DEF TenancyInv, Ends
<1>7. /\ \A q \in Requests : rq'[q] = "have" => SameRequest(q)
      /\ \A q \in Requests : op'[q] \in OrganizerOps => SameRequest(q)
  BY <1>1, ResponseEnds DEF TenancyInv, Ends
<1>8. Fresh'
  BY <1>1, <1>2, <1>3, <1>7, FreshWritten DEF new
<1>9. DemotionInv'
  <2>1. \A u \in demoted : row'[u] = row[u]
    BY <1>5, TenancyAssumption DEF TenancyInv, DemotionInv
  <2> QED
    BY <1>1, <1>7, <2>1, RowsOfDemoted, DemotionKept DEF TenancyInv
<1> QED
  BY <1>5, <1>6, <1>8, <1>9 DEF TenancyInv

\* What others write of one row, and touch.
LEMMA OtherRowStep ==
    ASSUME TenancyInv, NEW x, NEW new, RowFits(x, new),
           row' = [row EXCEPT ![x] = new],
           \/ Touch({x})
           \/ ~Exists(x) /\ UNCHANGED stale,
           UNCHANGED <<company, tokens, requestVars>>
    PROVE  /\ TablesOK' /\ RequestsOK' /\ Fresh'
           /\ \A q \in Requests : SameRequest(q)
           /\ row'[x] = new
           /\ \A y \in Users \cup Events \cup Tiers : y # x => row'[y] = row[y]
<1>1. tokens' \in [Users -> SUBSET UserRole]
  BY DEF TenancyInv, TablesOK
<1>2. /\ TablesOK' /\ row'[x] = new
      /\ \A y \in Users \cup Events \cup Tiers : y # x => row'[y] = row[y]
  BY <1>1, RowWritten DEF TenancyInv
<1>3. RequestsOK' /\ \A q \in Requests : SameRequest(q)
  BY SameRequests DEF TenancyInv
<1>4. Fresh'
  BY <1>3, FreshWritten
<1> QED
  BY <1>2, <1>3, <1>4

\* The same, where those who are demoted are none of it.
LEMMA OtherRowKeeps ==
    ASSUME TenancyInv, NEW x, NEW new, RowFits(x, new),
           row' = [row EXCEPT ![x] = new],
           \/ Touch({x})
           \/ ~Exists(x) /\ UNCHANGED stale,
           UNCHANGED <<company, tokens, requestVars, demoted, early>>,
           x \in Users => new.role # "organizer"
    PROVE  TenancyInv'
<1>1. /\ TablesOK' /\ RequestsOK' /\ Fresh'
      /\ \A q \in Requests : SameRequest(q)
      /\ row'[x] = new
      /\ \A y \in Users \cup Events \cup Tiers : y # x => row'[y] = row[y]
  BY OtherRowStep
<1>2. \A u \in demoted : row'[u] # None => row'[u].role # "organizer"
  BY <1>1, RowsOfDemoted DEF TenancyInv, DemotionInv
<1>3. DemotionInv'
  BY <1>1, <1>2, DemotionKept DEF TenancyInv
<1> QED
  BY <1>1, <1>3 DEF TenancyInv

\* The administrator who takes the role makes the user one of the demoted, if no
\* request has read it; the requests under way are early from then on.
LEMMA RoleStep ==
    ASSUME TenancyInv, NEW u \in Users, NEW ro \in UserRole, AdminSavesRole(u, ro)
    PROVE  TenancyInv'
<1> DEFINE new == [row[u] EXCEPT !.role = ro]
<1>1. /\ Exists(u) /\ Touch({u}) /\ row[u].role # ro
      /\ row' = [row EXCEPT ![u].role = ro]
      /\ demoted' = Demoted(u, ro)
      /\ early' = early \cup {r \in Requests : by[r] = u /\ row[u].role = "organizer"}
      /\ UNCHANGED <<company, tokens, requestVars>>
  BY DEF AdminSavesRole, Counted
<1>2. RowFits(u, new) /\ row' = [row EXCEPT ![u] = new] /\ new.role = ro
  BY <1>1 DEF TenancyInv, TablesOK, RowFits, UserRow
<1> HIDE DEF new
<1>3. /\ TablesOK' /\ RequestsOK' /\ Fresh'
      /\ \A q \in Requests : SameRequest(q)
      /\ row'[u] = new
      /\ \A y \in Users \cup Events \cup Tiers : y # u => row'[y] = row[y]
  BY <1>1, <1>2, OtherRowStep
<1>4. /\ demoted' \subseteq demoted \cup {u}
      /\ u \in demoted' => ro # "organizer"
      /\ u \in demoted' \ demoted =>
            row[u].role = "organizer" /\ \A r \in Requests : ~Holding(r, u)
  BY <1>1 DEF Demoted
<1>5. DemotionInv'
  <2>1. demoted' \subseteq Users
    BY <1>4 DEF TenancyInv, DemotionInv
  <2>2. ASSUME NEW v \in demoted'
        PROVE  /\ row'[v] # None => row'[v].role # "organizer"
               /\ \A r \in Requests : by'[r] = v /\ op'[r] \in OrganizerOps => r \in early'
               /\ \A r \in Requests :
                     rq'[r] = "have" /\ obj'[r] = v => copy'[r].role # "organizer"
    <3>1. CASE v \in demoted
      <4>1. /\ row[v] # None => row[v].role # "organizer"
            /\ \A r \in Requests : by[r] = v /\ op[r] \in OrganizerOps => r \in early
            /\ \A r \in Requests :
                  rq[r] = "have" /\ obj[r] = v => copy[r].role # "organizer"
        BY <3>1 DEF TenancyInv, DemotionInv, DemotionLasts, Exists
      <4>2. row'[v] # None => row'[v].role # "organizer"
        BY <1>2, <1>3, <1>4, <2>1, <4>1
      <4> QED
        BY <1>1, <1>3, <4>1, <4>2 DEF SameRequest
    <3>2. CASE v \notin demoted
      <4>1. v = u /\ row'[u].role # "organizer"
        BY <1>2, <1>3, <1>4, <3>2
      <4>2. row[u].role = "organizer" /\ \A r \in Requests : ~Holding(r, u)
        BY <1>4, <3>2, <4>1
      <4> QED
        BY <1>1, <1>3, <4>1, <4>2 DEF SameRequest, Holding
    <3> QED
      BY <3>1, <3>2
  <2> QED
    BY <2>1, <2>2 DEF DemotionInv, DemotionLasts, Exists
<1> QED
  BY <1>3, <1>5 DEF TenancyInv

LEMMA UserStep ==
    ASSUME TenancyInv, Known, NEW u \in Users,
           \/ Register(u) \/ Login(u)
           \/ \E ro \in UserRole : AdminSavesRole(u, ro) \/ AdminAddsUser(u, ro)
    PROVE  TenancyInv'
<1>1. CASE Register(u)
  <2>1. RowFits(u, NewUser) /\ NewUser.role # "organizer"
    BY DEF RowFits, NewUser, UserRow, UserRole
  <2> QED
    BY <1>1, <2>1, OtherRowKeeps DEF Register, histories
<1>2. CASE Login(u)
  <2>1. /\ tokens' = [tokens EXCEPT ![u] = @ \cup {row[u].role}] /\ Exists(u)
        /\ UNCHANGED <<row, company, requestVars, stale, demoted, early>>
    BY <1>2 DEF Login, histories
  <2>2. row[u].role \in UserRole
    BY <2>1 DEF TenancyInv, TablesOK, UserRow
  <2>3. TablesOK'
    BY <2>1, <2>2 DEF TenancyInv, TablesOK, Exists, Saved
  <2>4. RequestsOK' /\ \A q \in Requests : SameRequest(q)
    BY <2>1, SameRequests DEF TenancyInv
  <2>5. Fresh'
    BY <2>1, <2>4, FreshKept DEF TenancyInv
  <2>6. DemotionInv'
    BY <2>1, <2>4, RowsOfDemoted, DemotionKept DEF TenancyInv
  <2> QED
    BY <2>3, <2>4, <2>5, <2>6 DEF TenancyInv
<1>3. ASSUME NEW ro \in UserRole, AdminAddsUser(u, ro)
      PROVE  TenancyInv'
  <2> DEFINE new == [role |-> ro]
  <2>1. /\ ~Exists(u) /\ u \notin demoted
        /\ row' = [row EXCEPT ![u] = new]
        /\ UNCHANGED <<company, tokens, requestVars, stale, demoted, early>>
    BY <1>3 DEF AdminAddsUser, Known, Counted, histories
  <2>2. RowFits(u, new)
    BY DEF RowFits, UserRow
  <2> HIDE DEF new
  <2>3. /\ TablesOK' /\ RequestsOK' /\ Fresh'
        /\ \A q \in Requests : SameRequest(q)
        /\ \A y \in Users \cup Events \cup Tiers : y # u => row'[y] = row[y]
    BY <2>1, <2>2, OtherRowStep
  <2>4. \A v \in demoted : row'[v] = row[v]
    BY <2>1, <2>3 DEF TenancyInv, DemotionInv
  <2>5. DemotionInv'
    BY <2>1, <2>3, <2>4, RowsOfDemoted, DemotionKept DEF TenancyInv
  <2> QED
    BY <2>3, <2>5 DEF TenancyInv
<1> QED
  BY <1>1, <1>2, <1>3, RoleStep

LEMMA AdminStep ==
    ASSUME TenancyInv,
           \/ AdminSavesOneCompany
           \/ \E e \in Events : AdminSavesEvent(e)
           \/ \E t \in Tiers : AdminSavesTier(t)
           \/ \E x \in Present : AdminDeletes(x)
    PROVE  TenancyInv'
<1>1. CASE AdminSavesOneCompany
  <2>1. /\ UNCHANGED <<row, tokens, requestVars, demoted, early>>
        /\ Touch({e \in AnyEvents(None) :
                    company'[row[e].company] # company[row[e].company]})
    BY <1>1 DEF AdminSavesOneCompany, Counted
  <2>2. PICK c \in Saved, new \in CompanyRow : company' = [company EXCEPT ![c] = new]
    BY <1>1 DEF AdminSavesOneCompany, AdminSavesCompany, SaveCompany, CompanyRow
  <2>3. /\ company' \in [Companies -> CompanyRow \cup {None}]
        /\ Saved' = Saved
    BY <2>2, CompaniesAssumption DEF TenancyInv, TablesOK, Saved
  <2>4. TablesOK'
    BY <2>1, <2>3, CompanyWritten DEF TenancyInv
  <2>5. RequestsOK' /\ \A q \in Requests : SameRequest(q)
    BY <2>1, SameRequests DEF TenancyInv
  <2>6. ASSUME NEW q \in Requests \ stale', rq[q] = "have",
               op[q] \in {"patch_event", "delete_event"}
        PROVE  company'[copy[q].company] = company[copy[q].company]
    <3>1. q \notin stale /\ UpToDate(q) /\ obj[q] \in Events
      BY <2>1, <2>6 DEF Touch, TenancyInv, Fresh, RequestsOK, HasRead
    <3>2. obj[q] \in AnyEvents(None) /\ copy[q] = row[obj[q]]
      BY <3>1 DEF UpToDate, AnyEvents
    <3> QED
      BY <2>1, <2>6, <3>2 DEF Touch, Holding
  <2>7. Fresh'
    BY <2>1, <2>5, <2>6, FreshKept DEF TenancyInv, Touch
  <2>8. DemotionInv'
    BY <2>1, <2>5, RowsOfDemoted, DemotionKept DEF TenancyInv
  <2> QED
    BY <2>4, <2>5, <2>7, <2>8 DEF TenancyInv
<1>2. ASSUME NEW e \in Events, AdminSavesEvent(e)
      PROVE  TenancyInv'
  <2>1. PICK c \in Saved, s \in Statuses :
          row' = [row EXCEPT ![e] = [company |-> c, status |-> s]]
    BY <1>2 DEF AdminSavesEvent
  <2>2. RowFits(e, [company |-> c, status |-> s]) /\ e \notin Users
    BY TenancyAssumption DEF RowFits, EventRow, Saved
  <2> QED
    BY <1>2, <2>1, <2>2, OtherRowKeeps DEF AdminSavesEvent, Counted
<1>3. ASSUME NEW t \in Tiers, AdminSavesTier(t)
      PROVE  TenancyInv'
  <2>1. PICK e \in AnyEvents(None), n \in 0..MaxPlaces :
          row' = [row EXCEPT ![t] = [event |-> e, held |-> n]]
    BY <1>3 DEF AdminSavesTier
  <2>2. e \in Events /\ n \in Nat
    BY TenancyAssumption DEF AnyEvents
  <2>3. RowFits(t, [event |-> e, held |-> n]) /\ t \notin Users
    BY <2>2, TenancyAssumption DEF RowFits, TierRow
  <2> QED
    BY <1>3, <2>1, <2>3, OtherRowKeeps DEF AdminSavesTier, Counted
<1>4. ASSUME NEW x \in Present, AdminDeletes(x)
      PROVE  TenancyInv'
  <2>1. Delete(x) /\ UNCHANGED <<tokens, requestVars, demoted, early>>
    BY <1>4 DEF AdminDeletes, Counted
  <2>2. RequestsOK' /\ \A q \in Requests : SameRequest(q)
    BY <2>1, SameRequests DEF TenancyInv
  <2> QED
    BY <2>1, <2>2, Deleted DEF TenancyInv
<1> QED
  BY <1>1, <1>2, <1>3, <1>4

\* Whatever count a hold writes, it is a row of a tier.
LEMMA HoldsStep ==
    ASSUME TenancyInv, NEW t \in Tiers, HoldTakes(t) \/ HoldGivesBack(t)
    PROVE  TenancyInv'
<1>1. /\ Exists(t) /\ Touch({t})
      /\ UNCHANGED <<company, tokens, requestVars, demoted, early>>
  BY DEF HoldTakes, HoldGivesBack
<1>2. row[t] \in TierRow
  BY <1>1 DEF TenancyInv, TablesOK
<1>3. PICK n \in Nat : row' = [row EXCEPT ![t].held = n]
  BY <1>2, TenancyAssumption DEF HoldTakes, HoldGivesBack, TierRow
<1> DEFINE new == [row[t] EXCEPT !.held = n]
<1>4. RowFits(t, new) /\ row' = [row EXCEPT ![t] = new]
  BY <1>2, <1>3 DEF RowFits, TierRow
<1>5. t \notin Users
  BY TenancyAssumption
<1> HIDE DEF new
<1> QED
  BY <1>1, <1>4, <1>5, OtherRowKeeps

\* A row of a user goes only with Delete, which remembers it.
LEMMA KnownStep ==
    ASSUME TenancyInv, Known, [TenancyNext]_tenancyVars
    PROVE  Known'
<1>1. ASSUME UNCHANGED <<row, demoted, deleted>>
      PROVE  Known'
  BY <1>1 DEF Known, Exists
<1>2. ASSUME NEW x, NEW new, RowFits(x, new), row' = [row EXCEPT ![x] = new],
             deleted' = deleted, demoted' \subseteq demoted \cup {x}
      PROVE  Known'
  <2>1. new # None /\ x \in DOMAIN row
    BY <1>2, TenancyAssumption DEF RowFits, TenancyInv, TablesOK
  <2> QED
    BY <1>2, <2>1 DEF Known, Exists, TenancyInv, DemotionInv, TablesOK
<1>3. ASSUME NEW x, Delete(x), demoted' = demoted
      PROVE  Known'
  <2>1. \A u \in demoted : u \in DOMAIN row
    BY DEF TenancyInv, DemotionInv, TablesOK
  <2> QED
    BY <1>3, <2>1 DEF Known, Exists, Delete
<1>4. ASSUME NEW r \in Requests, RequestStep(r)
      PROVE  Known'
  <2>1. CASE \/ Begin(r) \/ NoOrganizer(r) \/ BeginProfile(r) \/ FindObject(r)
             \/ NoObject(r) \/ WriteFails(r) \/ CreateCompany(r) \/ CreateFails(r)
    BY <1>1, <2>1 DEF Begin, NoOrganizer, BeginProfile, FindObject, NoObject,
       WriteFails, CreateCompany, CreateFails, histories
  <2>2. CASE SaveObject(r)
    <3>1. PICK new \in AskedFor(r) : row' = [row EXCEPT ![obj[r]] = new]
      BY <2>2 DEF SaveObject
    <3>2. RowFits(obj[r], new)
      BY <2>2, AskedFits DEF SaveObject, Respond, Goto
    <3> QED
      BY <1>2, <2>2, <3>1, <3>2 DEF SaveObject
  <2>3. CASE DeleteObject(r)
    BY <1>3, <2>3 DEF DeleteObject
  <2>4. CASE CreateTier(r)
    <3>1. PICK t \in Tiers, e \in Events :
            row' = [row EXCEPT ![t] = [event |-> e, held |-> 0]]
      BY <2>4 DEF CreateTier, AnyEvents
    <3>2. RowFits(t, [event |-> e, held |-> 0])
      BY DEF RowFits, TierRow
    <3> QED
      BY <1>2, <2>4, <3>1, <3>2 DEF CreateTier, histories
  <2> QED
    BY <1>4, <2>1, <2>2, <2>3, <2>4 DEF RequestStep
<1>5. ASSUME NEW u \in Users, NEW ro \in UserRole,
             \/ Register(u) \/ Login(u) \/ AdminSavesRole(u, ro) \/ AdminAddsUser(u, ro)
      PROVE  Known'
  <2>1. CASE Register(u)
    <3>1. RowFits(u, NewUser)
      BY DEF RowFits, NewUser, UserRow, UserRole
    <3> QED
      BY <1>2, <2>1, <3>1 DEF Register, histories
  <2>2. CASE Login(u)
    BY <1>1, <2>2 DEF Login, histories
  <2>3. CASE AdminSavesRole(u, ro)
    <3>1. RowFits(u, [row[u] EXCEPT !.role = ro])
      BY <2>3 DEF AdminSavesRole, TenancyInv, TablesOK, RowFits, UserRow
    <3>2. demoted' \subseteq demoted \cup {u}
      BY <2>3 DEF AdminSavesRole, Demoted
    <3> QED
      BY <1>2, <2>3, <3>1, <3>2 DEF AdminSavesRole
  <2>4. CASE AdminAddsUser(u, ro)
    <3>1. RowFits(u, [role |-> ro])
      BY DEF RowFits, UserRow
    <3> QED
      BY <1>2, <2>4, <3>1 DEF AdminAddsUser, histories
  <2> QED
    BY <1>5, <2>1, <2>2, <2>3, <2>4
<1>6. CASE AdminSavesOneCompany
  BY <1>1, <1>6 DEF AdminSavesOneCompany
<1>7. ASSUME NEW e \in Events, AdminSavesEvent(e)
      PROVE  Known'
  <2>1. PICK c \in Saved, s \in Statuses :
          row' = [row EXCEPT ![e] = [company |-> c, status |-> s]]
    BY <1>7 DEF AdminSavesEvent
  <2>2. RowFits(e, [company |-> c, status |-> s])
    BY TenancyAssumption DEF RowFits, EventRow, Saved
  <2> QED
    BY <1>2, <1>7, <2>1, <2>2 DEF AdminSavesEvent
<1>8. ASSUME NEW t \in Tiers, AdminSavesTier(t) \/ HoldTakes(t) \/ HoldGivesBack(t)
      PROVE  Known'
  <2>1. deleted' = deleted /\ demoted' = demoted
    BY <1>8 DEF AdminSavesTier, HoldTakes, HoldGivesBack
  <2>2. \A u \in demoted : row'[u] = row[u]
    BY <1>8, TenancyAssumption
       DEF AdminSavesTier, HoldTakes, HoldGivesBack, TenancyInv, DemotionInv, TablesOK
  <2> QED
    BY <2>1, <2>2 DEF Known, Exists
<1>9. ASSUME NEW x \in Present, AdminDeletes(x)
      PROVE  Known'
  BY <1>3, <1>9 DEF AdminDeletes
<1>10. CASE UNCHANGED tenancyVars
  BY <1>1, <1>10 DEF tenancyVars, histories
<1> QED
  BY <1>4, <1>5, <1>6, <1>7, <1>8, <1>9, <1>10 DEF TenancyNext, OthersStep, UserRole

-----------------------------------------------------------------------------
(***************************************************************************)
(* The theorems of the API.                                                *)
(***************************************************************************)

LEMMA FirstTables ==
    TablesGiven(row, company) /\ TenancyInit(row, company) => TenancyInv /\ Known
<1> SUFFICES ASSUME TablesGiven(row, company), TenancyInit(row, company)
             PROVE  TenancyInv /\ Known
  OBVIOUS
<1>1. TablesOK
  BY DEF TablesGiven, TenancyInit, TablesOK, Exists, Saved, EventRow
<1>2. RequestsOK /\ Fresh /\ DemotionInv /\ Known
  BY DEF TenancyInit, Known, RequestsOK, Fresh, DemotionInv, DemotionLasts
<1> QED
  BY <1>1, <1>2 DEF TenancyInv

LEMMA TenancyAlways == TenancySpec => []TenancyInv
<1>1. TenancyInv /\ Known /\ [TenancyNext]_tenancyVars => TenancyInv'
  <2> SUFFICES ASSUME TenancyInv, Known, [TenancyNext]_tenancyVars
               PROVE  TenancyInv'
    OBVIOUS
  <2>1. ASSUME NEW r \in Requests, RequestStep(r)
        PROVE  TenancyInv'
    BY <2>1, RefusalStep, BeginStep, ProfileStep, FindStep, SaveStep, DeleteStep,
       CreateCompanyStep, CreateTierStep DEF RequestStep
  <2>2. CASE OthersStep
    BY <2>2, UserStep, AdminStep, HoldsStep DEF OthersStep
  <2>3. CASE UNCHANGED tenancyVars
    <3>1. UNCHANGED <<row, company, tokens, requestVars, stale, demoted, early>>
      BY <2>3 DEF tenancyVars, histories
    <3>2. TablesOK'
      BY <3>1, SameTables DEF TenancyInv
    <3>3. RequestsOK' /\ \A q \in Requests : SameRequest(q)
      BY <3>1, SameRequests DEF TenancyInv
    <3>4. Fresh'
      BY <3>1, <3>3, FreshKept DEF TenancyInv
    <3>5. DemotionInv'
      BY <3>1, <3>3, RowsOfDemoted, DemotionKept DEF TenancyInv
    <3> QED
      BY <3>2, <3>3, <3>4, <3>5 DEF TenancyInv
  <2> QED
    BY <2>1, <2>2, <2>3 DEF TenancyNext
<1>2. TenancyInv /\ Known /\ [TenancyNext]_tenancyVars => Known'
  BY KnownStep
<1> QED
  BY <1>1, <1>2, FirstTables, PTL DEF TenancySpec

\* DemotionLasts: neither an old token nor a later update gives back a role that was
\* taken away while no profile update was under way.
THEOREM DemotionHolds == TenancySpec => []DemotionLasts
<1>1. TenancyInv => DemotionLasts
  BY DEF TenancyInv, DemotionInv
<1> QED
  BY <1>1, TenancyAlways, PTL

\* The steps that end a request that has its object, other than by an error.
LEMMA WhoIsDone ==
    ASSUME TenancyInv, [TenancyNext]_tenancyVars, NEW r \in Requests,
           rq[r] = "have", rq'[r] = "done"
    PROVE  SaveObject(r) \/ DeleteObject(r)
<1>1. ~(rq' = rq)
  BY DEF RequestsOK
<1>2. ~OthersStep
  BY <1>1 DEF OthersStep, Register, Login, AdminSavesRole, AdminSavesOneCompany,
              AdminAddsUser, AdminSavesEvent, AdminSavesTier, AdminDeletes, HoldTakes, HoldGivesBack,
              Counted, requestVars
<1>3. PICK q \in Requests : RequestStep(q)
  BY <1>1, <1>2 DEF TenancyNext, tenancyVars, requestVars
<1>4. q = r
  <2> SUFFICES ASSUME q # r
               PROVE  rq'[r] = rq[r]
    OBVIOUS
  <2>1. \E from, to \in {"idle", "permitted", "have", "done", "refused", "failed"} :
           rq' = [rq EXCEPT ![q] = to]
    BY <1>3 DEF RequestStep, Begin, NoOrganizer, BeginProfile, FindObject, NoObject,
                SaveObject, WriteFails, DeleteObject, CreateCompany, CreateFails,
                CreateTier, Respond, Goto
  <2> QED
    BY <2>1 DEF TenancyInv, RequestsOK
<1>5. ~(\/ Begin(r) \/ NoOrganizer(r) \/ BeginProfile(r) \/ FindObject(r)
        \/ NoObject(r) \/ CreateCompany(r) \/ CreateFails(r) \/ CreateTier(r))
  BY DEF Begin, NoOrganizer, BeginProfile, FindObject, NoObject, CreateCompany,
         CreateFails, CreateTier, Respond, Goto
<1>6. ~WriteFails(r)
  BY DEF WriteFails, Respond, Goto, TenancyInv, RequestsOK
<1> QED
  BY <1>3, <1>4, <1>5, <1>6 DEF RequestStep

\* SavesOnlyWhatWasAsked: a save by a request that is not stale changes no column
\* that it was not asked to change.
THEOREM SavesNothingElse == TenancySpec => SavesOnlyWhatWasAsked
<1> DEFINE OnlyAsked ==
      \A r \in Requests \ stale :
         rq[r] = "have" /\ rq'[r] = "done" /\ op[r] \in PatchOps =>
            /\ Exists(obj[r])
            /\ op[r] = "patch_profile" => row'[obj[r]] = row[obj[r]]
            /\ op[r] = "patch_event" => row'[obj[r]].company = row[obj[r]].company
            /\ op[r] = "patch_tier" => row'[obj[r]].held = row[obj[r]].held
<1>1. ASSUME TenancyInv, [TenancyNext]_tenancyVars, NEW r \in Requests \ stale,
             rq[r] = "have", rq'[r] = "done", op[r] \in PatchOps
      PROVE  /\ Exists(obj[r])
             /\ op[r] = "patch_profile" => row'[obj[r]] = row[obj[r]]
             /\ op[r] = "patch_event" => row'[obj[r]].company = row[obj[r]].company
             /\ op[r] = "patch_tier" => row'[obj[r]].held = row[obj[r]].held
  <2>1. SaveObject(r)
    BY <1>1, WhoIsDone DEF DeleteObject, PatchOps
  <2>2. PICK new \in AskedFor(r) : row' = [row EXCEPT ![obj[r]] = new]
    BY <2>1 DEF SaveObject
  <2>3. op[r] \notin {"delete_event", "delete_tier"}
    BY <2>1 DEF SaveObject
  <2>4. /\ op[r] = "patch_profile" => new = copy[r]
        /\ op[r] = "patch_event" => new.company = copy[r].company
        /\ op[r] = "patch_tier" => new.held = copy[r].held
    BY <1>1, <2>3, AskedFits
  <2>5. Exists(obj[r]) /\ copy[r] = row[obj[r]]
    BY <1>1 DEF TenancyInv, Fresh, UpToDate
  <2>6. row'[obj[r]] = new
    BY <1>1, <2>2 DEF TenancyInv, TablesOK, RequestsOK, HasRead
  <2> QED
    BY <2>4, <2>5, <2>6
<1>2. TenancyInv /\ [TenancyNext]_tenancyVars => [OnlyAsked]_tenancyVars
  BY <1>1
<1> QED
  BY <1>2, TenancyAlways, PTL DEF TenancySpec, SavesOnlyWhatWasAsked

\* TenantsApart: a request that is not stale saves and deletes only events of the
\* companies of its user.
THEOREM TenantsStayApart == TenancySpec => TenantsApart
<1> DEFINE OwnCompany ==
      \A r \in Requests \ stale :
         rq[r] = "have" /\ rq'[r] = "done" /\ op[r] \in {"patch_event", "delete_event"} =>
            company[row[obj[r]].company].owner = by[r]
<1>1. ASSUME TenancyInv, NEW r \in Requests \ stale, rq[r] = "have",
             op[r] \in {"patch_event", "delete_event"}
      PROVE  company[row[obj[r]].company].owner = by[r]
  BY <1>1 DEF TenancyInv, Fresh, UpToDate
<1>2. TenancyInv /\ [TenancyNext]_tenancyVars => [OwnCompany]_tenancyVars
  BY <1>1
<1> QED
  BY <1>2, TenancyAlways, PTL DEF TenancySpec, TenantsApart

-----------------------------------------------------------------------------
(***************************************************************************)
(* The slug index, for any slugs, calls and life of a key.                 *)
(***************************************************************************)

\* A slug resolves to a company or to nothing.
LEMMA ResolvedType == \A s \in Slugs : ActiveBySlug(s) \in Companies \cup {None}
BY DEF ActiveBySlug, Saved

\* A step that leaves the table alone leaves what the slugs resolve to.
LEMMA SameTable ==
    ASSUME UNCHANGED company
    PROVE  \A s \in Slugs : ActiveBySlug(s)' = ActiveBySlug(s)
BY DEF ActiveBySlug, Saved

\* The invariant holds at first, and no read, write, tick, invalidation or change
\* of a company breaks it.
LEMMA IndexAlways == IndexSpec => []IndexInv
<1>1. IndexInit => IndexInv
  BY IndexAssumption DEF IndexInit, IndexInv, IndexTypeOK, StaleIsBounded
<1>2. IndexInv /\ [IndexNext \/ CompaniesChange]_<<indexVars, company>> => IndexInv'
  <2> SUFFICES ASSUME IndexInv, [IndexNext \/ CompaniesChange]_<<indexVars, company>>
               PROVE  IndexInv'
    OBVIOUS
  <2> USE IndexAssumption DEF IndexInv, IndexTypeOK, StaleIsBounded
  <2>1. ASSUME NEW l \in Lookups, LookupReads(l)
        PROVE  IndexInv'
    BY <2>1, ResolvedType, SameTable DEF LookupReads
  <2>2. ASSUME NEW l \in Lookups, WarmReads(l)
        PROVE  IndexInv'
    BY <2>2, ResolvedType, SameTable DEF WarmReads
  <2>3. ASSUME NEW l \in Lookups, SetsEntry(l)
        PROVE  IndexInv'
    BY <2>3, SameTable DEF SetsEntry
  <2>4. ASSUME NEW l \in Lookups, LookupDies(l)
        PROVE  IndexInv'
    BY <2>4, SameTable DEF LookupDies
  <2>5. CASE InvalidateSlug
    BY <2>5, SameTable DEF InvalidateSlug, DeletesEntry
  <2>6. CASE IndexTick
    BY <2>6, SameTable DEF IndexTick
  <2>7. CASE CompaniesChange
    BY <2>7 DEF CompaniesChange
  <2>8. CASE UNCHANGED <<indexVars, company>>
    BY <2>8, SameTable DEF indexVars
  <2> QED
    BY <2>1, <2>2, <2>3, <2>4, <2>5, <2>6, <2>7, <2>8 DEF IndexNext
<1> QED
  BY <1>1, <1>2, PTL DEF IndexSpec

\* The index is wrong about a slug for one life of a key at most, counted from
\* the change of its company or from the write of what was read before it.
THEOREM WrongEntriesEnd == IndexSpec => []StaleIsBounded
<1>1. IndexInv => StaleIsBounded
  BY DEF IndexInv
<1> QED
  BY <1>1, IndexAlways, PTL

-----------------------------------------------------------------------------
(***************************************************************************)
(* Both over one table: what is proved of each holds of the two together.  *)
(***************************************************************************)

\* The API does the same with the index beside it, and the index sees changes
\* of companies of the kind it is proved for.
THEOREM TogetherAsApart == TenantsSpec => TenancySpec /\ IndexSpec
<1>1. /\ TablesGiven(row, company) /\ TenantsInit(row, company)
      => /\ TablesGiven(row, company) /\ TenancyInit(row, company)
         /\ IndexInit
  BY DEF TenantsInit
<1>2. [Next]_<<tenancyVars, indexVars>> => [TenancyNext]_tenancyVars
  <2>1. IndexNext => UNCHANGED company
    BY DEF IndexNext, LookupReads, WarmReads, SetsEntry, LookupDies, InvalidateSlug, IndexTick
  <2> QED
    BY <2>1 DEF Next, tenancyVars
<1>3. [Next]_<<tenancyVars, indexVars>> => [IndexNext \/ CompaniesChange]_<<indexVars, company>>
  BY DEF Next, tenancyVars
<1> QED
  BY <1>1, <1>2, <1>3, PTL DEF TenantsSpec, TenancySpec, IndexSpec

\* Every promise about requests, tables and answers, of the two together.
THEOREM TogetherRight ==
    TenantsSpec => /\ [](DemotionLasts /\ StaleIsBounded)
                   /\ SavesOnlyWhatWasAsked
                   /\ TenantsApart
<1> QED
  BY TogetherAsApart, DemotionHolds, SavesNothingElse, TenantsStayApart,
     WrongEntriesEnd, PTL
=============================================================================
