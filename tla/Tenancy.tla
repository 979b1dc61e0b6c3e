------------------------------ MODULE Tenancy ------------------------------
(***************************************************************************)
(* The API of users, companies, events and tiers: accounts.views,          *)
(* companies.views, events.views and inventory.views, with their           *)
(* serializers and core.permissions, called concurrently with one another, *)
(* with the admin site and with holds that take places of a tier.          *)
(*                                                                         *)
(* Requests are not transactions (no ATOMIC_REQUESTS).  A request loads    *)
(* its user, then the object, then saves it: Model.save writes every       *)
(* column as it was read, and inserts the row if there is none any more.   *)
(* Payments and tickets are not modelled here: what they protect           *)
(* (on_delete=PROTECT) is deleted or not.                                  *)
(***************************************************************************)
EXTENDS Companies

CONSTANTS
    Events, Tiers,
    Requests,       \* bound: requests
    Statuses,       \* bound: the statuses events are given
    MaxPlaces,      \* bound: places of a tier
    MaxSaves        \* bound: changes made by administrators

UserRole    == {"organizer", "staff", "attendee"}
EventStatus == {"draft", "published", "cancelled", "completed"}

UserRow  == [role : UserRole]
EventRow == [company : Companies, status : EventStatus]
TierRow  == [event : Events, held : Nat]

ASSUME TenancyAssumption ==
    /\ Users \cap Events = {} /\ Users \cap Tiers = {} /\ Events \cap Tiers = {}
    /\ Companies \cap (Users \cup Events \cup Tiers) = {}
    /\ None \notin UserRow \cup EventRow \cup TierRow
    /\ Statuses \subseteq EventStatus
    /\ MaxPlaces \in Nat
    /\ MaxSaves \in Nat

VARIABLES
    row,            \* the tables: user, event or tier -> its row, or None
    tokens,         \* user -> the roles that its tokens claim
    rq,             \* where each request stands
    op,             \* what it asks for
    by,             \* its user
    obj,            \* the object it is about
    copy,           \* the row of that object, as it read it
    stale,          \* history: requests that read what others changed since
    demoted,        \* history: users who are organizers no more; see Demoted
    early,          \* history: requests under way when their user was demoted
    deleted,        \* history: what was deleted; no new row has its uuid
    saves           \* changes made by administrators so far

requestVars == <<rq, op, by, obj, copy>>
histories   == <<stale, demoted, early, deleted>>
tenancyVars == <<row, company, tokens, requestVars, histories, saves>>

PatchOps  == {"patch_profile", "patch_event", "patch_tier"}
ObjectOps == {"patch_event", "delete_event", "patch_tier", "delete_tier"}
Creations == {"create_company", "create_event", "create_tier"}

\* Those for which get_permissions asks for an organizer.
OrganizerOps == ObjectOps \cup Creations

Exists(x) == row[x] # None

Holding(r, x) == rq[r] = "have" /\ obj[r] = x

\* A request that read one of these rows has read what is no longer true.
Touch(xs) == stale' = stale \cup {r \in Requests : \E x \in xs : Holding(r, x)}

Goto(r, from, to) ==
    /\ rq[r] = from
    /\ rq' = [rq EXCEPT ![r] = to]

\* The response; the request is forgotten.
Respond(r, from, to) ==
    /\ Goto(r, from, to)
    /\ op' = [op EXCEPT ![r] = "none"]
    /\ by' = [by EXCEPT ![r] = None]
    /\ obj' = [obj EXCEPT ![r] = None]
    /\ copy' = [copy EXCEPT ![r] = None]

-----------------------------------------------------------------------------
\* Mutant: the role is taken from the token.
ClaimsOrganizer(u, claim) == claim = "organizer"

\* "Re-checks DB role": request.user was loaded when the token was accepted.
IsOrganizer(u, claim) == row[u].role = "organizer"

\* JWTAuthentication: any token of a user who is in the table.
Authenticated(u, claim) == claim \in tokens[u] /\ Exists(u)

\* The request is authenticated and passes check_permissions.
Begin(r) ==
    \E o \in OrganizerOps \cup {"patch_company"}, u \in Users, claim \in UserRole :
        /\ Authenticated(u, claim)
        /\ o \in OrganizerOps => IsOrganizer(u, claim)
        /\ Goto(r, "idle", "permitted")
        /\ op' = [op EXCEPT ![r] = o]
        /\ by' = [by EXCEPT ![r] = u]
        /\ UNCHANGED <<row, company, tokens, obj, copy, histories, saves>>

\* 401 or 403: there is no such user any more, or no such organizer.
NoOrganizer(r) ==
    /\ \E u \in Users : \E claim \in tokens[u] :
          ~(Authenticated(u, claim) /\ IsOrganizer(u, claim))
    /\ Respond(r, "idle", "refused")
    /\ UNCHANGED <<row, company, tokens, histories, saves>>

\* ProfileView: the object is request.user.
BeginProfile(r) ==
    \E u \in Users, claim \in UserRole :
        /\ Authenticated(u, claim)
        /\ Goto(r, "idle", "have")
        /\ op' = [op EXCEPT ![r] = "patch_profile"]
        /\ by' = [by EXCEPT ![r] = u]
        /\ obj' = [obj EXCEPT ![r] = u]
        /\ copy' = [copy EXCEPT ![r] = row[u]]
        /\ UNCHANGED <<row, company, tokens, histories, saves>>

\* The choices of the field event of a tier, whoever asks.  As the queryset of
\* the events it is a mutant.
AnyEvents(u) == {e \in Events : Exists(e)}

\* OrganizerEventViewSet.get_queryset.
OwnEvents(u) == {e \in Events : Exists(e) /\ company[row[e].company].owner = u}

\* TicketTierViewSet.get_queryset, whoever asks.
AnyTiers == {t \in Tiers : Exists(t)}

\* Company has no attribute "company", and IsCompanyMember refuses all of them.
MayPatch(r) ==
    CASE op[r] \in {"patch_event", "delete_event"} -> OwnEvents(by[r])
      [] op[r] \in {"patch_tier", "delete_tier"}   -> AnyTiers
      [] OTHER                                     -> {}

\* get_object.
FindObject(r) ==
    /\ Goto(r, "permitted", "have")
    /\ \E x \in MayPatch(r) :
          /\ obj' = [obj EXCEPT ![r] = x]
          /\ copy' = [copy EXCEPT ![r] = row[x]]
    /\ UNCHANGED <<row, company, tokens, op, by, histories, saves>>

\* 404 or 403: not visible, or a company.
NoObject(r) ==
    /\ Respond(r, "permitted", "refused")
    /\ op[r] \notin Creations
    /\ UNCHANGED <<row, company, tokens, histories, saves>>

\* Mutant: company is not among the read_only_fields.
AskedWithCompany(r) ==
    {[company |-> c, status |-> s] : c \in Saved, s \in Statuses}

AskedOfEvent(r) == {[copy[r] EXCEPT !.status = s] : s \in Statuses}

\* The event of a tier is not read-only.
AskedOfTier(r) == {[copy[r] EXCEPT !.event = e] : e \in Events}

\* The row as the serializer makes it of the copy and of what is asked, as far as
\* the foreign keys let it in.
AskedFor(r) ==
    CASE op[r] = "patch_profile" -> {copy[r]}
      [] op[r] = "patch_event"   -> {new \in AskedOfEvent(r) : new.company \in Saved}
      [] op[r] = "patch_tier"    -> {new \in AskedOfTier(r) : Exists(new.event)}

\* instance.save().
SaveObject(r) ==
    /\ Respond(r, "have", "done")
    /\ op[r] \notin {"delete_event", "delete_tier"}
    /\ \E new \in AskedFor(r) : row' = [row EXCEPT ![obj[r]] = new]
    /\ Touch({obj[r]})
    /\ UNCHANGED <<company, tokens, demoted, early, deleted, saves>>

\* on_delete=CASCADE: the events of a company, and the tiers of an event.  The
\* members of a company and the holds are not modelled here.
GoneWith(x) ==
    LET events == {e \in AnyEvents(None) : x \in {e, row[e].company}}
        tiers  == {t \in AnyTiers : x = t \/ row[t].event \in events}
    IN  {x} \cup events \cup tiers

\* IntegrityError: the company of the event, or the event of the tier, is gone; or
\* the user is, and another has the e-mail address of the row to be inserted.
\* ProtectedError: what would be deleted has a tier for which there are tickets.
WriteFails(r) ==
    /\ Respond(r, "have", "failed")
    /\ \/ op[r] = "patch_event" /\ copy[r].company \notin Saved
       \/ op[r] = "patch_tier" /\ ~Exists(copy[r].event)
       \/ op[r] = "patch_profile" /\ ~Exists(obj[r])
       \/ op[r] \in {"delete_event", "delete_tier"} /\ GoneWith(obj[r]) \cap AnyTiers # {}
    /\ UNCHANGED <<row, company, tokens, histories, saves>>

Delete(x) ==
    /\ row' = [y \in DOMAIN row |-> IF y \in GoneWith(x) THEN None ELSE row[y]]
    /\ company' = [c \in DOMAIN company |-> IF c = x THEN None ELSE company[c]]
    /\ Touch(GoneWith(x))
    /\ deleted' = deleted \cup GoneWith(x)

\* instance.delete().
DeleteObject(r) ==
    /\ Respond(r, "have", "done")
    /\ op[r] \in {"delete_event", "delete_tier"}
    /\ Delete(obj[r])
    /\ UNCHANGED <<tokens, demoted, early, saves>>

CreateCompany(r) ==
    /\ Respond(r, "permitted", "done")
    /\ op[r] = "create_company"
    /\ Exists(by[r])
    /\ NewCompany(by[r], Companies \ (Saved \cup deleted))
    /\ UNCHANGED <<row, tokens, histories, saves>>

\* IntegrityError: the slug is another company's, or its owner is gone; or, whatever
\* is given, the event has no company, which is read-only and which perform_create
\* leaves out.
CreateFails(r) ==
    /\ Respond(r, "permitted", "failed")
    /\ \/ /\ op[r] = "create_company"
          /\ ~Exists(by[r]) \/ \E s \in Slugs : ~SlugIsFree(s, None)
       \/ op[r] = "create_event"
    /\ UNCHANGED <<row, company, tokens, histories, saves>>

CreateTier(r) ==
    /\ Respond(r, "permitted", "done")
    /\ op[r] = "create_tier"
    /\ \E t \in Tiers \ (AnyTiers \cup deleted), e \in AnyEvents(by[r]) :
          row' = [row EXCEPT ![t] = [event |-> e, held |-> 0]]
    /\ UNCHANGED <<company, tokens, histories, saves>>

RequestStep(r) ==
    \/ Begin(r) \/ NoOrganizer(r) \/ BeginProfile(r)
    \/ FindObject(r) \/ NoObject(r)
    \/ SaveObject(r) \/ WriteFails(r) \/ DeleteObject(r)
    \/ CreateCompany(r) \/ CreateFails(r) \/ CreateTier(r)

-----------------------------------------------------------------------------
Counted ==
    /\ saves < MaxSaves
    /\ saves' = saves + 1
    /\ UNCHANGED <<requestVars>>

\* create_user, with the default role.
NewUser == [role |-> "attendee"]

\* RegisterView; no field of the serializer is a role.
Register(u) ==
    /\ ~Exists(u) /\ u \notin deleted
    /\ row' = [row EXCEPT ![u] = NewUser]
    /\ UNCHANGED <<company, tokens, requestVars, histories, saves>>

\* create_superuser, or the form to add a user, with any role.
AdminAddsUser(u, ro) ==
    /\ Counted
    /\ ~Exists(u) /\ u \notin deleted
    /\ row' = [row EXCEPT ![u] = [role |-> ro]]
    /\ UNCHANGED <<company, tokens, histories>>

\* CustomTokenObtainPairSerializer.get_token.
Login(u) ==
    /\ Exists(u)
    /\ row[u].role \notin tokens[u]
    /\ tokens' = [tokens EXCEPT ![u] = @ \cup {row[u].role}]
    /\ UNCHANGED <<row, company, requestVars, histories, saves>>

\* Those from whom the role of an organizer was taken and not given back, while no
\* profile update was under way that had read it.
Demoted(u, ro) ==
    CASE ro = "organizer" -> demoted \ {u}
      [] row[u].role = "organizer" /\ ~\E r \in Requests : Holding(r, u) ->
            demoted \cup {u}
      [] OTHER -> demoted

AdminSavesRole(u, ro) ==
    /\ Counted
    /\ Exists(u) /\ row[u].role # ro
    /\ row' = [row EXCEPT ![u].role = ro]
    /\ Touch({u})
    /\ demoted' = Demoted(u, ro)
    /\ early' = early \cup {r \in Requests : by[r] = u /\ row[u].role = "organizer"}
    /\ UNCHANGED <<company, tokens, deleted>>

\* limit_choices_to: the form offers organizers as owners.
AdminSavesOneCompany ==
    /\ Counted
    /\ AdminSavesCompany({u \in Users : Exists(u) /\ row[u].role = "organizer"})
    /\ Touch({e \in AnyEvents(None) :
                company'[row[e].company] # company[row[e].company]})
    /\ UNCHANGED <<row, tokens, demoted, early, deleted>>

\* An event is added, moved, or given a status.
AdminSavesEvent(e) ==
    /\ Counted
    /\ Exists(e) \/ e \notin deleted
    /\ \E c \in Saved, s \in Statuses :
          /\ row[e] # [company |-> c, status |-> s]
          /\ row' = [row EXCEPT ![e] = [company |-> c, status |-> s]]
    /\ Touch({e})
    /\ UNCHANGED <<company, tokens, demoted, early, deleted>>

\* A tier is added, moved, or given a count.
AdminSavesTier(t) ==
    /\ Counted
    /\ Exists(t) \/ t \notin deleted
    /\ \E e \in AnyEvents(None), n \in 0..MaxPlaces :
          /\ row[t] # [event |-> e, held |-> n]
          /\ row' = [row EXCEPT ![t] = [event |-> e, held |-> n]]
    /\ Touch({t})
    /\ UNCHANGED <<company, tokens, demoted, early, deleted>>

Present == Saved \cup {x \in DOMAIN row : Exists(x)}

\* on_delete=PROTECT: nobody who owns a company is deleted.
AdminDeletes(x) ==
    /\ Counted
    /\ \A c \in Saved : company[c].owner # x
    /\ Delete(x)
    /\ UNCHANGED <<tokens, demoted, early>>

\* create_hold: places of the locked tier are taken, as many as are left.
HoldTakes(t) ==
    /\ Exists(t)
    /\ \E n \in row[t].held + 1 .. MaxPlaces : row' = [row EXCEPT ![t].held = n]
    /\ Touch({t})
    /\ UNCHANGED <<company, tokens, requestVars, demoted, early, deleted, saves>>

\* A release or a sweep writes what it computed of a count that it had read at any
\* time before, so whatever count the CHECK allows; which it is, Checkout says.
HoldGivesBack(t) ==
    /\ Exists(t)
    /\ \E n \in 0..MaxPlaces :
          n # row[t].held /\ row' = [row EXCEPT ![t].held = n]
    /\ Touch({t})
    /\ UNCHANGED <<company, tokens, requestVars, demoted, early, deleted, saves>>

OthersStep ==
    \/ \E u \in Users : \/ Register(u) \/ Login(u)
                        \/ \E ro \in UserRole :
                              AdminSavesRole(u, ro) \/ AdminAddsUser(u, ro)
    \/ AdminSavesOneCompany
    \/ \E e \in Events : AdminSavesEvent(e)
    \/ \E x \in Present : AdminDeletes(x)
    \/ \E t \in Tiers : AdminSavesTier(t) \/ HoldTakes(t) \/ HoldGivesBack(t)

TenancyNext == OthersStep \/ \E r \in Requests : RequestStep(r)

\* Nothing is asked for yet, of tables that are given.
TenancyInit(rows, companies) ==
    /\ row = rows
    /\ company = companies
    /\ tokens = [u \in Users |-> {}]
    /\ rq = [r \in Requests |-> "idle"]
    /\ op = [r \in Requests |-> "none"]
    /\ by = [r \in Requests |-> None]
    /\ obj = [r \in Requests |-> None]
    /\ copy = [r \in Requests |-> None]
    /\ stale = {} /\ demoted = {} /\ early = {} /\ deleted = {}
    /\ saves = 0

\* Tables as the migrations and the foreign keys allow them.
TablesGiven(rows, companies) ==
    /\ rows \in [Users \cup Events \cup Tiers ->
                    UserRow \cup EventRow \cup TierRow \cup {None}]
    /\ \A u \in Users : rows[u] \in UserRow \cup {None}
    /\ \A e \in Events : \/ rows[e] = None
                         \/ rows[e] \in EventRow /\ companies[rows[e].company] # None
    /\ \A t \in Tiers : \/ rows[t] = None
                        \/ rows[t] \in TierRow /\ rows[rows[t].event] # None
    /\ companies \in [Companies -> CompanyRow \cup {None}]
    /\ \A c \in Companies : \/ companies[c] = None
                            \/ rows[companies[c].owner] # None

\* The API by itself, over any tables.
TenancySpec ==
    /\ TablesGiven(row, company) /\ TenancyInit(row, company)
    /\ [][TenancyNext]_tenancyVars
-----------------------------------------------------------------------------
\* What was taken from an organizer no request gives back: from then on neither a
\* token that still claims the role, nor a profile update, nor a row inserted again
\* makes its user an organizer, and of the requests that organizers make only those
\* under way at the time go on (core/permissions.py:5, accounts/serializers.py:24-36).
\* A profile update that had read the role before does bring it back: see Demoted.
DemotionLasts ==
    \A u \in demoted :
        /\ Exists(u) => row[u].role # "organizer"
        /\ \A r \in Requests : by[r] = u /\ op[r] \in OrganizerOps => r \in early

\* A save writes back every column it read.  The role of a user, the company of
\* an event and the counters of a tier still change only by those who may change
\* them, and what was deleted stays so, unless they did that between the read
\* and the save of the request (accounts/views.py:21-26, events/views.py:42-50,
\* inventory/views.py:17-29).
SavesOnlyWhatWasAsked ==
    [][\A r \in Requests \ stale :
         rq[r] = "have" /\ rq'[r] = "done" /\ op[r] \in PatchOps =>
            /\ Exists(obj[r])
            /\ op[r] = "patch_profile" => row'[obj[r]] = row[obj[r]]
            /\ op[r] = "patch_event" => row'[obj[r]].company = row[obj[r]].company
            /\ op[r] = "patch_tier" => row'[obj[r]].held = row[obj[r]].held]_tenancyVars

\* "Organizer from Company A cannot see or modify Company B events": the event a
\* request saves or deletes is of a company its user owns, unless the event or
\* the company changed hands after the request had read them (events/views.py:42-46).
TenantsApart ==
    [][\A r \in Requests \ stale :
         rq[r] = "have" /\ rq'[r] = "done" /\ op[r] \in {"patch_event", "delete_event"} =>
            company[row[obj[r]].company].owner = by[r]]_tenancyVars

-----------------------------------------------------------------------------
\* The tables: an event keeps its company.
TablesOK ==
    /\ row \in [Users \cup Events \cup Tiers ->
                   UserRow \cup EventRow \cup TierRow \cup {None}]
    /\ \A u \in Users : Exists(u) => row[u] \in UserRow
    /\ \A e \in Events : Exists(e) => row[e] \in EventRow /\ row[e].company \in Saved
    /\ \A t \in Tiers : Exists(t) => row[t] \in TierRow
    /\ company \in [Companies -> CompanyRow \cup {None}]
    /\ tokens \in [Users -> SUBSET UserRole]

\* What a request that has its object has read: a row of the table it is about,
\* whatever became of that row.
HasRead(r) ==
    \/ /\ op[r] = "patch_profile"
       /\ obj[r] \in Users /\ copy[r] \in UserRow
    \/ /\ op[r] \in {"patch_event", "delete_event"}
       /\ obj[r] \in Events /\ copy[r] \in EventRow
    \/ /\ op[r] \in {"patch_tier", "delete_tier"}
       /\ obj[r] \in Tiers /\ copy[r] \in TierRow

RequestsOK ==
    /\ DOMAIN rq = Requests /\ DOMAIN op = Requests /\ DOMAIN by = Requests
    /\ DOMAIN obj = Requests /\ DOMAIN copy = Requests
    /\ \A r \in Requests : rq[r] \in {"permitted", "have"} => by[r] \in Users
    /\ \A r \in Requests : rq[r] = "have" => HasRead(r)

\* It has the row as it is, and an event it has is of a company of its user.
UpToDate(r) ==
    /\ Exists(obj[r])
    /\ copy[r] = row[obj[r]]
    /\ op[r] \in {"patch_event", "delete_event"} =>
          company[copy[r].company].owner = by[r]

Fresh == \A r \in Requests \ stale : rq[r] = "have" => UpToDate(r)

\* Of one who is demoted no request has read that he is an organizer.
DemotionInv ==
    /\ demoted \subseteq Users
    /\ DemotionLasts
    /\ \A r \in Requests :
          rq[r] = "have" /\ obj[r] \in demoted => copy[r].role # "organizer"

\* A user who is added is none of the demoted.
Known == \A u \in demoted : Exists(u) \/ u \in deleted

\* The inductive invariant, together with Known.
TenancyInv == TablesOK /\ RequestsOK /\ Fresh /\ DemotionInv
=============================================================================
