------------------------------ MODULE HoldRows ------------------------------
(***************************************************************************)
(* The rows of the tables checkout_hold and inventory_tier, and the        *)
(* queries over checkout_hold that the services and the properties use.    *)
(*                                                                         *)
(* A hold row keeps the columns the inventory depends on.  expires_at is   *)
(* time, and belongs to the modules in which time passes.  The hold_token  *)
(* (a fresh uuid4) identifies the row, so a table is a function from       *)
(* Tokens to rows, NoRow where no row was committed.                       *)
(***************************************************************************)
EXTENDS Integers, FiniteSets

CONSTANTS
    Tokens,      \* hold tokens, one per call of create_hold
    Users,
    Tiers,
    Events,
    EventOf,     \* TicketTier.event: tier -> event
    MaxHolds,    \* MAX_HOLDS_PER_USER_PER_EVENT
    NoRow        \* no committed row under this token

ASSUME RowsAssumption ==
    /\ IsFiniteSet(Tokens)
    /\ IsFiniteSet(Tiers)
    /\ EventOf \in [Tiers -> Events]
    /\ MaxHolds \in Nat \ {0}

Status == {"active", "expired", "confirmed", "released"}

Holds == [user : Users, tier : Tiers, quantity : Nat, status : Status]

ASSUME NoRowAssumption == NoRow \notin Holds

\* inventory_tier: the three counters.  PositiveIntegerField is a CHECK (>= 0)
\* in PostgreSQL, which is why they range over Nat.
TierRows == [total : Nat, held : Nat, sold : Nat]

Available(row) ==
    IF row.total - row.held - row.sold > 0
    THEN row.total - row.held - row.sold
    ELSE 0

IsActive(rows, h) == rows[h] # NoRow /\ rows[h].status = "active"

\* The active holds on a tier, of a user on a tier, and of a user on an event.
ActiveOn(rows, t) == {h \in Tokens : IsActive(rows, h) /\ rows[h].tier = t}

ActiveOfTier(rows, u, t) == {h \in ActiveOn(rows, t) : rows[h].user = u}

ActiveOf(rows, u, e) ==
    {h \in Tokens : /\ IsActive(rows, h)
                    /\ rows[h].user = u
                    /\ EventOf[rows[h].tier] = e}

TiersOf(e) == {t \in Tiers : EventOf[t] = e}

\* The places a set of holds keeps reserved: hold h of quantity q owns the
\* pairs <<h, 1>> .. <<h, q>>.  Their number is the sum of the quantities.
PlacesOf(rows, S) == UNION {{h} \X (1..rows[h].quantity) : h \in S}

Places(rows, t) == PlacesOf(rows, ActiveOn(rows, t))
=============================================================================
