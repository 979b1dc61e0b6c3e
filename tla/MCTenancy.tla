------------------------------ MODULE MCTenancy ------------------------------
(***************************************************************************)
(* TLC's instance of the API and the slug index over one table of          *)
(* companies: an organizer with a company, its event and a tier, one or    *)
(* both of which are still to be made, a second organizer or one who is    *)
(* still to register, and room for a company more.                         *)
(***************************************************************************)
EXTENDS Tenants, TLC

CONSTANTS u1, u2, c1, c2, s1, e1, t1, r1, r2

RequestSymmetry == Permutations({r1, r2})

Organizer  == [role |-> "organizer"]
FirstEvent == [company |-> c1, status |-> "draft"]
FirstTier  == [event |-> e1, held |-> 0]

FirstRows(other, made) ==
    (u1 :> Organizer) @@ (u2 :> other)
    @@ (e1 :> IF "event" \in made THEN FirstEvent ELSE None)
    @@ (t1 :> IF "tier" \in made THEN FirstTier ELSE None)
Others == {Organizer, None}
Made   == {{}, {"event"}, {"event", "tier"}}

FirstCompanies ==
    (c1 :> [slug |-> s1, owner |-> u1, is_active |-> TRUE])
    @@ [c \in Companies |-> None]

ASSUME \A other \in Others, made \in Made :
          TablesGiven(FirstRows(other, made), FirstCompanies)

Init == \E other \in Others, made \in Made :
          TenantsInit(FirstRows(other, made), FirstCompanies)

Spec == Init /\ [][Next]_<<tenancyVars, indexVars>>
=============================================================================
