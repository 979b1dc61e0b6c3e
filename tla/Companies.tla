----------------------------- MODULE Companies -----------------------------
(***************************************************************************)
(* The rows of companies.models.Company: what the API and the admin site   *)
(* write of them, and what the others read.  A name is modelled by the     *)
(* slug that slugify makes of it; plan, colours and the like are left out. *)
(***************************************************************************)
EXTENDS Integers, FiniteSets

CONSTANTS
    Users,
    Companies,  \* identities of companies, used or not
    Slugs,
    None        \* a row that is not there

CompanyRow == [slug : Slugs, owner : Users, is_active : BOOLEAN]

ASSUME CompaniesAssumption == None \notin CompanyRow \cup Companies \cup Users

VARIABLE company    \* the table: company -> its row, or None

Saved == {c \in Companies : company[c] # None}

\* unique=True on the slug.
SlugIsFree(s, c) == \A d \in Saved \ {c} : company[d].slug # s

\* Company.save of a new or an old row.
SaveCompany(c, row) ==
    /\ SlugIsFree(row.slug, c)
    /\ company' = [company EXCEPT ![c] = row]

\* Company.objects.create(owner=owner, **validated_data), with a new uuid.
NewCompany(u, unused) ==
    \E c \in unused, s \in Slugs :
        SaveCompany(c, [slug |-> s, owner |-> u, is_active |-> TRUE])

\* The form of the admin site: name, slug, owner and is_active, any of them.
AdminSavesCompany(owners) ==
    \E c \in Saved, s \in Slugs, u \in owners, b \in BOOLEAN :
        /\ company[c] # [slug |-> s, owner |-> u, is_active |-> b]
        /\ SaveCompany(c, [slug |-> s, owner |-> u, is_active |-> b])

\* Company.objects.get(slug=slug, is_active=True), or None.
ActiveBySlug(s) ==
    LET found == {c \in Saved : company[c].slug = s /\ company[c].is_active} IN
    IF found = {} THEN None ELSE CHOOSE c \in found : TRUE
=============================================================================
