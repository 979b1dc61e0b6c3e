------------------------------- MODULE Tenants -------------------------------
(***************************************************************************)
(* The API and the slug index over one table of companies: what a request  *)
(* or an administrator does to a company may make an answer of the index   *)
(* wrong, and the index changes nothing of the tables.                     *)
(***************************************************************************)
EXTENDS Tenancy, SlugIndex

Next ==
    \/ TenancyNext /\ CompaniesChange
    \/ IndexNext /\ UNCHANGED <<row, tokens, requestVars, histories, saves>>

TenantsInit(rows, companies) == TenancyInit(rows, companies) /\ IndexInit

\* Over any tables.
TenantsSpec ==
    /\ TablesGiven(row, company) /\ TenantsInit(row, company)
    /\ [][Next]_<<tenancyVars, indexVars>>
=============================================================================
