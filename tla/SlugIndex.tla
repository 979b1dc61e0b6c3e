----------------------------- MODULE SlugIndex -----------------------------
(***************************************************************************)
(* companies.slug_index: the cache from slugs to companies.  A lookup      *)
(* reads the cache, then the table, then sets the key; a warm-up reads all *)
(* rows and then sets their keys one by one.  Anything may come between.   *)
(* No save of a company calls invalidate_slug: that, a warm-up and lookups *)
(* are calls anybody makes at any time.                                    *)
(***************************************************************************)
EXTENDS Companies

CONSTANTS
    Lookups,    \* bound: concurrent calls
    TTL         \* SLUG_CACHE_TTL, in ticks

ASSUME IndexAssumption == TTL \in Nat \ {0}

VARIABLES
    entry,      \* slug -> the company the cache names, or None
    left,       \* slug -> ticks until the key expires
    toSet,      \* lookup -> the keys it is still to set, with their companies
    outdated,   \* history: lookup -> slugs of those it read before a change
    grace       \* history: slug -> ticks for which the entry may still be wrong

indexVars == <<entry, left, toSet, outdated, grace>>

IndexInit ==
    /\ entry = [s \in Slugs |-> None]
    /\ left = [s \in Slugs |-> 0]
    /\ toSet = [l \in Lookups |-> {}]
    /\ outdated = [l \in Lookups |-> {}]
    /\ grace = [s \in Slugs |-> 0]

-----------------------------------------------------------------------------
\* get_company_id_by_slug that misses and finds the company.  A hit, or a slug
\* no active company has, leaves everything as it is.
LookupReads(l) ==
    /\ toSet[l] = {}
    /\ \E s \in Slugs :
          /\ entry[s] = None
          /\ ActiveBySlug(s) # None
          /\ toSet' = [toSet EXCEPT ![l] = {<<s, ActiveBySlug(s)>>}]
    /\ UNCHANGED <<entry, left, outdated, grace, company>>

\* warm_slug_cache: the query.
WarmReads(l) ==
    /\ toSet[l] = {}
    /\ toSet' = [toSet EXCEPT ![l] =
                    {<<s, ActiveBySlug(s)>> : s \in {s \in Slugs : ActiveBySlug(s) # None}}]
    /\ UNCHANGED <<entry, left, outdated, grace, company>>

\* cache.set of one key; its life starts again.
SetsEntry(l) ==
    \E pair \in toSet[l] :
        LET s == pair[1] IN
        /\ entry' = [entry EXCEPT ![s] = pair[2]]
        /\ left' = [left EXCEPT ![s] = TTL]
        /\ toSet' = [toSet EXCEPT ![l] = @ \ {pair}]
        /\ outdated' = [outdated EXCEPT ![l] = @ \ {s}]
        /\ grace' = IF s \in outdated[l] THEN [grace EXCEPT ![s] = TTL] ELSE grace
        /\ UNCHANGED company

\* The process of a call ends.
LookupDies(l) ==
    /\ toSet[l] # {}
    /\ toSet' = [toSet EXCEPT ![l] = {}]
    /\ outdated' = [outdated EXCEPT ![l] = {}]
    /\ UNCHANGED <<entry, left, grace, company>>

\* Mutant: the key without its prefix is deleted, which is no key.
DeletesNothing(s) == UNCHANGED <<entry, left>>

DeletesEntry(s) ==
    /\ entry' = [entry EXCEPT ![s] = None]
    /\ left' = [left EXCEPT ![s] = 0]

InvalidateSlug ==
    \E s \in Slugs :
        /\ DeletesEntry(s)
        /\ grace' = [grace EXCEPT ![s] = 0]
        /\ UNCHANGED <<toSet, outdated, company>>

IndexTick ==
    /\ \E s \in Slugs : left[s] + grace[s] > 0
    /\ entry' = [s \in Slugs |-> IF left[s] <= 1 THEN None ELSE entry[s]]
    /\ left' = [s \in Slugs |-> IF left[s] = 0 THEN 0 ELSE left[s] - 1]
    /\ grace' = [s \in Slugs |-> IF grace[s] = 0 THEN 0 ELSE grace[s] - 1]
    /\ UNCHANGED <<toSet, outdated, company>>

IndexNext ==
    \/ \E l \in Lookups :
          LookupReads(l) \/ WarmReads(l) \/ SetsEntry(l) \/ LookupDies(l)
    \/ InvalidateSlug
    \/ IndexTick

\* What a change of companies means to the index, which is not told of it.
CompaniesChange ==
    LET changed == {s \in Slugs : ActiveBySlug(s)' # ActiveBySlug(s)} IN
    /\ grace' = [s \in Slugs |-> IF s \in changed THEN TTL ELSE grace[s]]
    /\ outdated' = [l \in Lookups |->
                       outdated[l] \cup
                         {s \in changed : \E pair \in toSet[l] : pair[1] = s}]
    /\ UNCHANGED <<entry, left, toSet>>

\* The index by itself, over companies that change in any way.
IndexSpec == IndexInit /\ [][IndexNext \/ CompaniesChange]_<<indexVars, company>>

-----------------------------------------------------------------------------
IndexTypeOK ==
    /\ entry \in [Slugs -> Companies \cup {None}]
    /\ left \in [Slugs -> 0..TTL]
    /\ toSet \in [Lookups -> SUBSET (Slugs \X Companies)]
    /\ outdated \in [Lookups -> SUBSET Slugs]
    /\ grace \in [Slugs -> 0..TTL]

\* The index names a wrong company for an hour at most: the hour after the
\* company of the slug changed, unless someone invalidates the slug, or after a
\* call set a company that it had read before such a change (slug_index.py:23-30,
\* 36-38, 45-46).
StaleIsBounded ==
    \A s \in Slugs :
        entry[s] \notin {None, ActiveBySlug(s)} => left[s] <= grace[s] /\ grace[s] > 0

\* The inductive invariant: what a call is still to set is what the table says,
\* unless a change came after it read.
IndexInv ==
    /\ IndexTypeOK
    /\ StaleIsBounded
    /\ \A l \in Lookups :
          /\ \A pair \in toSet[l] :
                pair[1] \in outdated[l] \/ pair[2] = ActiveBySlug(pair[1])
          /\ \A a, b \in toSet[l] : a[1] = b[1] => a = b
=============================================================================
