----------------------------- MODULE HoldLedger -----------------------------
(***************************************************************************)
(* What create_hold promises, without transactions, locks or counters: a   *)
(* book of holds.  A hold is opened in one step, and only when the places  *)
(* it reserves are there and its user may have one more on the tier.       *)
(***************************************************************************)
EXTENDS HoldRows

CONSTANTS
    Openings,   \* the tier capacities, and places sold, at the start
    Amounts     \* the quantities a hold may have, none negative

VARIABLES
    book,    \* the hold rows
    stock    \* tier -> [total, sold]

ledgerVars == <<book, stock>>

LedgerInit ==
    /\ book = [h \in Tokens |-> NoRow]
    /\ stock \in [Tiers -> Openings]

Left(t) == stock[t].total - stock[t].sold - Cardinality(Places(book, t))

Open(h, u, t, q) ==
    /\ book[h] = NoRow
    /\ q <= Left(t)
    /\ Cardinality(ActiveOfTier(book, u, t)) < MaxHolds
    /\ book' = [book EXCEPT ![h] = [user |-> u, tier |-> t, quantity |-> q,
                                    status |-> "active"]]
    /\ UNCHANGED stock

LedgerNext ==
    \E h \in Tokens, u \in Users, t \in Tiers, q \in Amounts :
        Open(h, u, t, q)

LedgerSpec == LedgerInit /\ [][LedgerNext]_ledgerVars
=============================================================================
