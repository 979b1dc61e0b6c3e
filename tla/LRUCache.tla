------------------------------ MODULE LRUCache ------------------------------
(***************************************************************************)
(* events.lru_cache.LRUCache: an OrderedDict, that is an order of keys and *)
(* a value for each.  Every method runs under the cache's own lock, so for *)
(* the threads of a process each call is one step.                         *)
(***************************************************************************)
EXTENDS Naturals, Sequences, FiniteSets

Lists == INSTANCE SequencesExt

CONSTANTS
    Keys,
    Values,
    Capacity,   \* self.capacity
    None,       \* returned on a miss
    MaxUses     \* bound: hits and sets

ASSUME CacheAssumption ==
    /\ Capacity \in Nat
    /\ None \notin Values

VARIABLES
    order,      \* the keys, least recently used first
    value,      \* key -> value, None where the key is absent
    reply,      \* what the last call returned
    uses,       \* history: the number of hits and sets
    lastUse     \* history: which of them was the last of each key

cacheVars == <<order, value, reply, uses, lastUse>>

CacheInit ==
    /\ order = <<>>
    /\ value = [k \in Keys |-> None]
    /\ reply = None
    /\ uses = 0
    /\ lastUse = [k \in Keys |-> 0]

-----------------------------------------------------------------------------
Cached == {order[i] : i \in 1..Len(order)}

PlaceOf(k) == CHOOSE i \in 1..Len(order) : order[i] = k

\* The key is unlinked from where it stands.
Without(k) == IF k \in Cached THEN Lists!RemoveAt(order, PlaceOf(k)) ELSE order

\* The order after move_to_end(k), or after the insertion of a new k.
ToEnd(k) == Append(Without(k), k)

Used(k) ==
    /\ uses < MaxUses
    /\ uses' = uses + 1
    /\ lastUse' = [lastUse EXCEPT ![k] = uses + 1]

Miss(k) ==
    /\ k \notin Cached
    /\ reply' = None
    /\ UNCHANGED <<order, value, uses, lastUse>>

\* Mutant: the hit is not moved to the end.
HitInPlace(k) ==
    /\ k \in Cached
    /\ Used(k)
    /\ reply' = value[k]
    /\ UNCHANGED <<order, value>>

Hit(k) ==
    /\ k \in Cached
    /\ Used(k)
    /\ order' = ToEnd(k)
    /\ reply' = value[k]
    /\ UNCHANGED value

\* Mutant: popitem(), which takes the newest.
PopNewest(o, vals) ==
    /\ order' = SubSeq(o, 1, Len(o) - 1)
    /\ value' = [vals EXCEPT ![o[Len(o)]] = None]

\* popitem(last=False)
PopOldest(o, vals) ==
    /\ order' = Tail(o)
    /\ value' = [vals EXCEPT ![Head(o)] = None]

Set(k, v) ==
    LET vals == [value EXCEPT ![k] = v]
    IN  /\ Used(k)
        /\ reply' = None
        /\ IF Len(ToEnd(k)) > Capacity
           THEN PopOldest(ToEnd(k), vals)
           ELSE order' = ToEnd(k) /\ value' = vals

Invalidate(k) ==
    /\ order' = Without(k)
    /\ value' = [value EXCEPT ![k] = None]
    /\ reply' = None
    /\ UNCHANGED <<uses, lastUse>>

CacheNext ==
    \E k \in Keys :
        \/ Miss(k)
        \/ Hit(k)
        \/ \E v \in Values : Set(k, v)
        \/ Invalidate(k)

CacheSpec == CacheInit /\ [][CacheNext]_cacheVars
-----------------------------------------------------------------------------
\* The order and the values name the same keys, each once, at most Capacity of
\* them, from the least to the most recently used (lru_cache.py:14, 16).
CacheInv ==
    /\ Len(order) <= Capacity
    /\ Cached = {k \in Keys : value[k] # None}
    /\ \A i, j \in 1..Len(order) : i < j => lastUse[order[i]] < lastUse[order[j]]
    /\ value \in [Keys -> Values \cup {None}]

\* What CacheInv needs of the history to be inductive: no key was used later
\* than now, so that the key moved to the end is the last used.
CacheTypes ==
    /\ order \in Seq(Keys)
    /\ uses \in Nat
    /\ lastUse \in [Keys -> 0..uses]

\* Thread by thread, the cache is a RecencyMap: a get returns the value of the
\* last set unless the key was dropped, and only the key used longest ago is.
Promise == INSTANCE RecencyMap WITH map <- value, time <- uses

ImplementsRecencyMap == Promise!MapSpec
=============================================================================
