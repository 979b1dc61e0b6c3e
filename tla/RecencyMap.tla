----------------------------- MODULE RecencyMap -----------------------------
(***************************************************************************)
(* What a least-recently-used cache promises: a map of bounded size which, *)
(* when it must drop a key, drops the one used longest ago.  There is no   *)
(* list here: each key remembers when it was last used.                    *)
(***************************************************************************)
EXTENDS Naturals, FiniteSets

CONSTANTS Keys, Values, Capacity, None

VARIABLES
    map,        \* key -> value, or None
    lastUse,    \* key -> time of its last use
    time,
    reply       \* what the last operation returned

mapVars == <<map, lastUse, time, reply>>

Present(m) == {k \in Keys : m[k] # None}

MapInit ==
    /\ map = [k \in Keys |-> None]
    /\ lastUse = [k \in Keys |-> 0]
    /\ time = 0
    /\ reply = None

Use(k) ==
    /\ time' = time + 1
    /\ lastUse' = [lastUse EXCEPT ![k] = time + 1]

Lookup(k) ==
    /\ reply' = map[k]
    /\ UNCHANGED map
    /\ IF map[k] = None THEN UNCHANGED <<lastUse, time>> ELSE Use(k)

Store(k, v) ==
    LET filled == [map EXCEPT ![k] = v]
    IN  /\ Use(k)
        /\ reply' = None
        /\ \/ /\ Cardinality(Present(filled)) <= Capacity
              /\ map' = filled
           \/ /\ Cardinality(Present(filled)) > Capacity
              /\ \E old \in Present(filled) :
                    /\ \A j \in Present(filled) : lastUse'[old] <= lastUse'[j]
                    /\ map' = [filled EXCEPT ![old] = None]

Drop(k) ==
    /\ map' = [map EXCEPT ![k] = None]
    /\ reply' = None
    /\ UNCHANGED <<lastUse, time>>

MapNext ==
    \E k \in Keys : Lookup(k) \/ Drop(k) \/ \E v \in Values : Store(k, v)

MapSpec == MapInit /\ [][MapNext]_mapVars
=============================================================================
