------------------------------ MODULE CheckIn ------------------------------
(***************************************************************************)
(* What a gate calls to tell a ticket that was scanned before from a new   *)
(* one: checkin.bloom_guard, one Bloom filter per process, whose threads   *)
(* share it without a lock, and checkin.scan_registry, a hash of Redis all *)
(* processes share.  No view calls them: a gate calls any of them, for any *)
(* fingerprint, whenever it is idle.                                       *)
(*                                                                         *)
(* A fingerprint is used by one ticket, and the registry is modelled by    *)
(* the set of its fields; what HGET and HEXISTS say of one is the same.    *)
(***************************************************************************)
EXTENDS Integers, Sequences

CONSTANTS
    Gates,          \* threads that serve the gates
    Processes,
    ProcessOf,      \* gate -> process
    Fingerprints,
    Hashes,         \* fingerprint -> positions, in the order of _hashes
    TTL,            \* REGISTRY_TTL, in ticks
    Nothing         \* the fingerprint of a gate that is idle

HashCount(f) == Len(Hashes[f])

ASSUME CheckInAssumption ==
    /\ ProcessOf \in [Gates -> Processes]
    /\ \A f \in Fingerprints : Hashes[f] \in Seq(Nat) /\ HashCount(f) > 0
    /\ TTL \in Nat \ {0}
    /\ Nothing \notin Fingerprints

VARIABLES
    bits,           \* process -> the positions of _bits that are 1
    registry,       \* fields of the hash; Redis drops a hash that has none
    ttl,            \* ticks until the key expires; 0 if it never does
    gpc,            \* where each gate stands
    scan,           \* the fingerprint it is about
    next,           \* the position its loop is at
    marked,         \* history: process -> fingerprints mark_scanned returned for
    known,          \* history: gate -> marked, as its lookup began
    whole,          \* history: the gate's field is there since its HSET
    promise,        \* history: fingerprint -> ticks it must be remembered for
    settled         \* history: a call has returned since the key came to be

filterVars   == <<bits, marked, known, next>>
registryVars == <<registry, ttl, whole, promise, settled>>
checkInVars  == <<filterVars, registryVars, gpc, scan>>

CheckInInit ==
    /\ bits = [p \in Processes |-> {}]
    /\ registry = {}
    /\ ttl = 0
    /\ gpc = [g \in Gates |-> "idle"]
    /\ scan = [g \in Gates |-> Nothing]
    /\ next = [g \in Gates |-> 1]
    /\ marked = [p \in Processes |-> {}]
    /\ known = [g \in Gates |-> {}]
    /\ whole = [g \in Gates |-> FALSE]
    /\ promise = [f \in Fingerprints |-> 0]
    /\ settled = FALSE

-----------------------------------------------------------------------------
Begin(g, step) ==
    /\ gpc[g] = "idle"
    /\ gpc' = [gpc EXCEPT ![g] = step]
    /\ \E f \in Fingerprints : scan' = [scan EXCEPT ![g] = f]

GateAt(g, step) == gpc[g] = step

Return(g) ==
    /\ gpc' = [gpc EXCEPT ![g] = "idle"]
    /\ scan' = [scan EXCEPT ![g] = Nothing]

\* might_be_scanned(qr_fingerprint).
BeginLookup(g) ==
    /\ Begin(g, "look")
    /\ next' = [next EXCEPT ![g] = 1]
    /\ known' = [known EXCEPT ![g] = marked[ProcessOf[g]]]
    /\ UNCHANGED <<bits, marked, registryVars>>

Position(g) == Hashes[scan[g]][next[g]]

BitIsSet(g) == Position(g) \in bits[ProcessOf[g]]

LastPosition(g) == next[g] = HashCount(scan[g])

\* all(): the next position, if the bit of this one is set.
LookNext(g) ==
    /\ GateAt(g, "look")
    /\ BitIsSet(g) /\ ~LastPosition(g)
    /\ next' = [next EXCEPT ![g] = @ + 1]
    /\ UNCHANGED <<bits, marked, known, registryVars, gpc, scan>>

\* It might be scanned.
LookTrue(g) ==
    /\ GateAt(g, "look")
    /\ BitIsSet(g) /\ LastPosition(g)
    /\ Return(g)
    /\ next' = [next EXCEPT ![g] = 1]
    /\ known' = [known EXCEPT ![g] = {}]
    /\ UNCHANGED <<bits, marked, registryVars>>

\* "If False, definitely not scanned."
LookFalse(g) ==
    /\ GateAt(g, "look")
    /\ ~BitIsSet(g)
    /\ Return(g)
    /\ next' = [next EXCEPT ![g] = 1]
    /\ known' = [known EXCEPT ![g] = {}]
    /\ UNCHANGED <<bits, marked, registryVars>>

\* mark_scanned(qr_fingerprint).
BeginMark(g) ==
    /\ Begin(g, "mark")
    /\ next' = [next EXCEPT ![g] = 1]
    /\ UNCHANGED <<bits, marked, known, registryVars>>

\* Mutant: add returns at a bit that is set already.
MarkIsDone(g) == LastPosition(g) \/ BitIsSet(g)

MarkEnds(g) == LastPosition(g)

\* One round of the loop of add.
MarkNext(g) ==
    /\ GateAt(g, "mark")
    /\ bits' = [bits EXCEPT ![ProcessOf[g]] = @ \cup {Position(g)}]
    /\ IF MarkEnds(g)
       THEN /\ Return(g)
            /\ next' = [next EXCEPT ![g] = 1]
            /\ marked' = [marked EXCEPT ![ProcessOf[g]] = @ \cup {scan[g]}]
       ELSE /\ next' = [next EXCEPT ![g] = @ + 1]
            /\ UNCHANGED <<marked, gpc, scan>>
    /\ UNCHANGED <<known, registryVars>>

-----------------------------------------------------------------------------
BeginRegister(g) ==
    /\ Begin(g, "hset")
    /\ UNCHANGED <<filterVars, registryVars>>

\* hset, which leaves the life of a key that exists as it is.
HSet(g) ==
    /\ GateAt(g, "hset")
    /\ registry' = registry \cup {scan[g]}
    /\ whole' = [whole EXCEPT ![g] = TRUE]
    /\ gpc' = [gpc EXCEPT ![g] = "expire"]
    /\ UNCHANGED <<filterVars, ttl, promise, settled, scan>>

\* hset raises, before Redis has run it or after; the call ends with it.
HSetFails(g) ==
    /\ GateAt(g, "hset")
    /\ registry' \in {registry, registry \cup {scan[g]}}
    /\ Return(g)
    /\ UNCHANGED <<filterVars, ttl, whole, promise, settled>>

\* Mutants: a life that starts once, as in the rate limiter; the flag XX, which
\* renews only the life of a key that has one.
RenewedOnce == IF ttl = 0 THEN TTL ELSE ttl
RenewedIfAny == IF ttl = 0 THEN 0 ELSE TTL

Renewed == TTL

\* The life of the key after EXPIRE, which does nothing if the key is gone.
Expired == IF registry = {} THEN 0 ELSE Renewed

\* expire, and register_checkin returns.
Expire(g) ==
    /\ GateAt(g, "expire")
    /\ ttl' = Expired
    /\ promise' = IF whole[g] THEN [promise EXCEPT ![scan[g]] = TTL] ELSE promise
    /\ whole' = [whole EXCEPT ![g] = FALSE]
    /\ settled' = (registry # {})
    /\ Return(g)
    /\ UNCHANGED <<filterVars, registry>>

\* expire raises, before Redis has run it or after: the field stays, and the gate
\* was promised nothing.
ExpireFails(g) ==
    /\ GateAt(g, "expire")
    /\ ttl' \in {ttl, Expired}
    /\ whole' = [whole EXCEPT ![g] = FALSE]
    /\ Return(g)
    /\ UNCHANGED <<filterVars, registry, promise, settled>>

IsAlreadyCheckedIn(f) == f \in registry

OneTickOlder == [f \in Fingerprints |-> IF promise[f] = 0 THEN 0 ELSE promise[f] - 1]

Tick ==
    /\ ttl > 1
    /\ ttl' = ttl - 1
    /\ promise' = OneTickOlder
    /\ UNCHANGED <<filterVars, registry, whole, settled, gpc, scan>>

\* The key expires, with every field of it.
KeyExpires ==
    /\ ttl = 1
    /\ ttl' = 0
    /\ registry' = {}
    /\ promise' = OneTickOlder
    /\ whole' = [g \in Gates |-> FALSE]
    /\ settled' = FALSE
    /\ UNCHANGED <<filterVars, gpc, scan>>

\* A process ends, and gunicorn starts it again with an empty filter.
ProcessRestarts(p) ==
    LET its == {g \in Gates : ProcessOf[g] = p} IN
    /\ bits' = [bits EXCEPT ![p] = {}]
    /\ marked' = [marked EXCEPT ![p] = {}]
    /\ gpc' = [g \in Gates |-> IF g \in its THEN "idle" ELSE gpc[g]]
    /\ scan' = [g \in Gates |-> IF g \in its THEN Nothing ELSE scan[g]]
    /\ next' = [g \in Gates |-> IF g \in its THEN 1 ELSE next[g]]
    /\ known' = [g \in Gates |-> IF g \in its THEN {} ELSE known[g]]
    /\ whole' = [g \in Gates |-> g \notin its /\ whole[g]]
    /\ UNCHANGED <<registry, ttl, promise, settled>>

GateStep(g) ==
    \/ LookNext(g) \/ LookTrue(g) \/ LookFalse(g) \/ MarkNext(g)
    \/ HSet(g) \/ HSetFails(g) \/ Expire(g) \/ ExpireFails(g)

CheckInNext ==
    \/ \E g \in Gates : \/ BeginLookup(g) \/ BeginMark(g) \/ BeginRegister(g)
                        \/ GateStep(g)
    \/ Tick \/ KeyExpires
    \/ \E p \in Processes : ProcessRestarts(p)

CheckInSpec == CheckInInit /\ [][CheckInNext]_checkInVars
-----------------------------------------------------------------------------
GateTypeOK ==
    /\ bits \in [Processes -> SUBSET Nat]
    /\ registry \in SUBSET Fingerprints
    /\ ttl \in 0..TTL
    /\ gpc \in [Gates -> {"idle", "look", "mark", "hset", "expire"}]
    /\ scan \in [Gates -> Fingerprints \cup {Nothing}]
    /\ next \in [Gates -> Nat \ {0}]
    /\ \A g \in Gates :
          /\ gpc[g] = "idle" <=> scan[g] = Nothing
          /\ gpc[g] \in {"look", "mark"} => next[g] <= HashCount(scan[g])
    /\ marked \in [Processes -> SUBSET Fingerprints]
    /\ known \in [Gates -> SUBSET Fingerprints]
    /\ whole \in [Gates -> BOOLEAN]
    /\ promise \in [Fingerprints -> 0..TTL]
    /\ settled \in BOOLEAN

\* "Zero false-negatives" (bloom_guard.py:11, 53): threads that set and test
\* bits of one filter at the same time never make a lookup miss a fingerprint
\* whose mark_scanned had returned, in this process, before the lookup began.
\* Of what other processes marked the filter says nothing.
NoFalseNegative ==
    \A g \in Gates :
        gpc[g] = "look" /\ ~BitIsSet(g) => scan[g] \notin known[g]

\* What register_checkin returned for is found for the next 24 hours, whatever
\* other gates register (scan_registry.py:32-33), unless the key expired between
\* the two commands of that very call, which takes the new field along.
KeptForTTL ==
    \A f \in Fingerprints : promise[f] > 0 => IsAlreadyCheckedIn(f)

\* HSET and EXPIRE are two commands (scan_registry.py:32-33): a process that dies
\* or a command that raises between them may leave the registry without an end.
\* One register_checkin that returns mends it, and as long as the key lives no
\* later call, failure, death or restart takes the end away again.
ReturnGivesEnd ==
    settled => registry # {} /\ ttl > 0

\* The inductive invariant.  A promise is never longer than the life of the key.
RegistryInv ==
    /\ \A f \in Fingerprints :
          promise[f] > 0 => f \in registry /\ promise[f] <= ttl
    /\ \A g \in Gates :
          whole[g] => gpc[g] = "expire" /\ scan[g] \in registry
    /\ ReturnGivesEnd

PositionsTo(f, n) == {Hashes[f][i] : i \in 1..n}

\* What was marked has all its bits; a loop under way, those before its position.
FilterInv ==
    /\ \A p \in Processes : \A f \in marked[p] :
          PositionsTo(f, HashCount(f)) \subseteq bits[p]
    /\ \A g \in Gates :
          /\ known[g] \subseteq marked[ProcessOf[g]]
          /\ gpc[g] = "mark" =>
                PositionsTo(scan[g], next[g] - 1) \subseteq bits[ProcessOf[g]]
=============================================================================
