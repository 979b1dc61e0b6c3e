--------------------------- MODULE CheckIn_proofs ---------------------------
(***************************************************************************)
(* CheckIn for any gates, processes, fingerprints, hashes and life of the  *)
(* registry.                                                               *)
(***************************************************************************)
EXTENDS CheckIn, TLAPS

\* What the assumption says, without sequences.
LEMMA CheckInFacts ==
    /\ ProcessOf \in [Gates -> Processes]
    /\ TTL \in Nat \ {0}
    /\ Nothing \notin Fingerprints
    /\ \A f \in Fingerprints : HashCount(f) \in Nat \ {0}
BY CheckInAssumption DEF HashCount

\* The positions that the hash functions yield are numbers.
LEMMA PositionInNat ==
    ASSUME NEW f \in Fingerprints, NEW i \in 1..HashCount(f)
    PROVE  Hashes[f][i] \in Nat
BY CheckInAssumption DEF HashCount

\* The gates' steps keep every variable in its type.
LEMMA GateTypes == CheckInSpec => []GateTypeOK
<1>1. CheckInInit => GateTypeOK
  <2> SUFFICES ASSUME CheckInInit
               PROVE  GateTypeOK
    OBVIOUS
  <2>1. whole \in [Gates -> BOOLEAN] /\ settled \in BOOLEAN
    BY Zenon DEF CheckInInit
  <2>2. ttl \in 0..TTL /\ promise \in [Fingerprints -> 0..TTL]
    BY CheckInFacts DEF CheckInInit
  <2>3. next \in [Gates -> Nat \ {0}]
    BY DEF CheckInInit
  <2> QED
    BY <2>1, <2>2, <2>3, CheckInFacts DEF CheckInInit, GateTypeOK
<1>2. GateTypeOK /\ [CheckInNext]_checkInVars => GateTypeOK'
  <2> SUFFICES ASSUME GateTypeOK, [CheckInNext]_checkInVars
               PROVE  GateTypeOK'
    OBVIOUS
  <2> USE CheckInFacts
      DEF GateTypeOK, GateAt, Begin, Return, Position, LastPosition,
          MarkEnds, filterVars, registryVars, Expired, Renewed, OneTickOlder
  <2>1. ASSUME NEW g \in Gates, BeginLookup(g) PROVE GateTypeOK'
    BY <2>1 DEF BeginLookup
  <2>2. ASSUME NEW g \in Gates, BeginMark(g) PROVE GateTypeOK'
    BY <2>2 DEF BeginMark
  <2>3. ASSUME NEW g \in Gates, BeginRegister(g) PROVE GateTypeOK'
    BY <2>3 DEF BeginRegister
  <2>4. ASSUME NEW g \in Gates, LookNext(g) PROVE GateTypeOK'
    BY <2>4 DEF LookNext
  <2>5. ASSUME NEW g \in Gates, LookTrue(g) \/ LookFalse(g) PROVE GateTypeOK'
    BY <2>5 DEF LookTrue, LookFalse
  <2>6. ASSUME NEW g \in Gates, MarkNext(g) PROVE GateTypeOK'
    <3>1. scan[g] \in Fingerprints
      BY <2>6 DEF MarkNext
    <3>2. Position(g) \in Nat
      BY <2>6, <3>1, PositionInNat DEF MarkNext
    <3>3. CASE LastPosition(g)
      BY <2>6, <3>1, <3>2, <3>3 DEF MarkNext
    <3>4. CASE ~LastPosition(g)
      BY <2>6, <3>1, <3>2, <3>4 DEF MarkNext
    <3> QED
      BY <3>3, <3>4
  <2>7. ASSUME NEW g \in Gates, HSet(g) PROVE GateTypeOK'
    BY <2>7 DEF HSet
  <2>8. ASSUME NEW g \in Gates, Expire(g) PROVE GateTypeOK'
    <3>1. ttl' \in 0..TTL
      BY <2>8 DEF Expire
    <3>2. scan[g] \in Fingerprints
      BY <2>8 DEF Expire
    <3>3. promise' \in [Fingerprints -> 0..TTL]
      <4>1. CASE whole[g]
        BY <2>8, <3>2, <4>1 DEF Expire
      <4>2. CASE ~whole[g]
        BY <2>8, <4>2 DEF Expire
      <4> QED
        BY <4>1, <4>2
    <3>4. whole' \in [Gates -> BOOLEAN] /\ settled' \in BOOLEAN
      BY <2>8 DEF Expire
    <3> QED
      BY <3>1, <3>3, <3>4, <2>8 DEF Expire
  <2>9. CASE Tick
    <3>1. ttl' \in 0..TTL /\ promise' \in [Fingerprints -> 0..TTL]
      BY <2>9 DEF Tick
    <3> QED
      BY <3>1, <2>9 DEF Tick
  <2>10. CASE KeyExpires
    <3>1. ttl' \in 0..TTL /\ promise' \in [Fingerprints -> 0..TTL]
      BY <2>10 DEF KeyExpires
    <3>2. whole' \in [Gates -> BOOLEAN] /\ settled' \in BOOLEAN
      BY <2>10, Zenon DEF KeyExpires
    <3> QED
      BY <3>1, <3>2, <2>10 DEF KeyExpires
  <2>11. ASSUME NEW p \in Processes, ProcessRestarts(p) PROVE GateTypeOK'
    <3>1. whole' \in [Gates -> BOOLEAN]
      BY <2>11, Zenon DEF ProcessRestarts
    <3>2. settled' \in BOOLEAN
      BY <2>11, Zenon DEF ProcessRestarts
    <3>3. /\ bits' \in [Processes -> SUBSET Nat]
          /\ marked' \in [Processes -> SUBSET Fingerprints]
      BY <2>11 DEF ProcessRestarts
    <3>4. /\ gpc' \in [Gates -> {"idle", "look", "mark", "hset", "expire"}]
          /\ scan' \in [Gates -> Fingerprints \cup {Nothing}]
          /\ next' \in [Gates -> Nat \ {0}]
          /\ known' \in [Gates -> SUBSET Fingerprints]
      BY <2>11 DEF ProcessRestarts
    <3>5. \A g \in Gates :
             /\ gpc'[g] = "idle" <=> scan'[g] = Nothing
             /\ gpc'[g] \in {"look", "mark"} => next'[g] <= HashCount(scan'[g])
      BY <2>11 DEF ProcessRestarts
    <3> QED
      BY <3>1, <3>2, <3>3, <3>4, <3>5, <2>11 DEF ProcessRestarts
  <2>12. ASSUME NEW g \in Gates, HSetFails(g) PROVE GateTypeOK'
    BY <2>12 DEF HSetFails
  <2>13. ASSUME NEW g \in Gates, ExpireFails(g) PROVE GateTypeOK'
    BY <2>13 DEF ExpireFails
  <2>14. CASE UNCHANGED checkInVars
    BY <2>14 DEF checkInVars
  <2> QED
    BY <2>1, <2>2, <2>3, <2>4, <2>5, <2>6, <2>7, <2>8, <2>9, <2>10, <2>11, <2>12,
       <2>13, <2>14
    DEF CheckInNext, GateStep
<1> QED
  BY <1>1, <1>2, PTL DEF CheckInSpec

\* A promise is renewed with the life of the key, and ends with it; of the steps
\* of the filter nothing here is touched.
LEMMA RegistryAlways == CheckInSpec => []RegistryInv
<1>1. CheckInInit => RegistryInv
  BY CheckInFacts DEF CheckInInit, RegistryInv, ReturnGivesEnd
<1>2. GateTypeOK /\ RegistryInv /\ [CheckInNext]_checkInVars => RegistryInv'
  <2> SUFFICES ASSUME GateTypeOK, RegistryInv, [CheckInNext]_checkInVars
               PROVE  RegistryInv'
    OBVIOUS
  <2> USE CheckInFacts
      DEF GateTypeOK, RegistryInv, GateAt, Begin, Return,
          filterVars, registryVars, Expired, Renewed, OneTickOlder, ReturnGivesEnd
  <2>1. ASSUME NEW g \in Gates, BeginLookup(g) \/ BeginMark(g) \/ BeginRegister(g)
        PROVE  RegistryInv'
    BY <2>1 DEF BeginLookup, BeginMark, BeginRegister
  <2>2. ASSUME NEW g \in Gates,
               LookNext(g) \/ LookTrue(g) \/ LookFalse(g)
        PROVE  RegistryInv'
    BY <2>2 DEF LookNext, LookTrue, LookFalse
  <2>3. ASSUME NEW g \in Gates, MarkNext(g)
        PROVE  RegistryInv'
    BY <2>3 DEF MarkNext
  <2>4. ASSUME NEW g \in Gates, HSet(g)
        PROVE  RegistryInv'
    BY <2>4 DEF HSet
  <2>5. ASSUME NEW g \in Gates, Expire(g)
        PROVE  RegistryInv'
    BY <2>5 DEF Expire
  <2>6. CASE Tick
    BY <2>6 DEF Tick
  <2>7. CASE KeyExpires
    BY <2>7 DEF KeyExpires
  <2>8. ASSUME NEW p \in Processes, ProcessRestarts(p)
        PROVE  RegistryInv'
    BY <2>8 DEF ProcessRestarts
  <2>9. ASSUME NEW g \in Gates, HSetFails(g) \/ ExpireFails(g)
        PROVE  RegistryInv'
    BY <2>9 DEF HSetFails, ExpireFails
  <2>10. CASE UNCHANGED checkInVars
    BY <2>10 DEF checkInVars
  <2> QED
    BY <2>1, <2>2, <2>3, <2>4, <2>5, <2>6, <2>7, <2>8, <2>9, <2>10
    DEF CheckInNext, GateStep
<1> QED
  BY <1>1, <1>2, GateTypes, PTL DEF CheckInSpec

\* A fingerprint whose registration returned is found for as long as the
\* registry promises, whatever other gates register meanwhile.
THEOREM RegisteredIsKept == CheckInSpec => []KeptForTTL
<1>1. RegistryInv => KeptForTTL
  BY DEF RegistryInv, KeptForTTL, IsAlreadyCheckedIn
<1> QED
  BY <1>1, RegistryAlways, PTL

\* ReturnGivesEnd: whatever failed before, a registry to which a call has returned
\* has an end, and keeps it.
THEOREM RegistryHasAnEnd == CheckInSpec => []ReturnGivesEnd
<1>1. RegistryInv => ReturnGivesEnd
  BY DEF RegistryInv
<1> QED
  BY <1>1, RegistryAlways, PTL

\* Bits are only ever set, until the process restarts and forgets what it marked.
LEMMA FilterAlways == CheckInSpec => []FilterInv
<1>1. CheckInInit => FilterInv
  BY DEF CheckInInit, FilterInv
<1>2. GateTypeOK /\ FilterInv /\ [CheckInNext]_checkInVars => FilterInv'
  <2> SUFFICES ASSUME GateTypeOK, FilterInv, [CheckInNext]_checkInVars
               PROVE  FilterInv'
    OBVIOUS
  <2> USE CheckInFacts
      DEF GateTypeOK, FilterInv, GateAt, Begin, Return, filterVars, registryVars
  <2>1. ASSUME NEW g \in Gates, BeginLookup(g) \/ BeginRegister(g)
        PROVE  FilterInv'
    BY <2>1 DEF BeginLookup, BeginRegister
  <2>2. ASSUME NEW g \in Gates, BeginMark(g)
        PROVE  FilterInv'
    <3>1. PositionsTo(scan'[g], next'[g] - 1) = {}
      BY <2>2 DEF BeginMark, PositionsTo
    <3> QED
      BY <2>2, <3>1 DEF BeginMark
  <2>3. ASSUME NEW g \in Gates, LookNext(g) \/ LookTrue(g) \/ LookFalse(g)
        PROVE  FilterInv'
    BY <2>3 DEF LookNext, LookTrue, LookFalse
  <2>4. ASSUME NEW g \in Gates, MarkNext(g)
        PROVE  FilterInv'
    <3> DEFINE p == ProcessOf[g]
    <3>1. /\ scan[g] \in Fingerprints
          /\ next[g] \in 1..HashCount(scan[g])
      BY <2>4 DEF MarkNext
    <3>2. PositionsTo(scan[g], next[g]) =
            PositionsTo(scan[g], next[g] - 1) \cup {Position(g)}
      BY <3>1 DEF PositionsTo, Position
    <3>3. /\ \A q \in Processes : bits[q] \subseteq bits'[q]
          /\ PositionsTo(scan[g], next[g]) \subseteq bits'[p]
      BY <2>4, <3>2 DEF MarkNext
    <3>4. CASE LastPosition(g)
      BY <2>4, <3>3, <3>4 DEF MarkNext, MarkEnds, LastPosition
    <3>5. CASE ~LastPosition(g)
      <4>1. next'[g] - 1 = next[g]
        BY <2>4, <3>1, <3>5 DEF MarkNext, MarkEnds
      <4> QED
        BY <2>4, <3>3, <3>5, <4>1 DEF MarkNext, MarkEnds
    <3> QED
      BY <3>4, <3>5
  <2>5. ASSUME NEW g \in Gates,
               HSet(g) \/ HSetFails(g) \/ Expire(g) \/ ExpireFails(g)
        PROVE  FilterInv'
    BY <2>5 DEF HSet, HSetFails, Expire, ExpireFails
  <2>6. CASE Tick \/ KeyExpires
    BY <2>6 DEF Tick, KeyExpires
  <2>7. ASSUME NEW p \in Processes, ProcessRestarts(p)
        PROVE  FilterInv'
    BY <2>7 DEF ProcessRestarts
  <2>8. CASE UNCHANGED checkInVars
    BY <2>8 DEF checkInVars
  <2> QED
    BY <2>1, <2>2, <2>3, <2>4, <2>5, <2>6, <2>7, <2>8 DEF CheckInNext, GateStep
<1> QED
  BY <1>1, <1>2, GateTypes, PTL DEF CheckInSpec

\* The filter has no false negatives for the threads of its process, however
\* their loops over its bits interleave.
THEOREM FilterHasNoFalseNegative == CheckInSpec => []NoFalseNegative
<1>1. GateTypeOK /\ FilterInv => NoFalseNegative
  <2> SUFFICES ASSUME GateTypeOK, FilterInv,
                      NEW g \in Gates, gpc[g] = "look", scan[g] \in known[g]
               PROVE  BitIsSet(g)
    BY DEF NoFalseNegative
  <2>1. /\ scan[g] \in marked[ProcessOf[g]]
        /\ next[g] \in 1..HashCount(scan[g])
    BY CheckInFacts DEF GateTypeOK, FilterInv
  <2>2. Position(g) \in PositionsTo(scan[g], HashCount(scan[g]))
    BY <2>1 DEF Position, PositionsTo
  <2> QED
    BY <2>1, <2>2, CheckInFacts DEF FilterInv, BitIsSet
<1> QED
  BY <1>1, GateTypes, FilterAlways, PTL
=============================================================================
