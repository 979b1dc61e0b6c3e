------------------------ MODULE RateLimiter_proofs ------------------------
(***************************************************************************)
(* RateLimiter for any number of calls, any limit, window and clock.       *)
(***************************************************************************)
EXTENDS RateLimiter, TLAPS

\* The limiter's inductive invariant: it starts right, and no read, write,
\* expiry or instant breaks it, whatever calls overlap.
THEOREM LimiterAlways == LimiterSpec => []LimiterInv
<1>1. LimiterInit => LimiterInv
  BY LimiterAssumption
  DEF LimiterInit, LimiterInv, LimiterTypeOK, OvershootExplained, InProgress
<1>2. LimiterInv /\ [LimiterNext]_limiterVars => LimiterInv'
  <2> SUFFICES ASSUME LimiterInv, [LimiterNext]_limiterVars
               PROVE  LimiterInv'
    OBVIOUS
  <2> USE LimiterAssumption
      DEF LimiterInv, LimiterTypeOK, OvershootExplained, InProgress, historyVars
  <2>1. CASE Tick
    BY <2>1 DEF Tick
  <2>2. ASSUME NEW c \in Calls, ReadNone(c)
        PROVE  LimiterInv'
    BY <2>2 DEF ReadNone, CallGoto, AtLimit
  <2>3. ASSUME NEW c \in Calls, ReadSome(c)
        PROVE  LimiterInv'
    BY <2>3 DEF ReadSome, CallGoto, AtLimit
  <2>4. ASSUME NEW c \in Calls, Deny(c)
        PROVE  LimiterInv'
    BY <2>4 DEF Deny, CallGoto
  <2>5. ASSUME NEW c \in Calls, SetFirst(c)
        PROVE  LimiterInv'
    BY <2>5 DEF SetFirst, Admit, CallGoto
  <2>6. ASSUME NEW c \in Calls, Incr(c)
        PROVE  LimiterInv'
    BY <2>6 DEF Incr, Admit, CallGoto
  <2>7. ASSUME NEW c \in Calls, IncrMissing(c)
        PROVE  LimiterInv'
    BY <2>7 DEF IncrMissing, CallGoto
  <2>8. CASE UNCHANGED limiterVars
    BY <2>8 DEF limiterVars
  <2> QED
    BY <2>1, <2>2, <2>3, <2>4, <2>5, <2>6, <2>7, <2>8 DEF LimiterNext
<1> QED
  BY <1>1, <1>2, PTL DEF LimiterSpec

\* Beyond its limit the limiter admits only what overlapping calls explain.
THEOREM OvershootBounded == LimiterSpec => []OvershootExplained
<1>1. LimiterInv => OvershootExplained
  BY DEF LimiterInv
<1> QED
  BY <1>1, LimiterAlways, PTL

\* A call is denied only when Limit calls were admitted in the life of the key.
THEOREM DenialsEarned == LimiterSpec => DenialEarned
<1> DEFINE Earned == \A c \in Calls :
                       call[c] = "idle" /\ call'[c] = "denied" => win >= Limit
<1>1. LimiterInv /\ [LimiterNext]_limiterVars => [Earned]_limiterVars
  <2> SUFFICES ASSUME LimiterInv, LimiterNext,
                      NEW d \in Calls, call[d] = "idle", call'[d] = "denied"
               PROVE  win >= Limit
    OBVIOUS
  <2> USE LimiterAssumption DEF LimiterInv, LimiterTypeOK, CallGoto
  <2>1. ~Tick
    BY DEF Tick
  <2>2. PICK c \in Calls : \/ ReadNone(c) \/ ReadSome(c) \/ Deny(c)
                           \/ SetFirst(c) \/ Incr(c) \/ IncrMissing(c)
    BY <2>1 DEF LimiterNext
  <2>3. Deny(c)
    BY <2>2 DEF ReadNone, ReadSome, SetFirst, Incr, IncrMissing, Admit
  <2> QED
    BY <2>3 DEF Deny, AtLimit
<1> QED
  BY <1>1, LimiterAlways, PTL DEF LimiterSpec, DenialEarned

\* The key always has an end, at most one window away.
THEOREM KeysEnd == LimiterSpec => []KeyEnds
<1>1. LimiterInit => KeyEnds
  BY DEF LimiterInit, KeyEnds
<1>2. LimiterInv /\ KeyEnds /\ [LimiterNext]_limiterVars => KeyEnds'
  <2> SUFFICES ASSUME LimiterInv, KeyEnds, [LimiterNext]_limiterVars
               PROVE  KeyEnds'
    OBVIOUS
  <2> USE LimiterAssumption DEF LimiterInv, LimiterTypeOK, KeyEnds
  <2>1. CASE Tick
    BY <2>1 DEF Tick
  <2>2. ASSUME NEW c \in Calls, SetFirst(c)
        PROVE  KeyEnds'
    BY <2>2 DEF SetFirst, Admit
  <2>3. ASSUME NEW c \in Calls, Incr(c)
        PROVE  KeyEnds'
    BY <2>3 DEF Incr, Admit
  <2>4. ASSUME NEW c \in Calls, ReadNone(c) \/ ReadSome(c) \/ Deny(c) \/ IncrMissing(c)
        PROVE  KeyEnds'
    BY <2>4 DEF ReadNone, ReadSome, Deny, IncrMissing
  <2>5. CASE UNCHANGED limiterVars
    BY <2>5 DEF limiterVars
  <2> QED
    BY <2>1, <2>2, <2>3, <2>4, <2>5 DEF LimiterNext
<1> QED
  BY <1>1, <1>2, LimiterAlways, PTL DEF LimiterSpec
=============================================================================
