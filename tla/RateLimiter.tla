---------------------------- MODULE RateLimiter ----------------------------
(***************************************************************************)
(* core.rate_limiter.RateLimiter.is_allowed, called concurrently for one   *)
(* identifier of one scope, which is one key of the cache.  The key is     *)
(* read, and then set or incremented, by separate calls of Redis; another  *)
(* call, or the end of the key's life, may come between.                   *)
(*                                                                         *)
(* A call is one invocation.  Other identifiers have other keys, and       *)
(* remaining() only reads: neither disturbs anything here.                 *)
(***************************************************************************)
EXTENDS Integers, FiniteSets

CONSTANTS
    Calls,      \* invocations of is_allowed
    Limit,      \* self.limit
    Window,     \* self.window_seconds
    MaxTime     \* bound: the clock stops here

ASSUME LimiterAssumption ==
    /\ Limit \in Nat \ {0}
    /\ Window \in Nat \ {0}
    /\ MaxTime \in Nat

VARIABLES
    now,        \* the clock of Redis
    count,      \* the value under the key; 0, the default of get, if absent
    ends,       \* when the key expires, if it is there
    call,       \* where each call stands
    win,        \* history: the calls admitted since the key was last absent
    stale,      \* history: calls that read before another call last wrote
    excuse      \* history: what the writes of stale calls to a live key explain

historyVars == <<win, stale, excuse>>
limiterVars == <<now, count, ends, call, historyVars>>

InProgress == {"first", "next"}

LimiterInit ==
    /\ now = 0
    /\ count = 0
    /\ ends = 0
    /\ call = [c \in Calls |-> "idle"]
    /\ win = 0
    /\ stale = {}
    /\ excuse = 0

-----------------------------------------------------------------------------
CallGoto(c, from, to) ==
    /\ call[c] = from
    /\ call' = [call EXCEPT ![c] = to]

\* Mutants: > instead of >=; the request to come counted twice.
OverLimit == count > Limit
NearLimit == count + 1 >= Limit

AtLimit == count >= Limit

\* cache.get found nothing: the call will set the key.
ReadNone(c) ==
    /\ CallGoto(c, "idle", "first")
    /\ ~AtLimit
    /\ count = 0
    /\ UNCHANGED <<now, count, ends, historyVars>>

\* cache.get found a count below the limit: the call will increment it.
ReadSome(c) ==
    /\ CallGoto(c, "idle", "next")
    /\ ~AtLimit
    /\ count # 0
    /\ UNCHANGED <<now, count, ends, historyVars>>

Deny(c) ==
    /\ CallGoto(c, "idle", "denied")
    /\ AtLimit
    /\ UNCHANGED <<now, count, ends, historyVars>>

\* The call is admitted; the calls in progress have read an older count.
Admit(c, from, room) ==
    /\ CallGoto(c, from, "allowed")
    /\ win' = win + 1
    /\ stale' = {d \in Calls \ {c} : call[d] \in InProgress}
    /\ excuse' = IF c \in stale /\ count # 0 THEN excuse + room ELSE excuse
    /\ UNCHANGED now

\* cache.set(key, 1, window_seconds), whatever is there by now.
SetFirst(c) ==
    /\ Admit(c, "first", Limit)
    /\ count' = 1
    /\ ends' = now + Window

\* Mutant: the INCR of Redis, which creates the key, without a TTL.
IncrCreating(c) ==
    /\ Admit(c, "next", 1)
    /\ count' = count + 1
    /\ UNCHANGED ends

\* cache.incr keeps the TTL.
Incr(c) ==
    /\ Admit(c, "next", 1)
    /\ count # 0
    /\ count' = count + 1
    /\ UNCHANGED ends

\* cache.incr raises ValueError when the key has expired since the read.
IncrMissing(c) ==
    /\ CallGoto(c, "next", "error")
    /\ count = 0
    /\ stale' = stale \ {c}
    /\ UNCHANGED <<now, count, ends, win, excuse>>

\* Time passes, and takes the key with it when its TTL is over.
Tick ==
    /\ now < MaxTime
    /\ now' = now + 1
    /\ IF count # 0 /\ ends <= now + 1
       THEN count' = 0 /\ win' = 0 /\ excuse' = 0
       ELSE UNCHANGED <<count, win, excuse>>
    /\ UNCHANGED <<ends, call, stale>>

LimiterNext ==
    \/ Tick
    \/ \E c \in Calls :
          \/ ReadNone(c)
          \/ ReadSome(c)
          \/ Deny(c)
          \/ SetFirst(c)
          \/ Incr(c)
          \/ IncrMissing(c)

LimiterSpec == LimiterInit /\ [][LimiterNext]_limiterVars
-----------------------------------------------------------------------------
\* Types of the variables.
LimiterTypeOK ==
    /\ now \in 0..MaxTime
    /\ count \in Nat
    /\ ends \in Nat
    /\ call \in [Calls -> {"idle", "allowed", "denied", "error"} \cup InProgress]
    /\ win \in Nat
    /\ stale \subseteq {c \in Calls : call[c] \in InProgress}
    /\ excuse \in Nat

\* No key without an end: a client is never locked out for longer than one
\* window after the last call that found no key (rate_limiter.py:42, 44).
KeyEnds == count # 0 => ends > now /\ ends <= now + Window

\* Nobody is turned away for what was not admitted: a call is denied only when
\* Limit calls were admitted in the life of the key (rate_limiter.py:38-39).
DenialEarned ==
    [][\A c \in Calls :
         call[c] = "idle" /\ call'[c] = "denied" => win >= Limit]_limiterVars

\* What the limiter admits beyond Limit in the life of a key is what calls that
\* overlap explain: Limit for each stale set of a live key, one for each stale
\* increment.  Calls that do not overlap keep to the limit.
OvershootExplained == win <= Limit + excuse

\* The inductive invariant behind both.  The counter never exceeds the calls
\* really admitted, nor falls behind them by more than what is explained; and a
\* call that is not stale acts on the count as it read it, or finds no key.
LimiterInv ==
    /\ LimiterTypeOK
    /\ count <= win
    /\ win <= excuse + count
    /\ OvershootExplained
    /\ count = 0 => win = 0 /\ excuse = 0
    /\ \A c \in Calls \ stale :
          /\ call[c] = "first" => count = 0
          /\ call[c] = "next" => count < Limit
=============================================================================
