------------------------------ MODULE RateLimiter ------------------------------
(***************************************************************************)
(* The token bucket of utils/rate_limiter.py, one per API client, shared by    *)
(* the worker threads.  wait() takes the lock, refills, and takes a token or    *)
(* works out how long to sleep; it sleeps with the lock released and tries      *)
(* again, so another thread may take the token it slept for.  A 429 answer      *)
(* imposes a cooldown on everyone.                                            *)
(*                                                                         *)
(* Time is counted in instants, Minute of them to a minute, and a token is      *)
(* Minute units, so that the refill of one instant is PerMinute units: the      *)
(* code's fractions without the rounding.                                     *)
(***************************************************************************)
EXTENDS Integers

CONSTANTS
    Threads,
    PerMinute,       \* per_minute
    Minute,          \* instants in a minute
    Cooldowns,       \* lengths a cooldown may have
    MaxCalls,        \* bound: calls of wait() in a behaviour
    MaxCooldowns,    \* bound: cooldowns in a behaviour
    MaxTime          \* bound: the clock stops here

ASSUME LimiterAssumption ==
    /\ PerMinute \in Nat /\ PerMinute >= 1
    /\ Minute \in Nat /\ Minute >= 1
    /\ Cooldowns \subseteq Nat
    /\ MaxCalls \in Nat /\ MaxCooldowns \in Nat /\ MaxTime \in Nat

VARIABLES
    now,             \* the monotonic clock
    tokens, last,    \* the bucket and the time of its last refill
    cooldown,        \* _cooldown_until
    wake,            \* when each sleeping thread wakes up
    pc,              \* "idle", "trying", "sleeping" or "through"
    granted,         \* the calls let through so far
    calls, cooldowns \* calls and cooldowns so far

bucket == <<tokens, last, granted>>
bounds == <<calls, cooldowns>>
vars == <<now, bucket, cooldown, wake, pc, bounds>>

Capacity == PerMinute * Minute

AtMost(x, y) == IF x <= y THEN x ELSE y
AtLeast(x, y) == IF x >= y THEN x ELSE y

(* Slip: the bucket is not capped. *)
RefilledUncapped == tokens + (now - last) * PerMinute

(* Slip: elapsed time is counted in whole minutes. *)
RefilledWholeMinutes == AtMost(Capacity, tokens + ((now - last) \div Minute) * Capacity)

Refilled == AtMost(Capacity, tokens + (now - last) * PerMinute)

(* Slip: what the bucket holds already is not counted. *)
TimeToTokenFull(t) == (Minute + PerMinute - 1) \div PerMinute

(* The instants it takes to earn a whole token, rounded up. *)
TimeToToken(t) == (Minute - t + PerMinute - 1) \div PerMinute

Init ==
    /\ now = 0 /\ tokens = Capacity /\ last = 0 /\ cooldown = 0
    /\ wake = [t \in Threads |-> 0]
    /\ pc = [t \in Threads |-> "idle"]
    /\ granted = 0 /\ calls = 0 /\ cooldowns = 0

Call(t) ==
    /\ pc[t] = "idle"
    /\ calls < MaxCalls
    /\ calls' = calls + 1
    /\ pc' = [pc EXCEPT ![t] = "trying"]
    /\ UNCHANGED <<now, bucket, cooldown, wake, cooldowns>>

SleepUntil(t, instant) ==
    /\ pc' = [pc EXCEPT ![t] = "sleeping"]
    /\ wake' = [wake EXCEPT ![t] = instant]

(* During a cooldown nobody gets a token, and the bucket is not refilled. *)
TryInCooldown(t) ==
    /\ pc[t] = "trying" /\ cooldown > now
    /\ SleepUntil(t, cooldown)
    /\ UNCHANGED <<now, bucket, cooldown, bounds>>

TakeToken(t) ==
    /\ pc[t] = "trying" /\ cooldown <= now
    /\ Refilled >= Minute
    /\ tokens' = Refilled - Minute /\ last' = now
    /\ pc' = [pc EXCEPT ![t] = "through"]
    /\ granted' = granted + 1
    /\ UNCHANGED <<now, cooldown, wake, bounds>>

TryInVain(t) ==
    /\ pc[t] = "trying" /\ cooldown <= now
    /\ Refilled < Minute
    /\ tokens' = Refilled /\ last' = now
    /\ SleepUntil(t, now + TimeToToken(Refilled))
    /\ UNCHANGED <<now, granted, cooldown, bounds>>

WakeUp(t) ==
    /\ pc[t] = "sleeping" /\ wake[t] <= now
    /\ pc' = [pc EXCEPT ![t] = "trying"]
    /\ UNCHANGED <<now, bucket, cooldown, wake, bounds>>

(* The call let through was answered. *)
Return(t) ==
    /\ pc[t] = "through"
    /\ pc' = [pc EXCEPT ![t] = "idle"]
    /\ UNCHANGED <<now, bucket, cooldown, wake, bounds>>

(* The call let through was answered 429. *)
ImposeCooldown(t, length) ==
    /\ pc[t] = "through"
    /\ cooldowns < MaxCooldowns
    /\ cooldowns' = cooldowns + 1
    /\ cooldown' = AtLeast(cooldown, now + length)
    /\ pc' = [pc EXCEPT ![t] = "idle"]
    /\ UNCHANGED <<now, bucket, wake, calls>>

Tick == now < MaxTime /\ now' = now + 1 /\ UNCHANGED <<bucket, cooldown, wake, pc, bounds>>

(* The end of a bounded behaviour. *)
ClockStopped == now = MaxTime /\ UNCHANGED vars

Attempt(t) == TryInCooldown(t) \/ TakeToken(t) \/ TryInVain(t) \/ WakeUp(t)

Next ==
    \/ \E t \in Threads : Call(t) \/ Attempt(t) \/ Return(t)
                           \/ \E length \in Cooldowns : ImposeCooldown(t, length)
    \/ Tick \/ ClockStopped

Spec == Init /\ [][Next]_vars

(* The pool runs its threads, each much faster than an instant, and time passes. *)
(* As the clock is bounded, calls and 429s come in its first third only, so that  *)
(* time enough is left for all of them.                                       *)
Ready(t) == pc[t] = "trying" \/ (pc[t] = "sleeping" /\ wake[t] <= now)
PromptNext ==
    /\ Next
    /\ now' # now => \A t \in Threads : ~Ready(t)
    /\ bounds' # bounds => 3 * now <= MaxTime
FairSpec ==
    Init /\ [][PromptNext]_vars /\ WF_vars(PromptNext /\ Tick) /\ \A t \in Threads : WF_vars(Attempt(t))

-----------------------------------------------------------------------------
(* Types. *)
TypeOK ==
    /\ now \in Nat /\ last \in Nat /\ cooldown \in Nat
    /\ tokens \in Nat /\ granted \in Nat /\ calls \in Nat /\ cooldowns \in Nat
    /\ wake \in [Threads -> Nat]
    /\ pc \in [Threads -> {"idle", "trying", "sleeping", "through"}]

(* Whatever the threads and the cooldowns do, the calls let through since the   *)
(* start are paid for: by the bucket full at the start, and by the time that   *)
(* has passed, no part of it counted twice.                                  *)
RateBound == granted * Minute <= Capacity + now * PerMinute

(* The same for every stretch of time: what the bucket could pay goes down by   *)
(* a token with every call let through and up only with time.  It never        *)
(* exceeds one full bucket, so neither does a burst after a quiet hour.       *)
CouldPay == AtMost(Capacity, tokens + (now - last) * PerMinute)
EveryCallPaid ==
    [][(granted' - granted) * Minute + CouldPay' <= CouldPay + (now' - now) * PerMinute]_vars

(* No token goes unused: when one is there, no thread sleeps on, whoever        *)
(* emptied or refilled the bucket since it went to sleep.                     *)
NoIdleToken ==
    CouldPay >= Minute /\ cooldown <= now =>
        \A t \in Threads : pc[t] = "sleeping" => wake[t] <= now

(* Every call gets through, although the token a thread slept for may be taken   *)
(* by another: with finitely many calls the bucket catches up.                *)
EveryoneGetsThrough == \A t \in Threads : (pc[t] = "trying") ~> (pc[t] = "through")
=============================================================================
