--------------------------- MODULE RateLimiterProofs ---------------------------
(***************************************************************************)
(* The rate limiter keeps its limit for any number of threads, any limit and   *)
(* any sequence of cooldowns, and leaves no token unused.                     *)
(*                                                                         *)
(* RateBound is not inductive: what has been let through must be weighed        *)
(* against what the bucket held when it was last refilled (Paid).  Nor is        *)
(* NoIdleToken: a sleeping thread has reckoned with a bucket that others have    *)
(* refilled and emptied since, and never sleeps past the next token (SleepsToToken). *)
(***************************************************************************)
EXTENDS RateLimiter, TLAPS

(* What was let through and what is left, the bucket has earned. *)
Paid ==
    /\ last <= now /\ tokens <= Capacity
    /\ granted * Minute + tokens <= Capacity + last * PerMinute

(* A thread sleeps for the cooldown, or at most to the instant of the next token. *)
SleepsToToken ==
    \A t \in Threads : pc[t] = "sleeping" =>
        wake[t] <= cooldown \/ (wake[t] - last - 1) * PerMinute < Minute - tokens

LimiterInv == TypeOK /\ Paid /\ SleepsToToken

-----------------------------------------------------------------------------
(* Arithmetic *)

LEMMA Monotone ==
    ASSUME NEW a \in Int, NEW b \in Int, NEW c \in Nat, a <= b
    PROVE  a * c <= b * c
<1>1. PICK d \in Nat : b = a + d
  BY SMT
<1>2. b * c = a * c + d * c
  BY <1>1, SMT
<1>3. d * c \in Nat
  BY SMT
<1> QED
  BY <1>2, <1>3, SMT

LEMMA CapacityType == Capacity \in Nat /\ Minute <= Capacity
<1>1. 1 * Minute <= PerMinute * Minute
  BY LimiterAssumption, Monotone, SMT
<1> QED
  BY <1>1, LimiterAssumption, SMT DEF Capacity

(* A bucket is refilled at the rate of the limit, and not beyond its capacity. *)
LEMMA RefillBounds ==
    ASSUME TypeOK, Paid
    PROVE  /\ Refilled \in Nat /\ Refilled <= Capacity
           /\ Refilled <= tokens + (now - last) * PerMinute
           /\ Refilled < Capacity => Refilled = tokens + (now - last) * PerMinute
           /\ tokens <= Refilled
           /\ Refilled = CouldPay
<1>1. (now - last) * PerMinute \in Nat
  <2>1. now - last \in Nat
    BY SMT DEF TypeOK, Paid
  <2> QED
    BY <2>1, LimiterAssumption, SMT
<1> QED
  BY <1>1, CapacityType, SMT DEF TypeOK, Paid, Refilled, CouldPay, AtMost

(* The time a thread sleeps for a token is not longer than it takes to earn it. *)
LEMMA TimeToTokenBound ==
    ASSUME NEW t \in Nat, t < Minute
    PROVE  TimeToToken(t) \in Nat /\ (TimeToToken(t) - 1) * PerMinute < Minute - t
<1> DEFINE x == Minute - t + PerMinute - 1
           n == x \div PerMinute
<1>1. x \in Nat /\ PerMinute \in Nat /\ PerMinute > 0
  BY LimiterAssumption, SMT
<1>2. n \in Nat /\ PerMinute * n <= x
  BY <1>1, SMT
<1>3. (n - 1) * PerMinute = PerMinute * n - PerMinute
  BY <1>1, <1>2, SMT
<1>4. (n - 1) * PerMinute < Minute - t
  BY <1>1, <1>2, <1>3, LimiterAssumption, SMT
<1> QED
  BY <1>2, <1>4 DEF TimeToToken

-----------------------------------------------------------------------------
(* The invariant *)

LEMMA LimiterInit == Init => LimiterInv
<1> SUFFICES ASSUME Init PROVE LimiterInv
  OBVIOUS
<1>1. TypeOK
  BY CapacityType, SMT DEF Init, TypeOK
<1>2. Paid
  <2>1. 0 * Minute = 0 /\ 0 * PerMinute = 0
    BY LimiterAssumption, SMT
  <2> QED
    BY <2>1, CapacityType, SMT DEF Init, Paid
<1>3. SleepsToToken
  BY DEF Init, SleepsToToken
<1> QED
  BY <1>1, <1>2, <1>3 DEF LimiterInv

LEMMA LimiterTypes == LimiterInv /\ [Next]_vars => TypeOK'
<1> SUFFICES ASSUME LimiterInv, [Next]_vars PROVE TypeOK'
  OBVIOUS
<1> USE DEF LimiterInv, TypeOK
<1>1. ASSUME NEW t \in Threads, Call(t) PROVE TypeOK'
  BY <1>1, SMT DEF Call, bucket
<1>2. ASSUME NEW t \in Threads, TryInCooldown(t) PROVE TypeOK'
  BY <1>2, SMT DEF TryInCooldown, SleepUntil, bucket, bounds
<1>3. ASSUME NEW t \in Threads, TakeToken(t) PROVE TypeOK'
  <2>1. Refilled - Minute \in Nat
    BY <1>3, RefillBounds, LimiterAssumption, SMT DEF TakeToken
  <2> QED
    BY <1>3, <2>1, SMT DEF TakeToken, bounds
<1>4. ASSUME NEW t \in Threads, TryInVain(t) PROVE TypeOK'
  <2>1. Refilled \in Nat /\ TimeToToken(Refilled) \in Nat
    BY <1>4, RefillBounds, TimeToTokenBound DEF TryInVain
  <2>2. now + TimeToToken(Refilled) \in Nat
    BY <2>1, SMT
  <2> QED
    BY <1>4, <2>1, <2>2, SMT DEF TryInVain, SleepUntil, bounds
<1>5. ASSUME NEW t \in Threads, WakeUp(t) PROVE TypeOK'
  BY <1>5, SMT DEF WakeUp, bucket, bounds
<1>6. ASSUME NEW t \in Threads, Return(t) PROVE TypeOK'
  BY <1>6, SMT DEF Return, bucket, bounds
<1>7. ASSUME NEW t \in Threads, NEW length \in Cooldowns, ImposeCooldown(t, length)
      PROVE TypeOK'
  BY <1>7, LimiterAssumption, SMT DEF ImposeCooldown, AtLeast, bucket
<1>8. CASE Tick
  BY <1>8, SMT DEF Tick, bucket, bounds
<1>9. CASE ClockStopped \/ UNCHANGED vars
  BY <1>9 DEF ClockStopped, vars, bucket, bounds
<1> QED
  BY <1>1, <1>2, <1>3, <1>4, <1>5, <1>6, <1>7, <1>8, <1>9 DEF Next, Attempt

(* What a step does to the bucket and the clock. *)
LEMMA BucketSteps ==
    ASSUME LimiterInv, [Next]_vars
    PROVE  \/ /\ UNCHANGED <<tokens, last, granted>>
              /\ now' \in {now, now + 1}
           \/ /\ now' = now /\ last' = now /\ cooldown <= now
              /\ tokens' = Refilled - Minute /\ granted' = granted + 1
              /\ Refilled >= Minute
           \/ /\ now' = now /\ last' = now
              /\ tokens' = Refilled /\ granted' = granted
              /\ Refilled < Minute
<1>1. CASE \E t \in Threads : TakeToken(t)
  BY <1>1 DEF TakeToken
<1>2. CASE \E t \in Threads : TryInVain(t)
  BY <1>2 DEF TryInVain
<1>3. ASSUME NEW t \in Threads,
             Call(t) \/ TryInCooldown(t) \/ WakeUp(t) \/ Return(t)
             \/ \E length \in Cooldowns : ImposeCooldown(t, length)
      PROVE  UNCHANGED <<tokens, last, granted, now>>
  BY <1>3 DEF Call, TryInCooldown, WakeUp, Return, ImposeCooldown, bucket
<1>4. CASE Tick
  BY <1>4 DEF Tick, bucket
<1>5. CASE ClockStopped \/ UNCHANGED vars
  BY <1>5 DEF ClockStopped, vars, bucket
<1> QED
  BY <1>1, <1>2, <1>3, <1>4, <1>5 DEF Next, Attempt

LEMMA PaidKept == LimiterInv /\ [Next]_vars => Paid'
<1> SUFFICES ASSUME LimiterInv, [Next]_vars PROVE Paid'
  OBVIOUS
<1>1. /\ now \in Nat /\ last \in Nat /\ tokens \in Nat /\ granted \in Nat
      /\ PerMinute \in Nat /\ Minute \in Nat /\ Capacity \in Nat
  BY LimiterAssumption, CapacityType DEF LimiterInv, TypeOK
<1>2. Capacity' = Capacity
  BY DEF Capacity
<1>3. CASE UNCHANGED <<tokens, last, granted>> /\ now' \in {now, now + 1}
  BY <1>1, <1>2, <1>3, SMT DEF LimiterInv, Paid
<1>4. CASE /\ now' = now /\ last' = now
           /\ tokens' = Refilled - Minute /\ granted' = granted + 1
           /\ Refilled >= Minute
  <2>1. (granted + 1) * Minute = granted * Minute + Minute
    BY <1>1, SMT
  <2>2. (now - last) * PerMinute = now * PerMinute - last * PerMinute
    BY <1>1, SMT
  <2>3. granted * Minute \in Nat /\ now * PerMinute \in Nat /\ last * PerMinute \in Nat
    BY <1>1, SMT
  <2> DEFINE gm == granted * Minute
             np == now * PerMinute
             lp == last * PerMinute
  <2>4. Refilled \in Nat /\ Refilled <= Capacity /\ Refilled <= tokens + (np - lp)
    BY <2>2, RefillBounds DEF LimiterInv
  <2>5. gm + tokens <= Capacity + lp
    BY DEF LimiterInv, Paid
  <2>6. /\ gm \in Nat /\ np \in Nat /\ lp \in Nat
        /\ granted' * Minute = gm + Minute /\ last' * PerMinute = np
    BY <1>4, <2>1, <2>3
  <2> HIDE DEF gm, np, lp
  <2>7. granted' * Minute + tokens' <= Capacity' + last' * PerMinute
    BY <1>1, <1>2, <1>4, <2>4, <2>5, <2>6, SMT
  <2>8. last' <= now' /\ tokens' <= Capacity'
    BY <1>1, <1>2, <1>4, <2>4, SMT
  <2> QED
    BY <2>7, <2>8 DEF Paid
<1>5. CASE /\ now' = now /\ last' = now
           /\ tokens' = Refilled /\ granted' = granted
  <2>2. (now - last) * PerMinute = now * PerMinute - last * PerMinute
    BY <1>1, SMT
  <2>3. granted * Minute \in Nat /\ now * PerMinute \in Nat /\ last * PerMinute \in Nat
    BY <1>1, SMT
  <2> DEFINE gm == granted * Minute
             np == now * PerMinute
             lp == last * PerMinute
  <2>4. Refilled \in Nat /\ Refilled <= Capacity /\ Refilled <= tokens + (np - lp)
    BY <2>2, RefillBounds DEF LimiterInv
  <2>5. gm + tokens <= Capacity + lp
    BY DEF LimiterInv, Paid
  <2>6. /\ gm \in Nat /\ np \in Nat /\ lp \in Nat
        /\ granted' * Minute = gm /\ last' * PerMinute = np
    BY <1>5, <2>3
  <2> HIDE DEF gm, np, lp
  <2>7. granted' * Minute + tokens' <= Capacity' + last' * PerMinute
    BY <1>1, <1>2, <1>5, <2>4, <2>5, <2>6, SMT
  <2>8. last' <= now' /\ tokens' <= Capacity'
    BY <1>1, <1>2, <1>5, <2>4, SMT
  <2> QED
    BY <2>7, <2>8 DEF Paid
<1> QED
  BY <1>3, <1>4, <1>5, BucketSteps

(* A refill of the bucket changes nothing about when the next token is due. *)
LEMMA TokenStillDue ==
    ASSUME LimiterInv, NEW k \in Nat, (k - last - 1) * PerMinute < Minute - tokens
    PROVE  (k - now - 1) * PerMinute < Minute - Refilled
<1>1. /\ now \in Nat /\ last \in Nat /\ tokens \in Nat
      /\ PerMinute \in Nat /\ Minute \in Nat
  BY LimiterAssumption DEF LimiterInv, TypeOK
<1> DEFINE due == (k - last - 1) * PerMinute
           earned == (now - last) * PerMinute
<1>2. (k - now - 1) * PerMinute = due - earned /\ due \in Int /\ earned \in Int
  BY <1>1, SMT
<1>3. Refilled \in Nat /\ Refilled <= tokens + earned
  BY RefillBounds DEF LimiterInv
<1>4. due < Minute - tokens
  OBVIOUS
<1> HIDE DEF due, earned
<1> QED
  BY <1>1, <1>2, <1>3, <1>4, SMT

(* A thread that sleeps on through a step sleeps no longer than before. *)
LEMMA SleeperKept ==
    ASSUME LimiterInv, [Next]_vars, NEW t \in Threads,
           pc[t] = "sleeping", wake'[t] = wake[t], cooldown' >= cooldown
    PROVE  wake'[t] <= cooldown' \/ (wake'[t] - last' - 1) * PerMinute < Minute - tokens'
<1> PICK k \in Nat : k = wake[t]
  BY DEF LimiterInv, TypeOK
<1>1. k <= cooldown \/ (k - last - 1) * PerMinute < Minute - tokens
  BY DEF LimiterInv, SleepsToToken
<1>2. cooldown \in Nat /\ cooldown' \in Nat /\ TypeOK'
  BY LimiterTypes DEF LimiterInv, TypeOK
<1>3. CASE k <= cooldown
  BY <1>2, <1>3, SMT
<1>4. CASE (k - last - 1) * PerMinute < Minute - tokens
  <2>1. CASE UNCHANGED <<tokens, last, granted>>
    BY <1>4, <2>1
  <2>2. CASE last' = now /\ tokens' = Refilled - Minute
    <3>1. (k - now - 1) * PerMinute < Minute - Refilled
      BY <1>4, TokenStillDue
    <3>2. (k - now - 1) * PerMinute \in Int /\ Refilled \in Nat /\ Minute \in Nat
      BY RefillBounds, LimiterAssumption, SMT DEF LimiterInv, TypeOK
    <3> DEFINE d == (k - now - 1) * PerMinute
    <3>3. d < Minute - (Refilled - Minute)
      <4> HIDE DEF d
      <4> QED
        BY <3>1, <3>2, SMT DEF d
    <3> QED
      BY <2>2, <3>3
  <2>3. CASE last' = now /\ tokens' = Refilled
    BY <1>4, <2>3, TokenStillDue
  <2> QED
    BY <2>1, <2>2, <2>3, BucketSteps
<1> QED
  BY <1>1, <1>3, <1>4

LEMMA SleepsKept == LimiterInv /\ [Next]_vars => SleepsToToken'
<1> SUFFICES ASSUME LimiterInv, [Next]_vars, NEW t \in Threads, pc'[t] = "sleeping"
             PROVE  wake'[t] <= cooldown' \/ (wake'[t] - last' - 1) * PerMinute < Minute - tokens'
  BY DEF SleepsToToken
<1>1. TypeOK /\ cooldown \in Nat /\ pc \in [Threads -> {"idle", "trying", "sleeping", "through"}]
      /\ wake \in [Threads -> Nat]
  BY DEF LimiterInv, TypeOK
<1> DEFINE Slept == pc[t] = "sleeping" /\ wake'[t] = wake[t] /\ cooldown' >= cooldown
<1>2. CASE Slept
  BY <1>2, SleeperKept
<1>3. ASSUME NEW u \in Threads, TryInCooldown(u), u = t
      PROVE  wake'[t] <= cooldown'
  BY <1>1, <1>3, SMT DEF TryInCooldown, SleepUntil
<1>4. ASSUME NEW u \in Threads, TryInVain(u), u = t
      PROVE  (wake'[t] - last' - 1) * PerMinute < Minute - tokens'
  <2>1. Refilled \in Nat /\ Refilled < Minute
    BY <1>4, RefillBounds DEF TryInVain, LimiterInv
  <2> PICK n \in Nat : n = TimeToToken(Refilled)
    BY <2>1, TimeToTokenBound
  <2>2. (n - 1) * PerMinute < Minute - Refilled
    BY <2>1, TimeToTokenBound
  <2>3. wake'[t] = now + n /\ last' = now /\ tokens' = Refilled
    BY <1>1, <1>4 DEF TryInVain, SleepUntil
  <2>4. wake'[t] - last' - 1 = n - 1
    BY <1>1, <2>3, SMT DEF TypeOK
  <2> QED
    BY <2>2, <2>3, <2>4
<1>5. ASSUME NEW u \in Threads,
             Call(u) \/ TakeToken(u) \/ WakeUp(u) \/ Return(u)
             \/ (TryInCooldown(u) /\ u # t) \/ (TryInVain(u) /\ u # t)
      PROVE  Slept
  BY <1>1, <1>5, SMT DEF Call, TakeToken, WakeUp, Return, TryInCooldown, TryInVain, SleepUntil, bucket
<1>6. ASSUME NEW u \in Threads, NEW length \in Cooldowns, ImposeCooldown(u, length)
      PROVE  Slept
  BY <1>1, <1>6, LimiterAssumption, SMT DEF ImposeCooldown, AtLeast, TypeOK
<1>7. CASE Tick \/ ClockStopped \/ UNCHANGED vars
  <2>1. UNCHANGED <<pc, wake, cooldown>>
    BY <1>7 DEF Tick, ClockStopped, vars
  <2>2. Slept
    BY <1>1, <2>1, SMT
  <2> QED
    BY <2>2, SleeperKept
<1> QED
  BY <1>2, <1>3, <1>4, <1>5, <1>6, <1>7 DEF Next, Attempt

-----------------------------------------------------------------------------
(* The theorems *)

(* What the bucket has earned and paid, and how long threads sleep, agree in     *)
(* every reachable state (wait, impose_cooldown).                            *)
THEOREM LimiterSound == Spec => []LimiterInv
<1>1. Init => LimiterInv
  BY LimiterInit
<1>2. LimiterInv /\ [Next]_vars => LimiterInv'
  BY LimiterTypes, PaidKept, SleepsKept DEF LimiterInv
<1> QED
  BY <1>1, <1>2, PTL DEF Spec

(* No more calls are let through than the full bucket of the start and the time  *)
(* since then pay for, for any number of threads (wait).                      *)
THEOREM LimitKept == Spec => []RateBound
<1>1. LimiterInv => RateBound
  <2> SUFFICES ASSUME LimiterInv PROVE RateBound
    OBVIOUS
  <2>1. last * PerMinute <= now * PerMinute
    BY Monotone, LimiterAssumption DEF LimiterInv, TypeOK, Paid
  <2>2. /\ last * PerMinute \in Nat /\ now * PerMinute \in Nat /\ granted * Minute \in Nat
        /\ tokens \in Nat /\ Capacity \in Nat
    BY LimiterAssumption, CapacityType, SMT DEF LimiterInv, TypeOK
  <2> DEFINE lp == last * PerMinute
             np == now * PerMinute
             gm == granted * Minute
  <2>3. gm + tokens <= Capacity + lp
    BY DEF LimiterInv, Paid
  <2>4. gm <= Capacity + np
    <3> HIDE DEF lp, np, gm
    <3> QED
      BY <2>1, <2>2, <2>3, SMT DEF lp, np, gm
  <2> QED
    BY <2>4 DEF RateBound
<1> QED
  BY <1>1, LimiterSound, PTL

(* A token that is there finds every sleeping thread's time up, whatever         *)
(* happened to the bucket and the cooldown while it slept (wait).             *)
THEOREM TokensUsed == Spec => []NoIdleToken
<1>1. LimiterInv => NoIdleToken
  <2> SUFFICES ASSUME LimiterInv, CouldPay >= Minute, cooldown <= now,
                      NEW t \in Threads, pc[t] = "sleeping"
               PROVE  wake[t] <= now
    BY DEF NoIdleToken
  <2> PICK k \in Nat : k = wake[t]
    BY DEF LimiterInv, TypeOK
  <2>1. now \in Nat /\ cooldown \in Nat /\ PerMinute \in Nat /\ Minute \in Nat
    BY LimiterAssumption DEF LimiterInv, TypeOK
  <2>2. CASE k <= cooldown
    BY <2>1, <2>2, SMT
  <2>3. CASE (k - last - 1) * PerMinute < Minute - tokens
    <3>1. (k - now - 1) * PerMinute < Minute - Refilled
      BY <2>3, TokenStillDue
    <3>2. Refilled \in Nat /\ Refilled >= Minute
      BY RefillBounds DEF LimiterInv
    <3>3. (k - now - 1) * PerMinute < 0
      <4>1. (k - now - 1) * PerMinute \in Int
        BY <2>1, SMT
      <4> DEFINE d == (k - now - 1) * PerMinute
      <4>2. d \in Int /\ d < Minute - Refilled
        BY <3>1, <4>1
      <4> HIDE DEF d
      <4>3. d < 0
        BY <2>1, <3>2, <4>2, SMT
      <4> QED
        BY <4>3 DEF d
    <3>4. CASE k > now
      <4>1. k - now - 1 \in Nat
        BY <2>1, <3>4, SMT
      <4>2. (k - now - 1) * PerMinute \in Nat
        BY <2>1, <4>1, SMT
      <4> QED
        BY <3>3, <4>2, SMT
    <3> QED
      BY <2>1, <3>4, SMT
  <2> QED
    BY <2>2, <2>3 DEF LimiterInv, SleepsToToken
<1> QED
  BY <1>1, LimiterSound, PTL

(* In every stretch of time, however long and whenever it begins, calls cost a    *)
(* token each and only time earns tokens, up to one full bucket (wait).       *)
THEOREM CallsPaid == Spec => EveryCallPaid
<1> DEFINE Step == (granted' - granted) * Minute + CouldPay' <= CouldPay + (now' - now) * PerMinute
<1>1. ASSUME LimiterInv, [Next]_vars PROVE Step
  <2>1. /\ now \in Nat /\ last \in Nat /\ tokens \in Nat /\ granted \in Nat /\ last <= now
        /\ PerMinute \in Nat /\ Minute \in Nat /\ Capacity \in Nat /\ Minute <= Capacity
    BY <1>1, LimiterAssumption, CapacityType DEF LimiterInv, TypeOK, Paid
  <2>2. /\ Refilled \in Nat /\ Refilled <= Capacity /\ CouldPay = Refilled
    BY <1>1, RefillBounds DEF LimiterInv
  <2>3. CASE UNCHANGED <<tokens, last, granted>> /\ now' \in {now, now + 1}
    <3> DEFINE earned == (now - last) * PerMinute
               earnedNow == (now' - last) * PerMinute
               more == (now' - now) * PerMinute
    <3>1. earned \in Nat /\ more \in Nat /\ earnedNow = earned + more
      <4> PICK d \in {0, 1} : now' = now + d
        BY <2>1, <2>3, SMT
      <4> PICK e \in Nat : now = last + e
        BY <2>1, SMT
      <4>1. now - last = e /\ now' - now = d /\ now' \in Nat
        BY <2>1, SMT
      <4>2. earned = e * PerMinute /\ more = d * PerMinute /\ earned \in Nat /\ more \in Nat
        BY <2>1, <4>1, SMT
      <4>3. earnedNow = earned + more
        BY <2>1, <4>1, SMT
      <4> QED
        BY <4>2, <4>3
    <3>2. (granted' - granted) * Minute = 0
      BY <2>1, <2>3, SMT
    <3>3. /\ CouldPay = AtMost(Capacity, tokens + earned)
          /\ CouldPay' = AtMost(Capacity, tokens + earnedNow)
      BY <2>3 DEF CouldPay, AtMost, Capacity
    <3> HIDE DEF earned, earnedNow, more
    <3>4. 0 + CouldPay' <= CouldPay + more
      BY <2>1, <3>1, <3>3, SMT DEF AtMost
    <3> QED
      BY <3>2, <3>4 DEF more
  <2>4. CASE /\ now' = now /\ last' = now
             /\ tokens' = Refilled - Minute /\ granted' = granted + 1
             /\ Refilled >= Minute
    <3>1. /\ (granted' - granted) * Minute = Minute
          /\ (now' - now) * PerMinute = 0 /\ (now' - last') * PerMinute = 0
      BY <2>1, <2>4, SMT
    <3>2. CouldPay' = AtMost(Capacity, Refilled - Minute + 0)
      BY <2>4, <3>1 DEF CouldPay, AtMost, Capacity
    <3>3. CouldPay' = Refilled - Minute
      BY <2>1, <2>2, <2>4, <3>2, SMT DEF AtMost
    <3> QED
      BY <2>1, <2>2, <3>1, <3>3, SMT
  <2>5. CASE /\ now' = now /\ last' = now
             /\ tokens' = Refilled /\ granted' = granted
             /\ Refilled < Minute
    <3>1. /\ (granted' - granted) * Minute = 0
          /\ (now' - now) * PerMinute = 0 /\ (now' - last') * PerMinute = 0
      BY <2>1, <2>5, SMT
    <3>2. CouldPay' = AtMost(Capacity, Refilled + 0)
      BY <2>5, <3>1 DEF CouldPay, AtMost, Capacity
    <3>3. CouldPay' = Refilled
      BY <2>1, <2>2, <3>2, SMT DEF AtMost
    <3> QED
      BY <2>1, <2>2, <3>1, <3>3, SMT
  <2> QED
    BY <1>1, <2>3, <2>4, <2>5, BucketSteps
<1> QED
  BY <1>1, LimiterSound, PTL DEF Spec, EveryCallPaid
=============================================================================
