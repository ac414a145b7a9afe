----------------------------- MODULE ApiCallsProofs -----------------------------
(***************************************************************************)
(* The breaker bounds the failures of a call and the stragglers of a pause,     *)
(* for any number of threads, any numbers of attempts, and any waits shorter     *)
(* than the pause.                                                           *)
(***************************************************************************)
EXTENDS ApiCalls, TLAPS

(* Attempts are counted from 1, and only a call in progress has a kind.          *)
Attempts ==
    /\ tries \in [Threads -> [Layers -> Nat \ {0}]]
    /\ \A t \in Threads : /\ phase[t] = "counted" => kind[t] \in Guarded
                          /\ phase[t] = "idle" => kind[t] = "none"

(* A thread of the breaker never sleeps as long as the breaker stays open.       *)
ShortSleeps == \A t \in Threads : kind[t] \in Guarded => sleep[t] < Reset

(* The shared counter knows of every failure since the last success ...         *)
AllCounted == failures < Threshold => \A t \in Threads : failed[t] <= failures

(* ... and who has failed Threshold times finds the breaker open on waking up.   *)
Stopped ==
    \A t \in Threads : failed[t] = Threshold /\ kind[t] \in Guarded =>
        \/ phase[t] = "counted"
        \/ phase[t] = "ready" /\ openFor > sleep[t]

(* A straggler that has sent its request is not about to send another.          *)
NoSecondInQueue ==
    \A t \in Threads : late[t] > 0 =>
        openFor > 0 /\ ~(phase[t] = "queued" /\ kind[t] \in Guarded)

IInv ==
    /\ Typed /\ WithinTries /\ Attempts /\ ShortSleeps
    /\ FailuresBounded /\ AllCounted /\ Stopped
    /\ OneStragglerEach /\ NoSecondInQueue

-----------------------------------------------------------------------------
(* A nonempty set of layers has a greatest one.                               *)
LEMMA GreatestLayer ==
    ASSUME NEW S \in SUBSET Layers, S # {}
    PROVE  Max(S) \in S
<1>1. \E x \in S : \A y \in S : x >= y
  <2>1. CASE 4 \in S BY <2>1 DEF Layers
  <2>2. CASE 4 \notin S /\ 3 \in S BY <2>2 DEF Layers
  <2>3. CASE 4 \notin S /\ 3 \notin S /\ 2 \in S BY <2>3 DEF Layers
  <2>4. CASE 4 \notin S /\ 3 \notin S /\ 2 \notin S
    <3>1. \A y \in S : y = 1 BY <2>4 DEF Layers
    <3> QED BY <3>1
  <2> QED BY <2>1, <2>2, <2>3, <2>4
<1> QED BY <1>1 DEF Max

(* A call that is over starts anew with the first attempts.                      *)
LEMMA FirstTriesWithin == \A k, layer : 1 \in 1..MaxTries(k, layer)
BY CallsAssumption DEF MaxTries

LEMMA EndsWithinTries ==
    ASSUME Typed, WithinTries, NEW t \in Threads, tries' = [tries EXCEPT ![t] = FirstTries],
           NEW k, kind' = [kind EXCEPT ![t] = k]
    PROVE  WithinTries'
<1> SUFFICES ASSUME NEW u \in Threads, NEW l \in Layers
             PROVE  tries'[u][l] \in 1..MaxTries(kind'[u], l)
  BY DEF WithinTries
<1>1. CASE u = t
  <2>1. tries'[u][l] = 1 BY <1>1 DEF Typed, FirstTries
  <2> QED BY <2>1, FirstTriesWithin
<1>2. CASE u # t BY <1>2 DEF Typed, WithinTries
<1> QED BY <1>1, <1>2

(* The two ways an exception can go.                                          *)
Ended(t) ==
    /\ phase' = [phase EXCEPT ![t] = "idle"]
    /\ sleep' = [sleep EXCEPT ![t] = 1]
    /\ kind' = [kind EXCEPT ![t] = "none"]
Repeated(t, nap) ==
    /\ phase' = [phase EXCEPT ![t] = "ready"]
    /\ \E wait \in 0..(Reset - 1) : sleep' = [sleep EXCEPT ![t] = nap + wait]
    /\ kind' = kind

(* An exception ends the call or repeats it after a wait shorter than the pause; *)
(* the exception of an open breaker ends it.                                  *)
LEMMA RaiseEndsOrRepeats ==
    ASSUME Typed, WithinTries, Attempts, NEW t \in Threads, NEW class, NEW after \in Nat,
           NEW nap \in Nat, Raise(t, Error(class, after), nap)
    PROVE  /\ tries' \in [Threads -> [Layers -> Nat \ {0}]]
           /\ WithinTries'
           /\ Ended(t) \/ Repeated(t, nap)
           /\ class = "unavailable" => Ended(t)
<1> DEFINE e == Error(class, after)
           repeating == {layer \in Layers :
                            Retries(layer, e) /\ tries[t][layer] < MaxTries(kind[t], layer)}
           layer == Max(repeating)
<1>0. e.class = class /\ e.after = after BY DEF Error
<1>1. CASE repeating = {}
  <2>1. End(t) BY <1>1 DEF Raise
  <2>2. WithinTries' BY <2>1, EndsWithinTries DEF End
  <2> QED BY <2>1, <2>2 DEF End, Ended, Attempts, Typed, FirstTries, Layers
<1>2. CASE repeating # {}
  <2>1. layer \in repeating BY <1>2, GreatestLayer
  <2>2. /\ tries' = [tries EXCEPT ![t] = [l \in Layers |->
                        IF l < layer THEN @[l] ELSE IF l = layer THEN @[l] + 1 ELSE 1]]
        /\ sleep' = [sleep EXCEPT ![t] = nap + Wait(layer, tries[t][layer], e)]
        /\ phase' = [phase EXCEPT ![t] = "ready"]
        /\ kind' = kind
    BY <1>2 DEF Raise
  <2>3. tries' \in [Threads -> [Layers -> Nat \ {0}]] BY <2>1, <2>2 DEF Attempts, Layers
  <2>4. class # "unavailable"
    BY <1>0, <2>1 DEF Retries, RateRetries, StandardRetries
  <2>5. Wait(layer, tries[t][layer], e) \in 0..(Reset - 1)
    <3>1. tries[t][layer] \in Nat \ {0} /\ tries[t][layer] < MaxTries(kind[t], layer)
      BY <2>1 DEF Attempts
    <3>2. CASE layer \in RateLayers
      <4>1. tries[t][layer] \in 1..(RateTries - 1)
        BY <3>1, <3>2, CallsAssumption DEF MaxTries, RateLayers
      <4>2. RateBackoff(tries[t][layer]) \in 0..(Reset - 1)
        BY <4>1, CallsAssumption DEF RateBackoff, AtLeast
      <4> QED BY <1>0, <3>2, <4>2, CallsAssumption DEF Wait, RateWait, AtMost
    <3>3. CASE layer \notin RateLayers
      <4>1. tries[t][layer] \in 1..(StandardTries - 1)
        BY <3>1, <3>3, CallsAssumption DEF MaxTries
      <4>2. StandardWait(tries[t][layer]) \in 0..(Reset - 1)
        BY <4>1, CallsAssumption DEF StandardWait, AtMost
      <4> QED BY <3>3, <4>2 DEF Wait
    <3> QED BY <3>2, <3>3
  <2>6. WithinTries'
    <3> SUFFICES ASSUME NEW u \in Threads, NEW l \in Layers
                 PROVE  tries'[u][l] \in 1..MaxTries(kind[u], l)
      BY <2>2 DEF WithinTries
    <3>1. tries[u][l] \in 1..MaxTries(kind[u], l) BY DEF WithinTries
    <3>2. MaxTries(kind[u], l) \in Nat \ {0} BY CallsAssumption DEF MaxTries
    <3>3. CASE u = t
      <4>1. tries'[t][l] = IF l < layer THEN tries[t][l]
                           ELSE IF l = layer THEN tries[t][l] + 1 ELSE 1
        BY <2>2 DEF Typed
      <4>2. l = layer => tries[t][l] < MaxTries(kind[t], l) BY <2>1
      <4> QED BY <3>1, <3>2, <3>3, <4>1, <4>2
    <3>4. CASE u # t BY <2>2, <3>1, <3>4 DEF Typed
    <3> QED BY <3>3, <3>4
  <2> QED BY <2>2, <2>3, <2>4, <2>5, <2>6 DEF Repeated
<1> QED BY <1>1, <1>2

(* The part of the invariant an exception alone can disturb is kept by Raise when  *)
(* the counters of the breaker and the histories stay as they are.              *)
LEMMA RaiseKeeps ==
    ASSUME IInv, NEW t \in Threads, NEW class, NEW after \in Nat, NEW nap \in Nat,
           Raise(t, Error(class, after), nap), kind[t] \in Guarded => nap = 0,
           phase[t] # "idle", phase[t] # "queued",
           phase[t] = "counted" => openFor' = Reset,
           phase[t] = "ready" => Ended(t),
           openFor' \in 0..Reset, openFor' >= openFor,
           failures' \in 0..Threshold, failures' = failures,
           UNCHANGED <<named, history>>, coolFor' \in Nat
    PROVE  IInv'
<1> USE DEF IInv
<1>1. /\ tries' \in [Threads -> [Layers -> Nat \ {0}]] /\ WithinTries'
      /\ Ended(t) \/ Repeated(t, nap)
  BY RaiseEndsOrRepeats
<1>2. Reset \in Nat /\ Reset > 0 /\ Threshold \in Nat \ {0} BY CallsAssumption
<1>3. Typed'
  <2>1. tries' \in [Threads -> [Layers -> Nat]] BY <1>1
  <2>2. CASE Ended(t) BY <1>2, <2>1, <2>2 DEF Typed, Ended, history
  <2>3. CASE Repeated(t, nap)
    <3>1. PICK wait \in 0..(Reset - 1) : sleep' = [sleep EXCEPT ![t] = nap + wait]
      BY <2>3 DEF Repeated
    <3>2. sleep' \in [Threads -> Nat] BY <1>2, <3>1 DEF Typed
    <3> QED BY <1>2, <2>1, <2>3, <3>2 DEF Typed, Repeated, history
  <2> QED BY <1>1, <2>2, <2>3
<1>4. Attempts' BY <1>1 DEF Attempts, Ended, Repeated, Typed
<1>5. ShortSleeps'
  <2>1. CASE Ended(t) BY <1>2, <2>1 DEF ShortSleeps, Ended, Typed, Guarded
  <2>2. CASE Repeated(t, nap) BY <1>2, <2>2 DEF ShortSleeps, Repeated, Typed
  <2> QED BY <1>1, <2>1, <2>2
<1>6. FailuresBounded' /\ AllCounted' /\ OneStragglerEach'
  BY DEF FailuresBounded, AllCounted, OneStragglerEach, history
<1>7. Stopped'
  <2> SUFFICES ASSUME NEW u \in Threads, failed[u] = Threshold, kind'[u] \in Guarded
               PROVE  \/ phase'[u] = "counted"
                      \/ phase'[u] = "ready" /\ openFor' > sleep'[u]
    BY DEF Stopped, history
  <2>1. CASE Ended(t)
    <3>1. u # t BY <2>1 DEF Ended, Typed, Guarded
    <3> QED BY <2>1, <3>1 DEF Ended, Typed, Stopped
  <2>2. CASE Repeated(t, nap) /\ u = t
    <3>1. phase[t] = "counted"
      <4>1. CASE phase[t] = "ready"
        <5>1. kind'[t] = "none" BY <4>1 DEF Ended, Typed
        <5> QED BY <2>2, <5>1 DEF Guarded
      <4> QED BY <2>2, <4>1 DEF Stopped, Repeated
    <3>2. sleep'[t] < Reset BY <1>5, <2>2 DEF ShortSleeps
    <3> QED BY <2>2, <3>1, <3>2 DEF Repeated, Typed
  <2>3. CASE Repeated(t, nap) /\ u # t
    <3>1. phase'[u] = phase[u] /\ sleep'[u] = sleep[u] /\ kind'[u] = kind[u]
      BY <2>3 DEF Repeated, Typed
    <3> QED BY <1>2, <3>1 DEF Stopped, Typed
  <2> QED BY <1>1, <2>1, <2>2, <2>3
<1>8. NoSecondInQueue'
  BY <1>1, <1>2 DEF NoSecondInQueue, Ended, Repeated, Typed, history, Guarded
<1> QED BY <1>1, <1>3, <1>4, <1>5, <1>6, <1>7, <1>8

-----------------------------------------------------------------------------
(* Initially no call is in progress.                                         *)
LEMMA InitHolds == Init => IInv
<1> SUFFICES ASSUME Init PROVE IInv OBVIOUS
<1> USE CallsAssumption DEF Init, FirstTries, Layers, Guarded
<1>0. WithinTries BY FirstTriesWithin DEF WithinTries
<1>1. Typed /\ Attempts BY DEF Typed, Attempts
<1>2. ShortSleeps /\ FailuresBounded /\ AllCounted BY DEF ShortSleeps, FailuresBounded, AllCounted
<1>3. Stopped /\ OneStragglerEach /\ NoSecondInQueue
  BY DEF Stopped, OneStragglerEach, NoSecondInQueue
<1> QED BY <1>0, <1>1, <1>2, <1>3 DEF IInv

(* A call begins with no failure of its own.                                   *)
LEMMA BeginKeeps ==
    ASSUME IInv, NEW t \in Threads, NEW k \in Kinds, Begin(t, k)
    PROVE  IInv'
<1> USE CallsAssumption DEF IInv, Begin, breaker
<1>1. Typed' BY DEF Typed
<1>8. WithinTries'
  <2> SUFFICES ASSUME NEW l \in Layers PROVE tries[t][l] \in 1..MaxTries(k, l)
    BY DEF Typed, WithinTries
  <2>1. tries[t][l] \in 1..MaxTries("none", l) BY DEF Attempts, WithinTries
  <2> QED BY <2>1 DEF MaxTries, Typed
<1>2. Attempts' /\ ShortSleeps' BY DEF Typed, Attempts, ShortSleeps
<1>3. FailuresBounded' BY DEF Typed, FailuresBounded
<1>4. AllCounted' BY DEF Typed, AllCounted
<1>5. Stopped' BY DEF Typed, Stopped
<1>6. OneStragglerEach' BY DEF OneStragglerEach
<1>7. NoSecondInQueue' BY DEF Typed, NoSecondInQueue
<1> QED BY <1>1, <1>2, <1>3, <1>4, <1>5, <1>6, <1>7, <1>8

(* Only who has not failed Threshold times, or has waited out the pause, is let   *)
(* into the queue of the limiter.                                             *)
LEMMA CheckPassesKeeps ==
    ASSUME IInv, NEW t \in Threads, CheckPasses(t)
    PROVE  IInv'
<1> USE CallsAssumption DEF IInv, CheckPasses, Trying, breaker, history
<1>1. Typed' /\ WithinTries' BY DEF Typed, WithinTries
<1>2. Attempts' /\ ShortSleeps' BY DEF Typed, Attempts, ShortSleeps
<1>3. FailuresBounded' /\ AllCounted' /\ OneStragglerEach'
  BY DEF FailuresBounded, AllCounted, OneStragglerEach
<1>4. Stopped' BY DEF Typed, Stopped
<1>5. NoSecondInQueue' BY DEF Typed, NoSecondInQueue
<1> QED BY <1>1, <1>2, <1>3, <1>4, <1>5

(* The error of an open breaker is not retried.                               *)
LEMMA CheckRefusesKeeps ==
    ASSUME IInv, NEW t \in Threads, CheckRefuses(t)
    PROVE  IInv'
<1>1. Raise(t, Error("unavailable", 0), 0) /\ phase[t] = "ready" /\ kind[t] \in Guarded
  BY DEF CheckRefuses, Trying
<1>2. Ended(t)
  <2>1. Typed /\ WithinTries /\ Attempts BY DEF IInv
  <2>2. "unavailable" = "unavailable" => Ended(t) BY ONLY <1>1, <2>1, RaiseEndsOrRepeats, t \in Threads
  <2> QED BY <2>2
<1>3. UNCHANGED <<breaker, coolFor, named, history>> BY DEF CheckRefuses
<1>4. openFor' \in 0..Reset /\ openFor' >= openFor /\ failures' \in 0..Threshold
      /\ failures' = failures /\ coolFor' \in Nat
  BY <1>3, CallsAssumption DEF IInv, Typed, breaker
<1> QED BY <1>1, <1>2, <1>3, <1>4, RaiseKeeps

(* Who leaves the queue while the breaker is open is a straggler, for once.      *)
LEMMA PassLimiterKeeps ==
    ASSUME IInv, NEW t \in Threads, PassLimiter(t)
    PROVE  IInv'
<1> USE CallsAssumption DEF IInv, PassLimiter, CanPass, breaker
<1>1. Typed' /\ WithinTries' BY DEF Typed, WithinTries
<1>2. Attempts' /\ ShortSleeps' BY DEF Typed, Attempts, ShortSleeps
<1>3. FailuresBounded' /\ AllCounted' BY DEF FailuresBounded, AllCounted
<1>4. Stopped' BY DEF Typed, Stopped
<1>5. OneStragglerEach' BY DEF Typed, OneStragglerEach, NoSecondInQueue
<1>6. NoSecondInQueue' BY DEF Typed, NoSecondInQueue
<1> QED BY <1>1, <1>2, <1>3, <1>4, <1>5, <1>6

(* A success forgets the failures.                                           *)
LEMMA SucceedsKeeps ==
    ASSUME IInv, NEW t \in Threads, Succeeds(t)
    PROVE  IInv'
<1> USE CallsAssumption DEF IInv
<1>1. tries' \in [Threads -> [Layers -> Nat \ {0}]]
  BY DEF Succeeds, End, Attempts, FirstTries, Layers
<1>0. WithinTries'
  <2>1. PICK k : kind' = [kind EXCEPT ![t] = k] /\ tries' = [tries EXCEPT ![t] = FirstTries]
    BY DEF Succeeds, End
  <2> QED BY <2>1, EndsWithinTries
<1>2. CASE kind[t] \in Guarded
  <2>1. failures' = 0 /\ openFor' = 0 /\ coolFor' = coolFor
        /\ failed' = [u \in Threads |-> 0] /\ late' = [u \in Threads |-> 0]
    BY <1>2 DEF Succeeds
  <2>2. \/ End(t) /\ named' = named
        \/ /\ kind' = [kind EXCEPT ![t] = "plain"] /\ phase' = [phase EXCEPT ![t] = "ready"]
           /\ sleep' = sleep /\ named' = TRUE
    BY DEF Succeeds
  <2>3. Typed'
    <3>1. tries' \in [Threads -> [Layers -> Nat]] BY <1>1
    <3>2. phase' \in [Threads -> {"idle", "ready", "queued", "sent", "counted"}]
          /\ kind' \in [Threads -> Kinds \cup {"none"}] /\ sleep' \in [Threads -> Nat]
      <4>1. CASE End(t) BY <4>1 DEF Typed, End
      <4>2. CASE /\ kind' = [kind EXCEPT ![t] = "plain"]
                 /\ phase' = [phase EXCEPT ![t] = "ready"] /\ sleep' = sleep
        BY <4>2 DEF Typed, Kinds
      <4> QED BY <2>2, <4>1, <4>2
    <3>3. failures' \in 0..Threshold /\ openFor' \in 0..Reset /\ coolFor' \in Nat
          /\ failed' \in [Threads -> Nat] /\ late' \in [Threads -> Nat]
      BY <2>1, 0 \in 0..Threshold, 0 \in 0..Reset DEF Typed
    <3>4. named' \in BOOLEAN BY <2>2 DEF Typed
    <3> QED BY <3>1, <3>2, <3>3, <3>4 DEF Typed
  <2>4. Attempts' BY <1>1, <2>2 DEF Typed, Attempts, End, Guarded
  <2>5. ShortSleeps' BY <1>2, <2>2 DEF Typed, ShortSleeps, End, Guarded
  <2>6. FailuresBounded' /\ AllCounted' /\ Stopped' /\ OneStragglerEach' /\ NoSecondInQueue'
    BY <2>1 DEF FailuresBounded, AllCounted, Stopped, OneStragglerEach, NoSecondInQueue
  <2> QED BY <1>0, <2>3, <2>4, <2>5, <2>6
<1>3. CASE kind[t] \notin Guarded
  <2>1. End(t) /\ UNCHANGED <<named, breaker, history, coolFor>>
    BY <1>3 DEF Succeeds, Guarded
  <2> USE <2>1 DEF breaker, history
  <2>2. Typed' BY <1>1 DEF Typed, End
  <2>3. Attempts' /\ ShortSleeps' BY <1>1 DEF Typed, Attempts, ShortSleeps, End, Guarded
  <2>4. FailuresBounded' /\ AllCounted' /\ OneStragglerEach'
    BY DEF FailuresBounded, AllCounted, OneStragglerEach
  <2>5. Stopped' BY DEF Typed, Stopped, End, Guarded
  <2>6. NoSecondInQueue' BY DEF Typed, NoSecondInQueue, End
  <2> QED BY <1>0, <2>2, <2>3, <2>4, <2>5, <2>6
<1> QED BY <1>2, <1>3

(* The failure that does not reach the threshold is known to the counter; the one  *)
(* that does leaves its thread about to open the breaker.                        *)
LEMMA FailsKeeps ==
    ASSUME IInv, NEW t \in Threads, Fails(t)
    PROVE  IInv'
<1> USE CallsAssumption DEF IInv
<1>1. /\ phase[t] = "sent" /\ kind[t] \in Guarded
      /\ failures' = AtMost(Threshold, failures + 1)
      /\ failed' = [failed EXCEPT ![t] = @ + 1]
      /\ UNCHANGED <<openFor, coolFor, named, late>>
  BY DEF Fails
<1>2. failures' \in 0..Threshold /\ failures' >= failures BY <1>1 DEF Typed, AtMost
<1>3. failed' \in [Threads -> Nat] BY <1>1 DEF Typed
<1>4. CASE failures + 1 >= Threshold
  <2>1. phase' = [phase EXCEPT ![t] = "counted"] /\ UNCHANGED <<kind, tries, sleep>>
    BY <1>4 DEF Fails
  <2>2. Typed' /\ WithinTries' BY <1>1, <1>2, <1>3, <2>1 DEF Typed, WithinTries
  <2>3. Attempts' /\ ShortSleeps' BY <1>1, <2>1 DEF Typed, Attempts, ShortSleeps
  <2>4. failures' = Threshold BY <1>1, <1>4 DEF Typed, AtMost
  <2>5. AllCounted' BY <2>4 DEF AllCounted
  <2>6. failed[t] < Threshold
    <3>1. failed[t] <= Threshold BY DEF FailuresBounded
    <3>2. failed[t] # Threshold BY <1>1 DEF Stopped
    <3>3. failed[t] \in Nat /\ Threshold \in Nat BY DEF Typed
    <3> QED BY <3>1, <3>2, <3>3
  <2>7. FailuresBounded' BY <1>1, <2>6 DEF Typed, FailuresBounded
  <2>8. Stopped' BY <1>1, <2>1 DEF Typed, Stopped
  <2>9. OneStragglerEach' /\ NoSecondInQueue'
    BY <1>1, <2>1 DEF Typed, OneStragglerEach, NoSecondInQueue
  <2> QED BY <2>2, <2>3, <2>5, <2>7, <2>8, <2>9
<1>5. CASE failures + 1 < Threshold
  <2>1. Raise(t, Error("down", 0), 0) BY <1>5 DEF Fails, Typed
  <2>3. /\ tries' \in [Threads -> [Layers -> Nat \ {0}]] /\ WithinTries'
        /\ Ended(t) \/ Repeated(t, 0)
    BY <2>1, RaiseEndsOrRepeats
  <2>4. Typed'
    <3>1. tries' \in [Threads -> [Layers -> Nat]] BY <2>3
    <3>2. CASE Ended(t) BY <1>1, <1>2, <1>3, <3>1, <3>2 DEF Typed, Ended
    <3>3. CASE Repeated(t, 0) BY <1>1, <1>2, <1>3, <3>1, <3>3 DEF Typed, Repeated
    <3> QED BY <2>3, <3>2, <3>3
  <2>5. Attempts' BY <2>3 DEF Attempts, Ended, Repeated, Typed
  <2>6. ShortSleeps'
    <3>1. Reset > 0 BY CallsAssumption
    <3>2. CASE Ended(t) BY <3>1, <3>2 DEF ShortSleeps, Ended, Typed, Guarded
    <3>3. CASE Repeated(t, 0) BY <3>1, <3>3 DEF ShortSleeps, Repeated, Typed
    <3> QED BY <2>3, <3>2, <3>3
  <2>7. failures' = failures + 1 /\ failures' < Threshold BY <1>1, <1>5 DEF Typed, AtMost
  <2>8. \A u \in Threads : failed'[u] <= failures' /\ failed'[u] < Threshold
    BY <1>1, <2>7 DEF Typed, AllCounted
  <2>9. FailuresBounded' /\ AllCounted' /\ Stopped'
    <3>1. Threshold \in Nat /\ \A u \in Threads : failed'[u] \in Nat BY <1>3
    <3> QED BY <2>7, <2>8, <3>1 DEF FailuresBounded, AllCounted, Stopped
  <2>10. OneStragglerEach' BY <1>1 DEF OneStragglerEach
  <2>11. NoSecondInQueue' BY <1>1, <2>3 DEF NoSecondInQueue, Ended, Repeated, Typed, Guarded
  <2> QED BY <2>3, <2>4, <2>5, <2>6, <2>9, <2>10, <2>11
<1> QED BY <1>4, <1>5 DEF Typed

(* The breaker opens again for its whole pause.                                *)
LEMMA OpenBreakerKeeps ==
    ASSUME IInv, NEW t \in Threads, OpenBreaker(t)
    PROVE  IInv'
<1>1. /\ phase[t] = "counted" /\ openFor' = Reset
      /\ Raise(t, Error("down", 0), 0)
      /\ UNCHANGED <<failures, coolFor, named, history>>
  BY DEF OpenBreaker
<1>3. openFor' \in 0..Reset /\ openFor' >= openFor /\ failures' \in 0..Threshold
      /\ coolFor' \in Nat
  BY <1>1, CallsAssumption DEF IInv, Typed
<1> QED BY <1>1, <1>3, RaiseKeeps

(* Of a failed answer that is not counted, only the exception matters.            *)
LEMMA UncountedKeeps ==
    ASSUME IInv, NEW t \in Threads, NEW class, NEW after \in Nat, NEW nap \in Nat,
           phase[t] = "sent", kind[t] \in Guarded => nap = 0,
           Raise(t, Error(class, after), nap),
           coolFor' \in Nat, UNCHANGED <<breaker, named, history>>
    PROVE  IInv'
<1>1. openFor' \in 0..Reset /\ openFor' >= openFor /\ failures' \in 0..Threshold
      /\ failures' = failures
  BY CallsAssumption DEF IInv, Typed, breaker
<1> QED BY <1>1, RaiseKeeps DEF history

(* A second passes for every sleep and every pause alike.                        *)
LEMMA TickKeeps ==
    ASSUME IInv, Tick
    PROVE  IInv'
<1> USE CallsAssumption DEF IInv
<1>1. \A n \in Nat : Less(n) \in Nat /\ Less(n) <= n /\ (n > 0 => Less(n) = n - 1)
                  /\ (n = 0 => Less(n) = 0)
  BY DEF Less, AtLeast
<1>2. /\ sleep' = [t \in Threads |-> Less(sleep[t])]
      /\ openFor' = Less(openFor) /\ coolFor' = Less(coolFor)
      /\ late' = IF openFor > 1 THEN late ELSE [t \in Threads |-> 0]
      /\ UNCHANGED <<phase, kind, tries, failures, named, failed>>
  BY DEF Tick
<1>3. Typed'
  <2>1. sleep' \in [Threads -> Nat] /\ late' \in [Threads -> Nat] BY <1>1, <1>2 DEF Typed
  <2>2. openFor' \in 0..Reset /\ coolFor' \in Nat BY <1>1, <1>2 DEF Typed
  <2> QED BY <1>2, <2>1, <2>2 DEF Typed
<1>4. Attempts' /\ WithinTries' BY <1>2 DEF Attempts, WithinTries
<1>5. ShortSleeps' BY <1>1, <1>2 DEF Typed, ShortSleeps
<1>6. FailuresBounded' /\ AllCounted' BY <1>2 DEF FailuresBounded, AllCounted
<1>7. Stopped'
  <2> SUFFICES ASSUME NEW u \in Threads, failed[u] = Threshold, kind[u] \in Guarded
               PROVE  \/ phase[u] = "counted"
                      \/ phase[u] = "ready" /\ openFor' > sleep'[u]
    BY <1>2 DEF Stopped
  <2>1. CASE phase[u] = "counted" BY <2>1
  <2>2. CASE phase[u] = "ready" /\ openFor > sleep[u]
    <3>1. sleep[u] # 0 BY <2>2 DEF Tick, Trying
    <3>2. openFor' = openFor - 1 /\ sleep'[u] = sleep[u] - 1
      BY <1>1, <1>2, <2>2, <3>1 DEF Typed
    <3> QED BY <2>2, <3>2 DEF Typed
  <2> QED BY <2>1, <2>2 DEF Stopped
<1>8. OneStragglerEach' BY <1>2 DEF Typed, OneStragglerEach
<1>9. NoSecondInQueue' BY <1>1, <1>2 DEF Typed, NoSecondInQueue
<1> QED BY <1>3, <1>4, <1>5, <1>6, <1>7, <1>8, <1>9

-----------------------------------------------------------------------------
(* The invariant is inductive.                                               *)
LEMMA StepKeeps == IInv /\ [Next]_vars => IInv'
<1> SUFFICES ASSUME IInv, [Next]_vars PROVE IInv' OBVIOUS
<1>1. CASE Tick BY <1>1, TickKeeps
<1>2. ASSUME NEW t \in Threads, Call(t) PROVE IInv'
  <2>1. PICK k \in Kinds : Begin(t, k)
    BY <1>2 DEF Call, Request, DirectCall, UploadCsv, Post, ListInventory, Kinds
  <2> QED BY <2>1, BeginKeeps
<1>3. ASSUME NEW t \in Threads, Step(t) PROVE IInv'
  <2> DEFINE Times == RetryAfters \cup {0}
  <2>1. \A after \in Times : after \in Nat BY CallsAssumption
  <2>2. CASE CheckPasses(t) BY <2>2, CheckPassesKeeps
  <2>3. CASE CheckRefuses(t) BY <2>3, CheckRefusesKeeps
  <2>4. CASE OpenBreaker(t) BY <2>4, OpenBreakerKeeps
  <2>5. CASE PassLimiter(t) BY <2>5, PassLimiterKeeps
  <2>6. CASE Succeeds(t) BY <2>6, SucceedsKeeps
  <2>7. CASE Fails(t) BY <2>7, FailsKeeps
  <2>8. coolFor \in Nat BY DEF IInv, Typed
  <2>10. CASE Refused(t)
    <3>1. /\ phase[t] = "sent" /\ Raise(t, Error("refused", 0), 0)
          /\ UNCHANGED <<breaker, coolFor, named, history>>
      BY <2>10 DEF Refused
    <3>2. coolFor' \in Nat BY <2>8, <3>1
    <3> QED BY <3>1, <3>2, UncountedKeeps DEF breaker, history
  <2>11. ASSUME NEW after \in Times, NEW exhausted \in BOOLEAN, Throttled(t, after, exhausted)
         PROVE  IInv'
    <3>1. /\ phase[t] = "sent" /\ Raise(t, Error("busy", after), 0)
          /\ UNCHANGED <<breaker, named, history>>
      BY <2>11 DEF Throttled
    <3>2. coolFor' \in Nat
      BY <2>1, <2>8, <2>11, CallsAssumption DEF Throttled, CooldownSeconds, AtLeast
    <3> QED BY <2>1, <3>1, <3>2, UncountedKeeps
  <2>12. ASSUME NEW class \in {"down", "conflict"}, UploadFails(t, class) PROVE IInv'
    <3>1. /\ phase[t] = "sent" /\ Raise(t, Error(class, 0), 0)
          /\ UNCHANGED <<breaker, coolFor, named, history>>
      BY <2>12 DEF UploadFails
    <3>2. coolFor' \in Nat BY <2>8, <3>1
    <3> QED BY <3>1, <3>2, UncountedKeeps DEF breaker, history
  <2>13. ASSUME NEW class \in {"down", "busy", "refused", "blocked"}, NEW after \in Times,
                PostFails(t, class, after) \/ PostRejected(t, class, after)
         PROVE  IInv'
    <3>1. PICK wait \in Nat, nap \in Nat :
             /\ phase[t] = "sent" /\ kind[t] = "post" /\ Raise(t, Error(class, wait), nap)
             /\ UNCHANGED <<breaker, coolFor, named, history>>
      BY <2>1, <2>13 DEF PostFails, PostRejected
    <3>2. coolFor' \in Nat BY <2>8, <3>1
    <3>3. kind[t] \notin Guarded BY <3>1 DEF Guarded
    <3> QED BY <3>1, <3>2, <3>3, UncountedKeeps DEF breaker, history
  <2> QED
    BY <1>3, <2>2, <2>3, <2>4, <2>5, <2>6, <2>7, <2>10, <2>11, <2>12, <2>13
    DEF Step, Advance, Answered
<1>4. CASE UNCHANGED vars
  BY <1>4 DEF vars, breaker, history, IInv, Typed, WithinTries, Attempts, ShortSleeps, FailuresBounded,
              AllCounted, Stopped, OneStragglerEach, NoSecondInQueue
<1> QED BY <1>1, <1>2, <1>3, <1>4 DEF Next

(* The strengthening of the two bounds holds throughout.                        *)
THEOREM Inductive == Spec => []IInv
<1> QED BY InitHolds, StepKeeps, PTL DEF Spec

(* Every variable keeps its type, and no layer makes more attempts than           *)
(* stop_after_attempt allows, for any number of attempts of the two decorators     *)
(* and any number of threads (standard_retry and rate_limit_retry of retry.py).    *)
THEOREM Types == Spec => []TypeOK
<1>1. IInv => TypeOK BY DEF IInv, TypeOK
<1> QED BY <1>1, Inductive, PTL

(* No call meets more failures than the threshold while nobody succeeds.         *)
THEOREM BreakerBoundsFailures == Spec => []FailuresBounded
<1>1. IInv => FailuresBounded BY DEF IInv
<1> QED BY <1>1, Inductive, PTL

(* No thread sends two requests while the breaker is open.                       *)
THEOREM OneStraggler == Spec => []OneStragglerEach
<1>1. IInv => OneStragglerEach BY DEF IInv
<1> QED BY <1>1, Inductive, PTL
=============================================================================
