-------------------------------- MODULE ApiCalls --------------------------------
(***************************************************************************)
(* The calls the two API clients make, and everything that may repeat one:      *)
(* the retry decorators of retry.py, which create, edit and delete of a Discogs *)
(* listing apply twice (their own around those of _request), the circuit        *)
(* breaker of the Discogs client, shared by the threads without a lock, and the *)
(* cooldown its 429 answers impose.                                          *)
(*                                                                         *)
(* Left out: the tokens of the limiter (module RateLimiter) and the payloads.   *)
(* Time is counted in seconds that remain, so that no clock has to be bounded.  *)
(***************************************************************************)
EXTENDS Integers, FiniteSetsExt

CONSTANTS
    Threads,
    MayCall,           \* the kinds of calls each thread makes
    StandardTries,     \* stop_after_attempt of standard_retry
    RateTries,         \* stop_after_attempt of rate_limit_retry
    MaxStandardWait,   \* wait_exponential(max=...) of standard_retry
    MinRateWait,       \* wait_exponential(min=...) of rate_limit_retry
    MaxRetryAfter,     \* _max_rate_limit_wait
    RetryAfters,       \* values a Retry-After header or a block may have
    FallbackCooldown,  \* _RATE_LIMIT_FALLBACK_COOLDOWN
    Threshold,         \* _breaker_threshold
    Reset              \* _breaker_reset

VARIABLES
    phase,      \* "idle", "ready", "queued" at the limiter, "sent", or "counted"
    kind,       \* what each thread is calling, "none" when idle
    tries,      \* the attempt each layer of retries is at
    sleep,      \* seconds a thread has still to sleep
    failures,   \* _breaker_failures, and Threshold for any more
    openFor,    \* seconds until _breaker_open_until
    coolFor,    \* seconds until the limiter's _cooldown_until
    named,      \* _username is known
    failed,     \* history: failures of a call since anyone last succeeded
    late        \* history: requests a thread sent since the breaker opened

breaker == <<failures, openFor>>
history == <<failed, late>>
vars == <<phase, kind, tries, sleep, breaker, coolFor, named, history>>

AtMost(x, y) == IF x <= y THEN x ELSE y
AtLeast(x, y) == IF x >= y THEN x ELSE y

(* The exponential waits after each attempt: wait_exponential of multiplier 1,   *)
(* and of multiplier 2 for a 429 that names no time.                           *)
StandardWait(attempt) ==
    AtMost(MaxStandardWait, CASE attempt = 1 -> 1 [] attempt = 2 -> 2 [] attempt = 3 -> 4 [] OTHER -> 8)

RateBackoff(attempt) == AtLeast(MinRateWait, IF attempt = 1 THEN 2 ELSE 4)

(* The breaker stays open for longer than any wait between two attempts.       *)
ASSUME CallsAssumption ==
    /\ MayCall \in [Threads -> SUBSET {"plain", "direct", "list", "upload", "post"}]
    /\ StandardTries \in Nat \ {0} /\ RateTries \in Nat \ {0}
    /\ Threshold \in Nat \ {0} /\ Reset \in Nat
    /\ MaxStandardWait \in Nat /\ MinRateWait \in Nat /\ MaxRetryAfter \in Nat
    /\ RetryAfters \subseteq Nat \ {0}
    /\ FallbackCooldown \in Nat
    /\ \A attempt \in 1..(StandardTries - 1) : StandardWait(attempt) < Reset
    /\ \A attempt \in 1..(RateTries - 1) : RateBackoff(attempt) < Reset
    /\ MaxRetryAfter < Reset

(* "plain": one _request.  "direct": create_listing, edit_listing and            *)
(* delete_listing.  "identity": the request list_inventory makes before its own  *)
(* while the user name is unknown.  "upload": an inventory CSV.  "post": a call   *)
(* of the BaseLinker API.                                                     *)
Kinds == {"plain", "direct", "identity", "upload", "post"}

(* The calls that go through _request, and with it past the breaker.            *)
Guarded == {"plain", "direct", "identity"}

(* Layers of retries, outermost first.  Only "direct" calls have the outer two.  *)
Layers == 1..4
RateLayers == {1, 3}
MaxTries(k, layer) ==
    IF layer < 3 /\ k # "direct" THEN 1
    ELSE IF layer \in RateLayers THEN RateTries ELSE StandardTries

FirstTries == [layer \in Layers |-> 1]

(* Slip: the error of an open breaker carries its HTTP status into the retries.  *)
StandardRetriesUnavailable(e) == e.class \in {"down", "conflict", "unavailable"}

(* What is raised: "down" (no connection, or a status of 500 and more),          *)
(* "conflict" (409 on an upload), "busy" (429, or a query limit exceeded),       *)
(* "blocked" (a blocked token), "refused" (any other error status or an error    *)
(* payload) or "unavailable" (the breaker is open); after is the time the        *)
(* answer asks to wait, 0 when it names none.                                  *)
StandardRetries(e) == e.class \in {"down", "conflict"}

RateRetries(e) == e.class = "busy" /\ e.after <= MaxRetryAfter

Retries(layer, e) == IF layer \in RateLayers THEN RateRetries(e) ELSE StandardRetries(e)

RateWait(attempt, e) ==
    IF e.after > 0 THEN AtMost(e.after, MaxRetryAfter) ELSE RateBackoff(attempt)

Wait(layer, attempt, e) ==
    IF layer \in RateLayers THEN RateWait(attempt, e) ELSE StandardWait(attempt)

Init ==
    /\ phase = [t \in Threads |-> "idle"]
    /\ kind = [t \in Threads |-> "none"]
    /\ tries = [t \in Threads |-> FirstTries]
    /\ sleep = [t \in Threads |-> 0]
    /\ failures = 0 /\ openFor = 0 /\ coolFor = 0
    /\ named \in BOOLEAN
    /\ failed = [t \in Threads |-> 0] /\ late = [t \in Threads |-> 0]

-----------------------------------------------------------------------------
(* A thread begins a call, at most one every second.                           *)
Begin(t, k) ==
    /\ phase[t] = "idle" /\ sleep[t] = 0
    /\ phase' = [phase EXCEPT ![t] = "ready"]
    /\ kind' = [kind EXCEPT ![t] = k]
    /\ failed' = [failed EXCEPT ![t] = 0]
    /\ UNCHANGED <<tries, sleep, breaker, coolFor, named, late>>

Request(t) == "plain" \in MayCall[t] /\ Begin(t, "plain")
DirectCall(t) == "direct" \in MayCall[t] /\ Begin(t, "direct")
UploadCsv(t) == "upload" \in MayCall[t] /\ Begin(t, "upload")
Post(t) == "post" \in MayCall[t] /\ Begin(t, "post")
ListInventory(t) == "list" \in MayCall[t] /\ Begin(t, IF named THEN "plain" ELSE "identity")

(* The call is over; its thread comes again in a second at the earliest.         *)
End(t) ==
    /\ phase' = [phase EXCEPT ![t] = "idle"]
    /\ sleep' = [sleep EXCEPT ![t] = 1]
    /\ tries' = [tries EXCEPT ![t] = FirstTries]
    /\ kind' = [kind EXCEPT ![t] = "none"]

(* Slip: a layer that is at its last attempt makes it once more.                *)
RaiseOnceMore(t, e, nap) ==
    LET repeating == {layer \in Layers :
                        Retries(layer, e) /\ tries[t][layer] <= MaxTries(kind[t], layer)}
        layer == Max(repeating)
    IN IF repeating = {} THEN End(t)
       ELSE /\ tries' = [tries EXCEPT ![t][layer] = AtMost(@ + 1, MaxTries(kind[t], layer))]
            /\ sleep' = [sleep EXCEPT ![t] = nap + Wait(layer, tries[t][layer], e)]
            /\ phase' = [phase EXCEPT ![t] = "ready"]
            /\ UNCHANGED kind

(* Slip: a layer stops after the attempt that exceeds its number, not at it.       *)
RaiseOneTooMany(t, e, nap) ==
    LET repeating == {layer \in Layers :
                        Retries(layer, e) /\ tries[t][layer] <= MaxTries(kind[t], layer)}
        layer == Max(repeating)
    IN IF repeating = {} THEN End(t)
       ELSE /\ tries' = [tries EXCEPT ![t] = [l \in Layers |->
                            IF l < layer THEN @[l] ELSE IF l = layer THEN @[l] + 1 ELSE 1]]
            /\ sleep' = [sleep EXCEPT ![t] = nap + Wait(layer, tries[t][layer], e)]
            /\ phase' = [phase EXCEPT ![t] = "ready"]
            /\ UNCHANGED kind

(* An exception goes to the innermost layer that retries it and has an attempt   *)
(* left; that layer sleeps and starts the layers inside it anew.  Otherwise it    *)
(* ends the call.  The handler may have slept before it raised (nap).            *)
Raise(t, e, nap) ==
    LET repeating == {layer \in Layers :
                        Retries(layer, e) /\ tries[t][layer] < MaxTries(kind[t], layer)}
        layer == Max(repeating)
    IN IF repeating = {} THEN End(t)
       ELSE /\ tries' = [tries EXCEPT ![t] = [l \in Layers |->
                            IF l < layer THEN @[l] ELSE IF l = layer THEN @[l] + 1 ELSE 1]]
            /\ sleep' = [sleep EXCEPT ![t] = nap + Wait(layer, tries[t][layer], e)]
            /\ phase' = [phase EXCEPT ![t] = "ready"]
            /\ UNCHANGED kind

Error(class, after) == [class |-> class, after |-> after]

Trying(t) == phase[t] = "ready" /\ sleep[t] = 0

(* Slip: the breaker is looked at before the first attempt only.                *)
CheckPassesOnRetry(t) ==
    /\ Trying(t)
    /\ kind[t] \in Guarded => openFor = 0 \/ tries[t] # FirstTries
    /\ phase' = [phase EXCEPT ![t] = "queued"]
    /\ UNCHANGED <<kind, tries, sleep, breaker, coolFor, named, history>>

(* The breaker is closed, or the call does not know it.                        *)
CheckPasses(t) ==
    /\ Trying(t)
    /\ kind[t] \in Guarded => openFor = 0
    /\ phase' = [phase EXCEPT ![t] = "queued"]
    /\ UNCHANGED <<kind, tries, sleep, breaker, coolFor, named, history>>

(* Slip: a refused call keeps the breaker open.                                *)
CheckRefusesAndExtends(t) ==
    /\ Trying(t) /\ kind[t] \in Guarded /\ openFor > 0
    /\ Raise(t, Error("unavailable", 0), 0)
    /\ openFor' = Reset
    /\ UNCHANGED <<failures, coolFor, named, history>>

CheckRefuses(t) ==
    /\ Trying(t) /\ kind[t] \in Guarded /\ openFor > 0
    /\ Raise(t, Error("unavailable", 0), 0)
    /\ UNCHANGED <<breaker, coolFor, named, history>>

(* The limiter lets the request through, which it does not during a cooldown.    *)
CanPass(t) == phase[t] = "queued" /\ (kind[t] = "post" \/ coolFor = 0)
PassLimiter(t) ==
    /\ CanPass(t)
    /\ phase' = [phase EXCEPT ![t] = "sent"]
    /\ late' = [late EXCEPT ![t] = IF kind[t] \in Guarded /\ openFor > 0 THEN @ + 1 ELSE @]
    /\ UNCHANGED <<kind, tries, sleep, breaker, coolFor, named, failed>>

-----------------------------------------------------------------------------
(* A success of _request closes the breaker.  After identity() the request of    *)
(* list_inventory itself follows.                                             *)
Succeeds(t) ==
    /\ phase[t] = "sent"
    /\ IF kind[t] = "identity"
       THEN /\ named' = TRUE
            /\ kind' = [kind EXCEPT ![t] = "plain"]
            /\ tries' = [tries EXCEPT ![t] = FirstTries]
            /\ phase' = [phase EXCEPT ![t] = "ready"]
            /\ UNCHANGED sleep
       ELSE End(t) /\ UNCHANGED named
    /\ IF kind[t] \in Guarded
       THEN /\ failures' = 0 /\ openFor' = 0
            /\ failed' = [u \in Threads |-> 0] /\ late' = [u \in Threads |-> 0]
       ELSE UNCHANGED <<breaker, history>>
    /\ UNCHANGED coolFor

(* No connection, a timeout, or a status of 500 and more: _request counts it.    *)
(* The attribute is increased and compared in one go; another thread may run     *)
(* before the time is stored.  The code counts on without end; as it only asks     *)
(* whether the threshold is reached, the model stops counting there.             *)
Fails(t) ==
    /\ phase[t] = "sent" /\ kind[t] \in Guarded
    /\ failures' = AtMost(Threshold, failures + 1)
    /\ failed' = [failed EXCEPT ![t] = @ + 1]
    /\ IF failures + 1 >= Threshold
       THEN phase' = [phase EXCEPT ![t] = "counted"] /\ UNCHANGED <<kind, tries, sleep>>
       ELSE Raise(t, Error("down", 0), 0)
    /\ UNCHANGED <<openFor, coolFor, named, late>>

OpenBreaker(t) ==
    /\ phase[t] = "counted"
    /\ openFor' = Reset
    /\ Raise(t, Error("down", 0), 0)
    /\ UNCHANGED <<failures, coolFor, named, history>>

(* The pause a 429 of Discogs asks for: its Retry-After, as seconds or a date, or,   *)
(* when it names none that is still to come, a pause of our own if the quota is      *)
(* exhausted.                                                                *)
CooldownSeconds(after, exhausted) ==
    IF after > 0 THEN after ELSE IF exhausted THEN FallbackCooldown ELSE 0

(* A 429 of Discogs.                                                          *)
Throttled(t, after, exhausted) ==
    /\ phase[t] = "sent" /\ kind[t] # "post"
    /\ coolFor' = AtLeast(coolFor, CooldownSeconds(after, exhausted))
    /\ Raise(t, Error("busy", after), 0)
    /\ UNCHANGED <<breaker, named, history>>

(* Any other status of 400 and more: neither counted nor a success.             *)
Refused(t) ==
    /\ phase[t] = "sent" /\ kind[t] # "post"
    /\ Raise(t, Error("refused", 0), 0)
    /\ UNCHANGED <<breaker, coolFor, named, history>>

(* An upload does not go through _request: nothing is counted.                  *)
UploadFails(t, class) ==
    /\ phase[t] = "sent" /\ kind[t] = "upload"
    /\ class \in {"down", "conflict"}
    /\ Raise(t, Error(class, 0), 0)
    /\ UNCHANGED <<breaker, coolFor, named, history>>

(* BaseLinker sleeps out a Retry-After inside the handler and then raises an      *)
(* error that names no time.                                                 *)
HttpErrors == {"down", "busy", "refused"}
PostFails(t, class, after) ==
    /\ phase[t] = "sent" /\ kind[t] = "post"
    /\ class \in HttpErrors
    /\ Raise(t, Error(class, 0), IF class = "refused" THEN 0 ELSE after)
    /\ UNCHANGED <<breaker, coolFor, named, history>>

(* An answer of BaseLinker with the status ERROR: a block names its end, and a    *)
(* blocked token is not tried again.                                         *)
PostRejected(t, class, after) ==
    /\ phase[t] = "sent" /\ kind[t] = "post"
    /\ class \in {"blocked", "busy", "refused"}
    /\ Raise(t, Error(class, IF class = "refused" THEN 0 ELSE after), 0)
    /\ UNCHANGED <<breaker, coolFor, named, history>>

(* A second passes, and no thread is slower than that.                         *)
Less(seconds) == AtLeast(seconds - 1, 0)
Tick ==
    /\ \A t \in Threads : ~Trying(t) /\ ~CanPass(t) /\ phase[t] # "counted"
    /\ sleep' = [t \in Threads |-> Less(sleep[t])]
    /\ openFor' = Less(openFor)
    /\ coolFor' = Less(coolFor)
    /\ late' = IF openFor > 1 THEN late ELSE [t \in Threads |-> 0]
    /\ UNCHANGED <<phase, kind, tries, failures, named, failed>>

Call(t) == Request(t) \/ DirectCall(t) \/ ListInventory(t) \/ UploadCsv(t) \/ Post(t)
Advance(t) == CheckPasses(t) \/ CheckRefuses(t) \/ OpenBreaker(t)
Answered(t) ==
    \/ Succeeds(t) \/ Fails(t) \/ Refused(t)
    \/ \E after \in RetryAfters \cup {0}, exhausted \in BOOLEAN : Throttled(t, after, exhausted)
    \/ \E class \in {"down", "conflict"} : UploadFails(t, class)
    \/ \E class \in {"down", "busy", "refused", "blocked"}, after \in RetryAfters \cup {0} :
          PostFails(t, class, after) \/ PostRejected(t, class, after)

Step(t) == Advance(t) \/ PassLimiter(t) \/ Answered(t)

Next == Tick \/ \E t \in Threads : Call(t) \/ Step(t)

Spec == Init /\ [][Next]_vars

(* Threads run and time passes; a request is answered, or its timeout ends it.    *)
(* Strong fairness is for a thread in the limiter, whose cooldown may begin anew   *)
(* just as it ends: it is not the last to wake every single time.               *)
FairSpec == Spec /\ WF_vars(Tick) /\ \A t \in Threads : SF_vars(Step(t))

-----------------------------------------------------------------------------
Typed ==
    /\ phase \in [Threads -> {"idle", "ready", "queued", "sent", "counted"}]
    /\ kind \in [Threads -> Kinds \cup {"none"}]
    /\ tries \in [Threads -> [Layers -> Nat]]
    /\ sleep \in [Threads -> Nat]
    /\ failures \in 0..Threshold /\ openFor \in 0..Reset /\ coolFor \in Nat
    /\ named \in BOOLEAN
    /\ failed \in [Threads -> Nat] /\ late \in [Threads -> Nat]

WithinTries ==
    \A t \in Threads, layer \in Layers : tries[t][layer] \in 1..MaxTries(kind[t], layer)

(* Types; no layer of retries is ever at an attempt beyond its stop_after_attempt,  *)
(* whatever the layers around it and inside it go through.                       *)
TypeOK == Typed /\ WithinTries

(* Twice five attempts in two layers, and twice three for 429s, could send one    *)
(* request up to 225 times.  The breaker cuts that short: as long as nobody       *)
(* succeeds, no call sees more failures than the breaker's threshold, whatever    *)
(* the other threads do between counting a failure and opening the breaker.       *)
FailuresBounded == \A t \in Threads : failed[t] <= Threshold

(* The breaker is looked at before the wait for the limiter, so a request may go   *)
(* out while it is open; but no thread sends more than one, however often the     *)
(* stragglers' failures prolong the pause.                                    *)
OneStragglerEach == \A t \in Threads : late[t] <= 1

(* Every call comes to an end, through all of its retries and cooldowns.         *)
EveryCallEnds == \A t \in Threads : (phase[t] = "ready") ~> (phase[t] = "idle")

(* The breaker never shuts Discogs out for good, whatever calls arrive meanwhile. *)
PauseEnds == (openFor > 0) ~> (openFor = 0)
=============================================================================
