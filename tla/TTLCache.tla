------------------------------- MODULE TTLCache -------------------------------
(***************************************************************************)
(* The cache of utils/ttl_cache.py behind recent_result_cache.py: one        *)
(* OrderedDict shared by every namespace and guarded by one lock, with a time  *)
(* to live per entry, lazy expiry and least-recently-used eviction.  Every     *)
(* operation holds the lock throughout, so it is one action.                  *)
(*                                                                         *)
(* The OrderedDict is the set of its keys, their values and expiry times, and  *)
(* the order of its keys: before holds <<j, k>> when j precedes k.            *)
(***************************************************************************)
EXTENDS Naturals, FiniteSets

CONSTANTS
    Keys, Values, None,
    TTL,           \* the time to live of each key's namespace; 0 turns it off
    MaxEntries,    \* max_entries
    MaxTime        \* bound: the clock stops here

ASSUME CacheAssumption ==
    /\ None \notin Values
    /\ TTL \in [Keys -> Nat]
    /\ MaxEntries \in Nat /\ MaxEntries >= 1
    /\ MaxTime \in Nat
    /\ IsFiniteSet(Keys)

VARIABLES
    entries,   \* the keys of _entries
    expires,   \* their expires_at
    value,     \* their values
    before,    \* their order
    now,       \* the monotonic clock
    answer     \* what the last get returned

vars == <<entries, expires, value, before, now, answer>>

Without(k) == {p \in before : p[1] # k /\ p[2] # k}

(* Slip: an entry used again keeps its place in the order. *)
KeepPlace(k) == IF k \in entries THEN before ELSE before \union {<<j, k>> : j \in entries}

MovedToEnd(k) == Without(k) \union {<<j, k>> : j \in entries \ {k}}

Init ==
    /\ entries = {} /\ before = {}
    /\ expires = [k \in Keys |-> 0] /\ value = [k \in Keys |-> None]
    /\ now = 0 /\ answer = None

(* Slip: an entry answers although it has expired. *)
GetStale(k) ==
    /\ k \in entries
    /\ before' = MovedToEnd(k)
    /\ answer' = value[k]
    /\ UNCHANGED <<entries, expires, value, now>>

(* An expired entry is dropped when it is asked for, and answers nothing. *)
Get(k) ==
    /\ \/ /\ k \notin entries
          /\ answer' = None
          /\ UNCHANGED <<entries, before>>
       \/ /\ k \in entries /\ expires[k] <= now
          /\ entries' = entries \ {k} /\ before' = Without(k)
          /\ answer' = None
       \/ /\ k \in entries /\ expires[k] > now
          /\ before' = MovedToEnd(k)
          /\ answer' = value[k]
          /\ UNCHANGED entries
    /\ UNCHANGED <<expires, value, now>>

(* Slip: the size is compared before the new key is in. *)
OldestOverLate(es, order) ==
    IF Cardinality(es) > MaxEntries + 1
    THEN {k \in es : \A j \in es \ {k} : <<k, j>> \in order}
    ELSE {}

(* The keys popitem(last=False) takes while there are too many: as a set       *)
(* grows by one key at a time, at most the first in the order.                *)
OldestOver(es, order) ==
    IF Cardinality(es) > MaxEntries
    THEN {k \in es : \A j \in es \ {k} : <<k, j>> \in order}
    ELSE {}

Set(k, v) ==
    LET es == entries \union {k}
        order == MovedToEnd(k)
        out == OldestOver(es, order)
    IN  /\ TTL[k] > 0
        /\ entries' = es \ out
        /\ before' = {p \in order : p[1] \notin out /\ p[2] \notin out}
        /\ value' = [value EXCEPT ![k] = v]
        /\ expires' = [expires EXCEPT ![k] = now + TTL[k]]
        /\ UNCHANGED <<now, answer>>

(* A time to live of 0 makes set return at once. *)
SetOff(k) == TTL[k] = 0 /\ UNCHANGED vars

Delete(k) ==
    /\ entries' = entries \ {k} /\ before' = Without(k)
    /\ UNCHANGED <<expires, value, now, answer>>

Clear ==
    /\ entries' = {} /\ before' = {}
    /\ UNCHANGED <<expires, value, now, answer>>

Tick == now < MaxTime /\ now' = now + 1 /\ UNCHANGED <<entries, expires, value, before, answer>>

Next ==
    \/ \E k \in Keys : Get(k) \/ SetOff(k) \/ Delete(k) \/ \E v \in Values : Set(k, v)
    \/ Clear
    \/ Tick

Spec == Init /\ [][Next]_vars

-----------------------------------------------------------------------------
(* Types; only entries have an order, and it relates any two of them one way.  *)
TypeOK ==
    /\ entries \subseteq Keys
    /\ expires \in [Keys -> Nat]
    /\ value \in [Keys -> Values \union {None}]
    /\ before \subseteq entries \X entries
    /\ now \in Nat
    /\ answer \in Values \union {None}

(* The order of the entries is a strict total one: there is always exactly one *)
(* least recently used entry to evict, however gets, sets and deletes mix.    *)
StrictOrder ==
    /\ \A j \in entries : <<j, j>> \notin before
    /\ \A j, k \in entries : j # k => (<<j, k>> \in before <=> <<k, j>> \notin before)
    /\ \A i, j, k \in entries : <<i, j>> \in before /\ <<j, k>> \in before => <<i, k>> \in before

(* The cache never outgrows its bound ("Small bounded ... TTL cache").         *)
BoundedSize == Cardinality(entries) <= MaxEntries

(* An entry that has not expired and was not deleted goes only when the cache   *)
(* is full, and then it is the one least recently used; an entry just stored   *)
(* or read is the last in that line.  So the week-long memory of a listing is   *)
(* lost early only after MaxEntries other keys were used since.               *)
Fresh(k) == k \in entries /\ expires[k] > now
Uses(k) == (Get(k) /\ answer' # None) \/ \E v \in Values : Set(k, v)
LeastRecentlyUsed ==
    [][\A k \in Keys :
         /\ Fresh(k) /\ k \notin entries' =>
               \/ Delete(k) \/ Clear
               \/ /\ Cardinality(entries) = MaxEntries
                  /\ \A j \in entries \ {k} : <<k, j>> \in before
         /\ Uses(k) => /\ k \in entries'
                       /\ \A j \in entries' \ {k} : <<j, k>> \in before']_vars

(* The cache implements the map that forgets but never lies.                  *)
Abstract == INSTANCE ForgetfulMap WITH
    map <- [k \in Keys |-> IF Fresh(k) THEN value[k] ELSE None]
IsForgetfulMap == Abstract!Spec
=============================================================================
