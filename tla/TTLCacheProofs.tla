---------------------------- MODULE TTLCacheProofs ----------------------------
(***************************************************************************)
(* The cache is bounded, evicts the least recently used entry, and implements  *)
(* the map that forgets but never lies, for any keys, values, times to live    *)
(* and size.                                                                *)
(*                                                                         *)
(* That eviction always finds an entry to take rests on the order of the        *)
(* entries being a well-order (HasOldest), which every operation keeps.        *)
(***************************************************************************)
EXTENDS TTLCache, FiniteSetTheorems, TLAPS

(* Any entries there are have an oldest one. *)
HasOldest(es, order) ==
    \A S \in SUBSET es : S # {} => \E k \in S : \A j \in S \ {k} : <<k, j>> \in order

(* They are ordered strictly and totally. *)
StrictOn(es, order) ==
    /\ \A j \in es : <<j, j>> \notin order
    /\ \A i, j \in es : i # j => (<<i, j>> \in order <=> <<j, i>> \notin order)
    /\ \A h, i, j \in es : <<h, i>> \in order /\ <<i, j>> \in order => <<h, j>> \in order

CacheInv == TypeOK /\ StrictOrder /\ BoundedSize /\ HasOldest(entries, before)

-----------------------------------------------------------------------------
(* The order *)

LEMMA EntriesFinite == ASSUME TypeOK PROVE IsFiniteSet(entries)
BY FS_Subset, CacheAssumption DEF TypeOK

(* Moving a key to the end keeps the others in order and everything before it. *)
LEMMA MovedToEndOrder ==
    ASSUME TypeOK, StrictOrder, NEW k \in Keys
    PROVE  /\ MovedToEnd(k) \subseteq (entries \union {k}) \X (entries \union {k})
           /\ \A i, j \in entries \union {k} :
                 <<i, j>> \in MovedToEnd(k) <=>
                     \/ i # k /\ j # k /\ <<i, j>> \in before
                     \/ i # k /\ j = k
BY DEF MovedToEnd, Without, TypeOK

LEMMA MovedToEndStrict ==
    ASSUME TypeOK, StrictOrder, NEW k \in Keys
    PROVE  StrictOn(entries \union {k}, MovedToEnd(k))
BY MovedToEndOrder DEF StrictOrder, StrictOn

LEMMA MovedToEndOldest ==
    ASSUME CacheInv, NEW k \in Keys
    PROVE  HasOldest(entries \union {k}, MovedToEnd(k))
<1> SUFFICES ASSUME NEW S \in SUBSET (entries \union {k}), S # {}
             PROVE  \E i \in S : \A j \in S \ {i} : <<i, j>> \in MovedToEnd(k)
  BY DEF HasOldest
<1>1. CASE S \subseteq {k}
  BY <1>1
<1>2. CASE ~ S \subseteq {k}
  <2>1. S \ {k} \in SUBSET entries /\ S \ {k} # {}
    BY <1>2
  <2> PICK i \in S \ {k} : \A j \in (S \ {k}) \ {i} : <<i, j>> \in before
    BY <2>1 DEF CacheInv, HasOldest
  <2>2. \A j \in S \ {i} : <<i, j>> \in MovedToEnd(k)
    BY MovedToEndOrder DEF CacheInv
  <2> QED
    BY <2>2
<1> QED
  BY <1>1, <1>2

(* Dropping entries keeps the order of the others. *)
LEMMA Restricted ==
    ASSUME NEW es, NEW order, NEW gone,
           HasOldest(es, order), order \subseteq es \X es
    PROVE  /\ HasOldest(es \ gone, {p \in order : p[1] \notin gone /\ p[2] \notin gone})
           /\ {p \in order : p[1] \notin gone /\ p[2] \notin gone} \subseteq (es \ gone) \X (es \ gone)
<1> DEFINE kept == {p \in order : p[1] \notin gone /\ p[2] \notin gone}
<1>1. \A i, j \in es \ gone : <<i, j>> \in order => <<i, j>> \in kept
  OBVIOUS
<1>2. kept \subseteq (es \ gone) \X (es \ gone)
  <2> SUFFICES ASSUME NEW p \in kept PROVE p \in (es \ gone) \X (es \ gone)
    OBVIOUS
  <2> PICK i \in es, j \in es : p = <<i, j>>
    OBVIOUS
  <2> QED
    OBVIOUS
<1>3. HasOldest(es \ gone, kept)
  <2> SUFFICES ASSUME NEW S \in SUBSET (es \ gone), S # {}
               PROVE  \E i \in S : \A j \in S \ {i} : <<i, j>> \in kept
    BY DEF HasOldest
  <2> HIDE DEF kept
  <2> PICK i \in S : \A j \in S \ {i} : <<i, j>> \in order
    BY DEF HasOldest
  <2> QED
    BY <1>1
<1> QED
  BY <1>2, <1>3

-----------------------------------------------------------------------------
(* Eviction *)

(* What is evicted: nothing while there is room, else the one oldest entry, which *)
(* is never the one just stored.                                            *)
LEMMA Evicted ==
    ASSUME CacheInv, NEW k \in Keys
    PROVE  LET out == OldestOver(entries \union {k}, MovedToEnd(k))
           IN  /\ out \subseteq entries \ {k}
               /\ Cardinality((entries \union {k}) \ out) <= MaxEntries
               /\ \A i \in out : /\ k \notin entries /\ Cardinality(entries) = MaxEntries
                                 /\ \A j \in entries \ {i} : <<i, j>> \in before
<1> PICK out : out = OldestOver(entries \union {k}, MovedToEnd(k))
  OBVIOUS
<1> SUFFICES /\ out \subseteq entries \ {k}
             /\ Cardinality((entries \union {k}) \ out) <= MaxEntries
             /\ \A i \in out : /\ k \notin entries /\ Cardinality(entries) = MaxEntries
                               /\ \A j \in entries \ {i} : <<i, j>> \in before
  OBVIOUS
<1> DEFINE es == entries \union {k}
<1>1. /\ IsFiniteSet(entries) /\ Cardinality(entries) \in Nat
      /\ IsFiniteSet(es)
      /\ Cardinality(es) = IF k \in entries THEN Cardinality(entries) ELSE Cardinality(entries) + 1
  BY EntriesFinite, FS_CardinalityType, FS_AddElement DEF CacheInv
<1>2. Cardinality(entries) <= MaxEntries /\ MaxEntries \in Nat /\ MaxEntries >= 1
  BY CacheAssumption DEF CacheInv, BoundedSize
<1>3. CASE Cardinality(es) <= MaxEntries
  <2>1. out = {}
    BY <1>1, <1>2, <1>3, SMT DEF OldestOver
  <2> QED
    BY <1>3, <2>1
<1>4. CASE Cardinality(es) > MaxEntries
  <2>1. k \notin entries /\ Cardinality(entries) = MaxEntries /\ Cardinality(es) = MaxEntries + 1
    BY <1>1, <1>2, <1>4, SMT
  <2>2. out = {i \in es : \A j \in es \ {i} : <<i, j>> \in MovedToEnd(k)}
    BY <1>4 DEF OldestOver
  <2>3. entries # {}
    BY <1>2, <2>1, FS_EmptySet, SMT
  <2>4. k \notin out
    <3>1. PICK e \in entries : e # k
      BY <2>1, <2>3
    <3>2. <<k, e>> \notin MovedToEnd(k)
      BY <3>1, MovedToEndOrder DEF CacheInv
    <3> QED
      BY <2>2, <3>1, <3>2
  <2>5. out # {}
    <3>1. HasOldest(es, MovedToEnd(k))
      BY MovedToEndOldest
    <3>2. es \in SUBSET es /\ es # {}
      OBVIOUS
    <3> QED
      BY <2>2, <3>1, <3>2 DEF HasOldest
  <2>6. \A i \in out : \A j \in entries \ {i} : <<i, j>> \in before
    BY <2>1, <2>2, <2>4, MovedToEndOrder DEF CacheInv
  <2>7. Cardinality(es \ out) <= MaxEntries
    <3> PICK i \in out : i \in es
      BY <2>2, <2>5
    <3>1. IsFiniteSet(es \ {i}) /\ Cardinality(es \ {i}) = MaxEntries
      BY <1>1, <2>1, <1>2, FS_RemoveElement, SMT
    <3>2. es \ out \in SUBSET (es \ {i})
      OBVIOUS
    <3> QED
      BY <3>1, <3>2, FS_Subset
  <2> QED
    BY <2>1, <2>2, <2>4, <2>6, <2>7
<1>5. Cardinality(es) <= MaxEntries \/ Cardinality(es) > MaxEntries
  BY <1>1, <1>2, SMT
<1> QED
  BY <1>3, <1>4, <1>5

LEMMA SetEvicts ==
    ASSUME CacheInv, NEW k \in Keys, NEW v \in Values, Set(k, v)
    PROVE  \E out : /\ entries' = (entries \union {k}) \ out
                    /\ before' = {p \in MovedToEnd(k) : p[1] \notin out /\ p[2] \notin out}
                    /\ out \subseteq entries \ {k}
                    /\ \A i \in out : /\ Cardinality(entries) = MaxEntries
                                      /\ \A j \in entries \ {i} : <<i, j>> \in before
<1> PICK out : out = OldestOver(entries \union {k}, MovedToEnd(k))
  OBVIOUS
<1>1. /\ entries' = (entries \union {k}) \ out
      /\ before' = {p \in MovedToEnd(k) : p[1] \notin out /\ p[2] \notin out}
  BY DEF Set
<1>2. out \subseteq entries \ {k}
  BY Evicted
<1>3. \A i \in out : /\ Cardinality(entries) = MaxEntries
                     /\ \A j \in entries \ {i} : <<i, j>> \in before
  BY Evicted
<1> QED
  BY <1>1, <1>2, <1>3

-----------------------------------------------------------------------------
(* The invariant *)

LEMMA CacheInit == Init => CacheInv
<1> SUFFICES ASSUME Init PROVE CacheInv
  OBVIOUS
<1>1. TypeOK
  BY CacheAssumption DEF Init, TypeOK
<1>2. StrictOrder /\ HasOldest(entries, before)
  BY DEF Init, StrictOrder, HasOldest
<1>3. BoundedSize
  BY CacheAssumption, FS_EmptySet, SMT DEF Init, BoundedSize
<1> QED
  BY <1>1, <1>2, <1>3 DEF CacheInv

(* Dropping one entry. *)
LEMMA DropKeeps ==
    ASSUME CacheInv, NEW k \in Keys, entries' = entries \ {k}, before' = Without(k),
           UNCHANGED <<expires, value, now>>, answer' \in Values \union {None}
    PROVE  CacheInv'
<1>1. Without(k) = {p \in before : p[1] \notin {k} /\ p[2] \notin {k}}
  BY DEF Without
<1>2. /\ HasOldest(entries', before')
      /\ before' \subseteq entries' \X entries'
  <2> DEFINE gone == {k}
  <2>1. /\ entries' = entries \ gone
        /\ before' = {p \in before : p[1] \notin gone /\ p[2] \notin gone}
    BY <1>1
  <2>2. HasOldest(entries, before) /\ before \subseteq entries \X entries
    BY DEF CacheInv, TypeOK
  <2> HIDE DEF gone
  <2> QED
    BY <2>1, <2>2, Restricted
<1>3. TypeOK'
  BY <1>2 DEF CacheInv, TypeOK
<1>4. StrictOrder'
  <2>1. \A i, j \in entries' : <<i, j>> \in before' <=> <<i, j>> \in before
    BY DEF Without
  <2>2. entries' \subseteq entries
    OBVIOUS
  <2> QED
    BY <2>1, <2>2 DEF CacheInv, StrictOrder
<1>5. BoundedSize'
  <2>1. IsFiniteSet(entries) /\ Cardinality(entries) \in Nat /\ Cardinality(entries) <= MaxEntries
    BY EntriesFinite, FS_CardinalityType DEF CacheInv, BoundedSize
  <2>2. Cardinality(entries') <= Cardinality(entries) /\ Cardinality(entries') \in Nat
    BY <2>1, FS_Subset, FS_CardinalityType
  <2> QED
    BY <2>1, <2>2, CacheAssumption, SMT DEF BoundedSize
<1> QED
  BY <1>2, <1>3, <1>4, <1>5 DEF CacheInv

LEMMA GetKeeps == ASSUME CacheInv, NEW k \in Keys, Get(k) PROVE CacheInv'
<1>1. CASE k \notin entries
  BY <1>1 DEF Get, CacheInv, TypeOK, StrictOrder, BoundedSize
<1>2. CASE k \in entries /\ expires[k] <= now /\ entries' = entries \ {k}
  <2>1. before' = Without(k) /\ answer' = None
    BY <1>2, CacheAssumption DEF Get, CacheInv, TypeOK
  <2> QED
    BY <1>2, <2>1, DropKeeps DEF Get
<1>3. CASE k \in entries /\ before' = MovedToEnd(k) /\ answer' = value[k] /\ UNCHANGED entries
  <2>1. entries \union {k} = entries
    BY <1>3
  <2>2. TypeOK'
    BY <1>3, <2>1, MovedToEndOrder DEF Get, CacheInv, TypeOK
  <2>3. StrictOrder'
    <3>1. StrictOn(entries', before')
      BY <1>3, <2>1, MovedToEndStrict DEF CacheInv
    <3> QED
      BY <3>1 DEF StrictOn, StrictOrder
  <2>4. HasOldest(entries', before')
    BY <1>3, <2>1, MovedToEndOldest
  <2> QED
    BY <1>3, <2>2, <2>3, <2>4 DEF CacheInv, BoundedSize
<1> QED
  BY <1>1, <1>2, <1>3 DEF Get

LEMMA SetKeeps == ASSUME CacheInv, NEW k \in Keys, NEW v \in Values, Set(k, v) PROVE CacheInv'
<1> DEFINE es == entries \union {k}
           order == MovedToEnd(k)
           out == OldestOver(es, order)
<1>1. /\ entries' = es \ out
      /\ before' = {p \in order : p[1] \notin out /\ p[2] \notin out}
      /\ value' = [value EXCEPT ![k] = v]
      /\ expires' = [expires EXCEPT ![k] = now + TTL[k]]
      /\ now' = now /\ answer' = answer
  BY DEF Set
<1>2. order \subseteq es \X es
  BY MovedToEndOrder DEF CacheInv
<1>3. HasOldest(entries', before') /\ before' \subseteq entries' \X entries'
  <2>1. HasOldest(es, order)
    BY MovedToEndOldest
  <2> HIDE DEF es, order, out
  <2> QED
    BY <1>1, <1>2, <2>1, Restricted
<1>4. TypeOK'
  <2>1. entries' \subseteq Keys
    BY <1>1 DEF CacheInv, TypeOK
  <2>2. now + TTL[k] \in Nat
    BY CacheAssumption, SMT DEF CacheInv, TypeOK
  <2> QED
    BY <1>1, <1>3, <2>1, <2>2 DEF CacheInv, TypeOK
<1>5. StrictOrder'
  <2>1. \A i, j \in entries' : <<i, j>> \in before' <=> <<i, j>> \in order
    BY <1>1
  <2>2. StrictOn(es, order)
    BY MovedToEndStrict DEF CacheInv
  <2>3. entries' \subseteq es
    BY <1>1
  <2> HIDE DEF es, order, out
  <2> QED
    BY <2>1, <2>2, <2>3 DEF StrictOn, StrictOrder
<1>6. BoundedSize'
  BY <1>1, Evicted DEF BoundedSize
<1> QED
  BY <1>3, <1>4, <1>5, <1>6 DEF CacheInv

LEMMA NextKeeps == CacheInv /\ [Next]_vars => CacheInv'
<1> SUFFICES ASSUME CacheInv, [Next]_vars PROVE CacheInv'
  OBVIOUS
<1>1. ASSUME NEW k \in Keys, Get(k) PROVE CacheInv'
  BY <1>1, GetKeeps
<1>2. ASSUME NEW k \in Keys, NEW v \in Values, Set(k, v) PROVE CacheInv'
  BY <1>2, SetKeeps
<1>3. ASSUME NEW k \in Keys, Delete(k) PROVE CacheInv'
  <2>1. answer' \in Values \union {None}
    BY <1>3 DEF Delete, CacheInv, TypeOK
  <2> QED
    BY <1>3, <2>1, DropKeeps DEF Delete
<1>4. CASE Clear
  <2>1. TypeOK' /\ StrictOrder' /\ HasOldest(entries', before')
    BY <1>4 DEF Clear, CacheInv, TypeOK, StrictOrder, HasOldest
  <2>2. BoundedSize'
    BY <1>4, CacheAssumption, FS_EmptySet, SMT DEF Clear, BoundedSize
  <2> QED
    BY <2>1, <2>2 DEF CacheInv
<1>5. CASE Tick
  <2>1. now + 1 \in Nat
    BY SMT DEF CacheInv, TypeOK
  <2> QED
    BY <1>5, <2>1 DEF Tick, CacheInv, TypeOK, StrictOrder, BoundedSize
<1>6. CASE UNCHANGED vars
  BY <1>6 DEF vars, CacheInv, TypeOK, StrictOrder, BoundedSize
<1> QED
  BY <1>1, <1>2, <1>3, <1>4, <1>5, <1>6 DEF Next, SetOff

-----------------------------------------------------------------------------
(* The theorems *)

(* The entries of the cache are well-ordered by their last use, and bounded,     *)
(* in every reachable state (TTLCache.get, set, delete, clear).              *)
THEOREM CacheSound == Spec => []CacheInv
<1> QED
  BY CacheInit, NextKeeps, PTL DEF Spec

(* The cache never outgrows max_entries (TTLCache.set).                       *)
THEOREM CacheBounded == Spec => []BoundedSize
<1>1. CacheInv => BoundedSize
  BY DEF CacheInv
<1> QED
  BY <1>1, CacheSound, PTL

(* An entry that has not expired goes only when it is deleted, or as the least     *)
(* recently used one of a full cache; one just stored or read is last in that     *)
(* line (TTLCache.get, set).                                                *)
THEOREM EvictsTheOldest == Spec => LeastRecentlyUsed
<1> DEFINE Goes(k) == \/ Delete(k) \/ Clear
                      \/ /\ Cardinality(entries) = MaxEntries
                         /\ \A j \in entries \ {k} : <<k, j>> \in before
           Last(k) == /\ k \in entries'
                      /\ \A j \in entries' \ {k} : <<j, k>> \in before'
<1>1. ASSUME CacheInv, Next, NEW k \in Keys, Fresh(k), k \notin entries'
      PROVE  Goes(k)
  <2>1. ASSUME NEW m \in Keys, NEW v \in Values, Set(m, v)
        PROVE  Goes(k)
    <3> PICK out : /\ entries' = (entries \union {m}) \ out
                   /\ \A i \in out : /\ Cardinality(entries) = MaxEntries
                                     /\ \A j \in entries \ {i} : <<i, j>> \in before
      BY <1>1, <2>1, SetEvicts
    <3>1. k \in out
      BY <1>1 DEF Fresh
    <3> QED
      BY <3>1
  <2>2. ASSUME NEW m \in Keys, Get(m) \/ SetOff(m)
        PROVE  FALSE
    <3>1. now \in Nat /\ expires[k] \in Nat /\ expires[k] > now /\ k \in entries
      BY <1>1 DEF CacheInv, TypeOK, Fresh
    <3>2. ~(expires[k] <= now)
      BY <3>1, SMT
    <3> QED
      BY <1>1, <2>2, <3>1, <3>2 DEF Get, SetOff, vars
  <2>3. ASSUME NEW m \in Keys, Delete(m)
        PROVE  Goes(k)
    <3>1. k = m
      BY <1>1, <2>3 DEF Delete, Fresh
    <3> QED
      BY <2>3, <3>1
  <2>4. ~Tick
    BY <1>1 DEF Tick, Fresh
  <2> QED
    BY <1>1, <2>1, <2>2, <2>3, <2>4 DEF Next
<1>2. ASSUME CacheInv, NEW k \in Keys, Uses(k)
      PROVE  Last(k)
  <2>1. CASE Get(k) /\ answer' # None
    <3>1. k \in entries /\ entries' = entries /\ before' = MovedToEnd(k)
      BY <2>1 DEF Get
    <3> QED
      BY <3>1 DEF MovedToEnd
  <2>2. ASSUME NEW v \in Values, Set(k, v)
        PROVE  Last(k)
    <3> PICK out :
          /\ entries' = (entries \union {k}) \ out
          /\ before' = {p \in MovedToEnd(k) : p[1] \notin out /\ p[2] \notin out}
          /\ out \subseteq entries \ {k}
      BY <1>2, <2>2, SetEvicts
    <3>3. \A j \in entries' \ {k} : <<j, k>> \in MovedToEnd(k)
      BY DEF MovedToEnd
    <3>4. \A j \in entries' \ {k} : <<j, k>> \in before'
      BY <3>3
    <3> QED
      BY <3>4
  <2> QED
    BY <1>2, <2>1, <2>2 DEF Uses
<1>3. CacheInv /\ [Next]_vars =>
        [\A k \in Keys : /\ Fresh(k) /\ k \notin entries' => Goes(k)
                         /\ Uses(k) => Last(k)]_vars
  BY <1>1, <1>2
<1> QED
  BY <1>3, CacheSound, PTL DEF Spec, LeastRecentlyUsed

-----------------------------------------------------------------------------
(* The map that forgets *)

Map == [k \in Keys |-> IF Fresh(k) THEN value[k] ELSE None]

(* A map differs from another only by what it forgot. *)
LEMMA Forgets ==
    ASSUME NEW m, NEW n, n = [k \in Keys |-> n[k]],
           \A k \in Keys : n[k] \in {m[k], None}
    PROVE  n \in Abstract!Forgetting(m)
<1> DEFINE F == {k \in Keys : n[k] = None}
<1>1. F \in SUBSET Keys
  OBVIOUS
<1>2. [k \in Keys |-> n[k]] = [k \in Keys |-> IF k \in F THEN None ELSE m[k]]
  OBVIOUS
<1> QED
  BY <1>1, <1>2 DEF Abstract!Forgetting

LEMMA MapAt == \A k \in Keys : Map[k] = IF Fresh(k) THEN value[k] ELSE None
BY DEF Map

(* Entries that stay as they are, or go, are not noticed but as forgotten. *)
LEMMA OnlyForgets ==
    ASSUME CacheInv, NEW k \in Keys, entries' \subseteq entries \union {k},
           now' \in {now, now + 1},
           \A j \in Keys \ {k} : value'[j] = value[j] /\ expires'[j] = expires[j]
    PROVE  \A j \in Keys \ {k} : Map'[j] \in {Map[j], None}
<1> SUFFICES ASSUME NEW j \in Keys \ {k}, Map'[j] # None PROVE Map'[j] = Map[j]
  OBVIOUS
<1>1. Fresh(j)' /\ Map'[j] = value'[j]
  BY DEF Map
<1>2. j \in entries /\ expires[j] > now'
  BY <1>1 DEF Fresh
<1>3. expires[j] > now
  BY <1>2, SMT DEF CacheInv, TypeOK
<1> QED
  BY <1>1, <1>2, <1>3, MapAt DEF Fresh

(* A step of the cache is one of the map, or nothing. *)
MapStep == [Abstract!Next]_<<Map, answer>>

LEMMA GetMaps == ASSUME CacheInv, NEW k \in Keys, Get(k) PROVE MapStep
<1>1. answer' = Map[k]
  <2>1. k \in entries => now \in Nat /\ expires[k] \in Nat
    BY DEF CacheInv, TypeOK
  <2>2. k \in entries => (expires[k] <= now <=> ~(expires[k] > now))
    BY <2>1, SMT
  <2> QED
    BY <2>2, MapAt DEF Get, Fresh
<1>2. Map' \in Abstract!Forgetting(Map)
  <2>1. /\ entries' \subseteq entries \union {k} /\ now' \in {now, now + 1}
        /\ value' = value /\ expires' = expires
    BY DEF Get
  <2>2. \A j \in Keys \ {k} : Map'[j] \in {Map[j], None}
    BY <2>1, OnlyForgets
  <2>3. Map'[k] \in {Map[k], None}
    <3>1. k \in entries' => k \in entries
      BY DEF Get
    <3> QED
      BY <2>1, <3>1 DEF Map, Fresh, Get
  <2>4. Map' = [j \in Keys |-> Map'[j]]
    BY DEF Map
  <2> QED
    BY <2>2, <2>3, <2>4, Forgets
<1> QED
  BY <1>1, <1>2 DEF MapStep, Abstract!Next, Abstract!Load, Map

LEMMA SetMaps == ASSUME CacheInv, NEW k \in Keys, NEW v \in Values, Set(k, v) PROVE MapStep
<1> DEFINE stored == [Map EXCEPT ![k] = v]
<1>1. Map' \in Abstract!Forgetting(stored)
  <2>1. /\ entries' \subseteq entries \union {k} /\ now' \in {now, now + 1}
        /\ \A j \in Keys \ {k} : value'[j] = value[j] /\ expires'[j] = expires[j]
        /\ value'[k] = v
    BY DEF Set, CacheInv, TypeOK
  <2>2. \A j \in Keys \ {k} : Map'[j] \in {stored[j], None}
    <3>1. \A j \in Keys \ {k} : stored[j] = Map[j]
      BY DEF Map
    <3> HIDE DEF stored
    <3> QED
      BY <2>1, <3>1, OnlyForgets
  <2>3. Map'[k] \in {stored[k], None}
    BY <2>1 DEF Map
  <2>4. Map' = [j \in Keys |-> Map'[j]]
    BY DEF Map
  <2> HIDE DEF stored
  <2> QED
    BY <2>2, <2>3, <2>4, Forgets
<1>2. answer' = answer
  BY DEF Set
<1> QED
  BY <1>1, <1>2 DEF MapStep, Abstract!Next, Abstract!Store, Map

LEMMA DeleteMaps == ASSUME CacheInv, NEW k \in Keys, Delete(k) PROVE MapStep
<1> DEFINE deleted == [Map EXCEPT ![k] = None]
<1>1. Map' \in Abstract!Forgetting(deleted)
  <2>1. /\ entries' \subseteq entries \union {k} /\ now' \in {now, now + 1}
        /\ value' = value /\ expires' = expires /\ k \notin entries'
    BY DEF Delete
  <2>2. \A j \in Keys \ {k} : Map'[j] \in {deleted[j], None}
    <3>1. \A j \in Keys \ {k} : deleted[j] = Map[j]
      BY DEF Map
    <3> HIDE DEF deleted
    <3> QED
      BY <2>1, <3>1, OnlyForgets
  <2>3. Map'[k] \in {deleted[k], None}
    BY <2>1 DEF Map, Fresh
  <2>4. Map' = [j \in Keys |-> Map'[j]]
    BY DEF Map
  <2> HIDE DEF deleted
  <2> QED
    BY <2>2, <2>3, <2>4, Forgets
<1>2. answer' = answer
  BY DEF Delete
<1> QED
  BY <1>1, <1>2 DEF MapStep, Abstract!Next, Abstract!Delete, Map

LEMMA TimeMaps == ASSUME CacheInv, Clear \/ Tick PROVE MapStep
<1>1. /\ entries' \subseteq entries /\ now' \in {now, now + 1}
      /\ value' = value /\ expires' = expires /\ answer' = answer
  BY DEF Clear, Tick
<1>2. \A k \in Keys : Map'[k] \in {Map[k], None}
  <2> SUFFICES ASSUME NEW k \in Keys, Map'[k] # None PROVE Map'[k] = Map[k]
    OBVIOUS
  <2>1. k \in entries /\ expires[k] > now' /\ Map'[k] = value[k]
    BY <1>1 DEF Map, Fresh
  <2>2. expires[k] > now
    BY <1>1, <2>1, SMT DEF CacheInv, TypeOK
  <2> QED
    BY <2>1, <2>2, MapAt DEF Fresh
<1>3. Map' = [k \in Keys |-> Map'[k]]
  BY DEF Map
<1> QED
  BY <1>1, <1>2, <1>3, Forgets DEF MapStep, Abstract!Next, Abstract!Forget, Map

(* The cache implements the map that forgets but never lies: an answer is the      *)
(* value last stored under the key and not deleted since, or none (TTLCache).    *)
THEOREM NeverLies == Spec => IsForgetfulMap
<1>1. Init => Abstract!Init
  BY DEF Init, Abstract!Init, Fresh
<1>2. ASSUME CacheInv, [Next]_vars PROVE [Abstract!Next]_<<Map, answer>>
  <2>1. CASE UNCHANGED vars
    BY <2>1 DEF vars, Map, Fresh
  <2> QED
    BY <1>2, <2>1, GetMaps, SetMaps, DeleteMaps, TimeMaps DEF Next, SetOff, MapStep
<1>3. CacheInv /\ [Next]_vars => [Abstract!Next]_<<[k \in Keys |-> IF Fresh(k) THEN value[k] ELSE None], answer>>
  BY <1>2 DEF Map
<1> QED
  BY <1>1, <1>3, CacheSound, PTL DEF Spec, IsForgetfulMap, Abstract!Spec
=============================================================================
