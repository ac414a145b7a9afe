---------------------------- MODULE OrderSyncProofs ----------------------------
(***************************************************************************)
(* No change of an order is lost between two polls, and updates do what they      *)
(* report, for any orders, statuses, workers, updates, page size and lookback.    *)
(***************************************************************************)
EXTENDS OrderSync, FiniteSetTheorems, TLAPS

(* BaseLinker can only have missed orders that were placed.                      *)
Known == unreported \subseteq Placed

Elements(s) == {s[i] : i \in 1..Len(s)}

(* The order counted has been treated as the update asks.                        *)
Done(w, o) ==
    LET u == update[w] IN
    /\ u.want # NoStatus /\ u.kind # "delivery_number" => o \in held[w]
    /\ u.tracking /\ HasEdit(u) => <<o, "edit">> \in written[w]
    /\ HasMessage(u) => <<o, "message">> \in written[w]

(* A worker with nothing to do has nothing on its mind.                          *)
IdleClean(w) ==
    pc[w] = "idle" => left[w] = <<>> /\ counted[w] = {} /\ update[w] = NoUpdate

(* What is left is of the update, and there is something while requests are made.   *)
LeftOfUpdate(w) ==
    /\ Elements(left[w]) \subseteq Ids(update[w])
    /\ Sending(w) => left[w] # <<>>
    /\ Skipped(update[w]) => left[w] = <<>>

(* An edit that leaves the status alone found it as it is to be.                   *)
EditFounded(w) ==
    pc[w] = "edit" =>
        /\ HasEdit(update[w])
        /\ post[w] = update[w].want \/ (post[w] = NoStatus /\ Order(w) \in held[w])

(* A message comes after the edit.                                            *)
MessageFounded(w) ==
    LET u == update[w] IN
    pc[w] = "message" =>
        /\ HasMessage(u)
        /\ u.want # NoStatus /\ u.kind # "delivery_number" => Order(w) \in held[w]
        /\ u.tracking /\ HasEdit(u) => <<Order(w), "edit">> \in written[w]

(* A status to be sent was allowed when the order was read.                        *)
StatusFounded(w) ==
    Sending(w) /\ update[w].kind # "direct" /\ post[w] # NoStatus => Allowed(seen[w], post[w])

CountedDone(w) == \A o \in counted[w] : Done(w, o)

Accounted(w) ==
    \A o \in Ids(update[w]) :
        \/ o \in Elements(left[w]) \cup counted[w] \cup failed[w]
        \/ Skipped(update[w]) \/ (~HasEdit(update[w]) /\ ~HasMessage(update[w]))

WorkerOK(w) ==
    /\ IdleClean(w) /\ LeftOfUpdate(w)
    /\ EditFounded(w) /\ MessageFounded(w) /\ StatusFounded(w)
    /\ CountedDone(w) /\ Accounted(w)

IInv == TypeOK /\ Known /\ NothingMissed /\ \A w \in Workers : WorkerOK(w)

-----------------------------------------------------------------------------
(* A sequence that is not empty consists of its head and its tail.                 *)
LEMMA HeadAndTail ==
    ASSUME NEW S, NEW s \in Seq(S)
    PROVE  /\ Elements(s) \subseteq S
           /\ s = <<>> => Elements(s) = {}
           /\ s # <<>> => /\ Head(s) \in S /\ Tail(s) \in Seq(S)
                          /\ Elements(s) = {Head(s)} \cup Elements(Tail(s))
<1>1. Elements(s) \subseteq S BY DEF Elements
<1>2. ASSUME s = <<>> PROVE Elements(s) = {} BY <1>2 DEF Elements
<1>3. ASSUME s # <<>>
      PROVE  /\ Head(s) \in S /\ Tail(s) \in Seq(S)
             /\ Elements(s) = {Head(s)} \cup Elements(Tail(s))
  <2>1. /\ Len(s) \in Nat \ {0} /\ Head(s) = s[1] /\ Head(s) \in S /\ Tail(s) \in Seq(S)
        /\ Len(Tail(s)) = Len(s) - 1
        /\ \A j \in 1..Len(Tail(s)) : Tail(s)[j] = s[j + 1]
    BY <1>3
  <2>2. ASSUME NEW i \in 1..Len(s) PROVE s[i] \in {Head(s)} \cup Elements(Tail(s))
    <3>1. CASE i = 1 BY <3>1, <2>1
    <3>2. CASE i # 1
      <4>1. i - 1 \in 1..Len(Tail(s)) /\ s[i] = Tail(s)[i - 1] BY <3>2, <2>1
      <4> QED BY <4>1 DEF Elements
    <3> QED BY <3>1, <3>2
  <2>3. ASSUME NEW j \in 1..Len(Tail(s)) PROVE Tail(s)[j] \in Elements(s)
    <3>1. j + 1 \in 1..Len(s) /\ Tail(s)[j] = s[j + 1] BY <2>1
    <3> QED BY <3>1 DEF Elements
  <2>4. Head(s) \in Elements(s)
    <3>1. 1 \in 1..Len(s) /\ Head(s) = s[1] BY <2>1
    <3> QED BY <3>1 DEF Elements
  <2> QED BY <2>1, <2>2, <2>3, <2>4 DEF Elements
<1> QED BY <1>1, <1>2, <1>3

-----------------------------------------------------------------------------
(* Types of the orders after one was touched.                                   *)
LEMMA TouchTypes ==
    ASSUME DiscogsTypeOK, NEW o \in Orders, NEW s \in Statuses, SetStatus(o, s),
           created' \in [Orders -> Nat], now' = now
    PROVE  DiscogsTypeOK'
<1>1. rank' \in [Orders -> Nat] BY DEF SetStatus, Touch, DiscogsTypeOK
<1> QED BY <1>1 DEF SetStatus, Touch, DiscogsTypeOK

(* Whoever was ahead of an order still is when another one is touched.             *)
LEMMA TouchKeepsOrder ==
    ASSUME DiscogsTypeOK, NEW o \in Orders, Touch(o), NEW p \in Orders, p # o, rank[p] > 0,
           NEW q \in Orders, rank[q] > 0, rank[q] <= rank[p]
    PROVE  rank'[q] > 0 /\ rank'[q] <= rank'[p]
<1>1. rank[o] \in Nat /\ rank[p] \in Nat /\ rank[q] \in Nat BY DEF DiscogsTypeOK
<1>2. rank'[p] = IF rank[p] > 0 /\ (rank[o] = 0 \/ rank[p] < rank[o]) THEN rank[p] + 1 ELSE rank[p]
  BY DEF Touch, DiscogsTypeOK
<1>3. CASE q = o
  <2>1. rank'[q] = 1 BY <1>3 DEF Touch, DiscogsTypeOK
  <2> QED BY <1>1, <1>2, <2>1
<1>4. CASE q # o
  <2>1. rank'[q] = IF rank[q] > 0 /\ (rank[o] = 0 \/ rank[q] < rank[o]) THEN rank[q] + 1 ELSE rank[q]
    BY <1>4 DEF Touch, DiscogsTypeOK
  <2> QED BY <1>1, <1>2, <2>1
<1> QED BY <1>3, <1>4

(* A place counted in a finite list is a number, from 1 to the length of the list.   *)
LEMMA PlaceBounds ==
    ASSUME NEW S, IsFiniteSet(S), NEW r, NEW p \in S, r[p] \in Nat
    PROVE  LET ahead == {q \in S : r[q] <= r[p]} IN
           /\ Cardinality(S) \in Nat /\ Cardinality(ahead) \in Nat
           /\ 1 <= Cardinality(ahead) /\ Cardinality(ahead) <= Cardinality(S)
<1> DEFINE Ahead == {q \in S : r[q] <= r[p]}
<1>1. p \in Ahead OBVIOUS
<1>2. IsFiniteSet(Ahead) /\ Cardinality(Ahead) <= Cardinality(S)
  <2>1. Ahead \in SUBSET S OBVIOUS
  <2> QED BY <2>1, FS_Subset
<1>3. {p} \in SUBSET Ahead BY <1>1
<1>4. Cardinality({p}) <= Cardinality(Ahead) BY <1>2, <1>3, FS_Subset
<1>5. Cardinality({p}) = 1 BY FS_Singleton
<1>6. Cardinality(S) \in Nat /\ Cardinality(Ahead) \in Nat BY <1>2, FS_CardinalityType
<1> QED BY <1>2, <1>4, <1>5, <1>6

(* Orders only move towards the end of the list, but for the one that is touched.    *)
LEMMA TouchPushesBack ==
    ASSUME TypeOK, NEW o \in Orders, Touch(o), NEW p \in Listed, p # o,
           cutoff' = cutoff,
           \/ UNCHANGED created
           \/ rank[o] = 0 /\ created' = [created EXCEPT ![o] = now]
    PROVE  Position(p) \in Nat /\ Position(p)' \in Nat /\ Position(p) <= Position(p)'
<1> DEFINE Before == {q \in Listed : rank[q] <= rank[p]}
           After == {q \in Listed' : rank'[q] <= rank'[p]}
<1>1. p \in Orders /\ rank[p] > 0 BY DEF Listed, Placed
<1>2. ASSUME NEW q \in Before PROVE q \in After
  <2>1. q \in Orders /\ rank[q] > 0 /\ rank[q] <= rank[p] BY DEF Listed, Placed
  <2>2. rank'[q] > 0 /\ rank'[q] <= rank'[p]
    BY <1>1, <2>1, TouchKeepsOrder DEF TypeOK
  <2>3. created'[q] = created[q]
    BY <2>1 DEF TypeOK, DiscogsTypeOK
  <2>4. created[q] >= CreatedAfter /\ CreatedAfter' = CreatedAfter
    BY DEF Listed, CreatedAfter
  <2>5. q \in Listed' BY <2>1, <2>2, <2>3, <2>4 DEF Listed, Placed
  <2> QED BY <2>2, <2>5
<1>3. Before \in SUBSET After BY <1>2
<1>4. IsFiniteSet(After)
  <2>1. After \in SUBSET Orders BY DEF Listed, Placed
  <2> QED BY <2>1, FS_Subset, DiscogsAssumption
<1>5. IsFiniteSet(Before) /\ Cardinality(Before) <= Cardinality(After)
  BY <1>3, <1>4, FS_Subset
<1>6. Cardinality(Before) \in Nat /\ Cardinality(After) \in Nat
  BY <1>4, <1>5, FS_CardinalityType
<1>7. Position(p) = Cardinality(Before) /\ Position(p)' = Cardinality(After)
  BY DEF Position
<1> QED BY <1>5, <1>6, <1>7

-----------------------------------------------------------------------------
(* An order that is not too old is in the list of a poll whose cutoff it passes.    *)
LEMMA ListedWhenDue ==
    ASSUME TypeOK, Known, NEW p \in unreported, ~TooOld(p), NEW c \in Nat, changed[p] >= c
    PROVE  p \in Placed /\ created[p] >= IF c > Lookback THEN c - Lookback ELSE 0
<1>1. p \in Orders /\ p \in Placed BY DEF Known, TypeOK, DiscogsTypeOK
<1>2. changed[p] \in Nat /\ created[p] \in Nat /\ Lookback \in Nat
  BY <1>1, ReadsAssumption DEF TypeOK, DiscogsTypeOK
<1>3. changed[p] <= created[p] + Lookback BY <1>2 DEF TooOld
<1> QED BY <1>1, <1>2, <1>3

(* Nothing is missed when an order changes: the poll that is under way, or the next,  *)
(* sees it, and the others only move to pages yet to come.                        *)
LEMMA TouchMissesNothing ==
    ASSUME TypeOK, Known, NothingMissed, NEW o \in Orders, Touch(o), UNCHANGED <<now, reads>>,
           \/ UNCHANGED created
           \/ rank[o] = 0 /\ created' = [created EXCEPT ![o] = now]
    PROVE  Known' /\ NothingMissed'
<1> USE DEF TypeOK, DiscogsTypeOK
<1>1. UNCHANGED <<now, polling, cutoff, start, page>> BY DEF reads
<1>2. rank'[o] = 1 BY DEF Touch
<1>3. ASSUME NEW p \in Orders, p # o
      PROVE  /\ rank[p] > 0 => rank'[p] > 0
             /\ changed'[p] = changed[p] /\ created'[p] = created[p]
             /\ p \in unreported' => p \in unreported
             /\ p \in excused => p \in excused'
  <2>1. rank[p] \in Nat BY <1>3
  <2>2. rank[p] > 0 => rank'[p] > 0 BY <1>3, <2>1 DEF Touch
  <2> QED BY <1>3, <2>2 DEF Touch
<1>4. unreported' \subseteq Orders BY DEF Touch
<1>5. Known' BY <1>2, <1>3, <1>4 DEF Known, Placed
<1>6. ASSUME NEW p \in unreported'
      PROVE  \/ p \in excused' \/ TooOld(p)'
             \/ changed'[p] >= start'
             \/ polling' /\ changed'[p] >= cutoff' /\ Position(p)' > (page' - 1) * PageSize
  <2>1. p \in Orders BY <1>4
  <2>2. CASE p = o
    <3>1. changed'[p] = now BY <2>2 DEF Touch
    <3> QED BY <1>1, <3>1 DEF ReadsTypeOK
  <2>3. CASE p # o
    <3>1. p \in unreported /\ changed'[p] = changed[p] /\ created'[p] = created[p]
      BY <1>3, <2>1, <2>3
    <3>2. TooOld(p)' <=> TooOld(p) BY <3>1 DEF TooOld
    <3>3. CASE p \in excused BY <1>3, <2>1, <2>3, <3>3
    <3>4. CASE TooOld(p) BY <3>2, <3>4
    <3>5. CASE changed[p] >= start BY <1>1, <3>1, <3>5
    <3>6. CASE /\ ~TooOld(p) /\ polling /\ changed[p] >= cutoff
               /\ Position(p) > (page - 1) * PageSize
      <4>1. p \in Listed
        BY <3>1, <3>6, ListedWhenDue DEF Listed, CreatedAfter, ReadsTypeOK
      <4>2. Position(p) \in Nat /\ Position(p)' \in Nat /\ Position(p) <= Position(p)'
        BY <1>1, <2>3, <4>1, TouchPushesBack
      <4> DEFINE passed == (page - 1) * PageSize
      <4>3. passed \in Nat BY ReadsAssumption DEF ReadsTypeOK
      <4>4. (page' - 1) * PageSize = passed BY <1>1
      <4>5. Position(p) > passed BY <3>6
      <4> HIDE DEF passed
      <4>6. Position(p)' > passed BY <4>2, <4>3, <4>5
      <4> QED BY <1>1, <3>1, <3>6, <4>4, <4>6
    <3> QED BY <3>1, <3>3, <3>4, <3>5, <3>6 DEF NothingMissed
  <2> QED BY <2>2, <2>3
<1> QED BY <1>5, <1>6 DEF NothingMissed

(* Nor when BaseLinker reads: a page shows what is on it, the next poll begins where  *)
(* this one began.                                                           *)
LEMMA BeginPollMissesNothing ==
    ASSUME TypeOK, Known, NothingMissed, BeginPoll, now' = now
    PROVE  Known' /\ NothingMissed'
<1> USE DEF TypeOK, DiscogsTypeOK, ReadsTypeOK
<1>1. /\ polling' = TRUE /\ cutoff' = start /\ start' = now /\ page' = 1 /\ ~polling
      /\ UNCHANGED <<now, rank, created, changed, unreported, excused>>
  BY DEF BeginPoll, orders
<1>2. Known' BY <1>1 DEF Known, Placed
<1>3. ASSUME NEW p \in unreported, ~TooOld(p), changed[p] >= start
      PROVE  Position(p)' > (page' - 1) * PageSize
  <2>1. start \in Nat /\ p \in Placed /\ p \in Orders BY <1>3 DEF Known
  <2>2. created[p] >= IF start > Lookback THEN start - Lookback ELSE 0
    BY <1>3, <2>1, ListedWhenDue
  <2>3. p \in Listed' BY <1>1, <2>1, <2>2 DEF Listed, CreatedAfter, Placed
  <2>4. IsFiniteSet(Listed')
    <3>1. Listed' \in SUBSET Orders BY DEF Listed, Placed
    <3> QED BY <3>1, FS_Subset, DiscogsAssumption
  <2>5. rank'[p] \in Nat BY <1>1, <2>1
  <2>6. Position(p)' \in Nat /\ 1 <= Position(p)'
    BY <2>3, <2>4, <2>5, PlaceBounds DEF Position
  <2>7. page' - 1 = 0 /\ 0 * PageSize = 0 BY <1>1, ReadsAssumption
  <2> QED BY <2>6, <2>7
<1>4. \A p \in unreported : TooOld(p)' <=> TooOld(p) BY <1>1 DEF TooOld
<1> QED BY <1>1, <1>2, <1>3, <1>4 DEF NothingMissed

LEMMA OrdersListMissesNothing ==
    ASSUME TypeOK, Known, NothingMissed, OrdersList, now' = now
    PROVE  Known' /\ NothingMissed' /\ page' \in Nat \ {0} /\ polling' \in BOOLEAN
<1> USE DEF TypeOK, DiscogsTypeOK, ReadsTypeOK
<1>1. /\ polling /\ UNCHANGED <<rank, created, changed, excused, cutoff, start>>
      /\ unreported' = unreported \ {o \in Listed : OnPage(o) /\ InWindow(o)}
      /\ polling' = (Cardinality(Listed) > page * PageSize)
      /\ page' = IF polling' THEN page + 1 ELSE 1
  BY DEF OrdersList
<1>2. Known' BY <1>1 DEF Known, Placed
<1>3. page' \in Nat \ {0} /\ polling' \in BOOLEAN BY <1>1
<1>4. ASSUME NEW p \in unreported', ~TooOld(p), changed[p] >= cutoff,
             Position(p) > (page - 1) * PageSize
      PROVE  polling' /\ Position(p)' > (page' - 1) * PageSize
  <2>1. p \in unreported /\ p \in Orders /\ cutoff \in Nat BY <1>1
  <2>2. p \in Listed
    BY <1>4, <2>1, ListedWhenDue DEF Listed, CreatedAfter
  <2>3. ~(Position(p) <= page * PageSize) BY <1>1, <1>4, <2>2 DEF OnPage, InWindow
  <2>4. IsFiniteSet(Listed)
    <3>1. Listed \in SUBSET Orders BY DEF Listed, Placed
    <3> QED BY <3>1, FS_Subset, DiscogsAssumption
  <2>5. rank[p] \in Nat BY <2>1
  <2>6. /\ Cardinality(Listed) \in Nat /\ Position(p) \in Nat
        /\ Position(p) <= Cardinality(Listed)
    BY <2>2, <2>4, <2>5, PlaceBounds DEF Position
  <2> DEFINE done == page * PageSize
  <2>7. done \in Nat BY ReadsAssumption
  <2>8. ~(Position(p) <= done) /\ polling' = (Cardinality(Listed) > done) BY <1>1, <2>3
  <2> HIDE DEF done
  <2>9. polling'
    <3>1. Cardinality(Listed) > done BY <2>6, <2>7, <2>8
    <3> QED BY <2>8, <3>1, Zenon
  <2>10. page' - 1 = page BY <1>1, <2>9
  <2>11. (page' - 1) * PageSize = done BY <2>10 DEF done
  <2>12. Position(p)' = Position(p) BY <1>1 DEF Position, Listed, Placed, CreatedAfter
  <2>13. Position(p)' > (page' - 1) * PageSize BY <2>6, <2>7, <2>8, <2>11, <2>12
  <2> QED BY <2>9, <2>13
<1>5. \A p \in unreported' : p \in unreported /\ (TooOld(p)' <=> TooOld(p)) BY <1>1 DEF TooOld
<1> QED BY <1>1, <1>2, <1>3, <1>4, <1>5 DEF NothingMissed

(* Nor by a step that leaves the orders alone, but for some that are reported or       *)
(* excused.                                                                 *)
LEMMA OthersMissNothing ==
    ASSUME Known, NothingMissed, UNCHANGED <<rank, created, changed, cutoff, start>>,
           unreported' \subseteq unreported, excused \subseteq excused',
           UNCHANGED <<polling, page>> \/ unreported' \subseteq excused'
    PROVE  Known' /\ NothingMissed'
<1>1. Known' BY DEF Known, Placed
<1>2. \A p \in unreported' : TooOld(p)' <=> TooOld(p) BY DEF TooOld
<1>3. \A p \in unreported' : Position(p)' = Position(p)
  BY DEF Position, Listed, Placed, CreatedAfter
<1> QED BY <1>1, <1>2, <1>3 DEF NothingMissed

-----------------------------------------------------------------------------
(* The orders of an update are orders, and those left of it come from it.          *)
LEMMA IdsAreOrders == ASSUME NEW u \in Update PROVE Ids(u) \subseteq Orders
<1>1. u.ids \in Seq(Orders) BY DEF Update
<1> QED BY <1>1 DEF Ids

(* What the watching history holds.                                            *)
LEMMA Observes ==
    ASSUME held \in [Workers -> SUBSET Orders], update' \in [Workers -> Update],
           held' = Observed
    PROVE  /\ held' \in [Workers -> SUBSET Orders]
           /\ \A w \in Workers :
                 /\ pc[w] # "idle" => held[w] \subseteq held'[w]
                 /\ \A o \in Ids(update'[w]) : status'[o] = update'[w].want => o \in held'[w]
<1>1. \A w \in Workers : Ids(update'[w]) \subseteq Orders BY IdsAreOrders
<1> QED BY <1>1 DEF Observed

(* A worker that stays where it is keeps what is true of it, even if what it has sent  *)
(* arrives.                                                                 *)
LEMMA StayingIsOK ==
    ASSUME NEW w \in Workers, WorkerOK(w),
           pc'[w] = pc[w], update'[w] = update[w], left'[w] = left[w],
           post'[w] = post[w], seen'[w] = seen[w],
           counted'[w] = counted[w], failed'[w] = failed[w],
           pc[w] = "idle" \/ (held[w] \subseteq held'[w] /\ written[w] \subseteq written'[w])
    PROVE  WorkerOK(w)'
<1> USE DEF WorkerOK
<1>1. IdleClean(w)' BY DEF IdleClean
<1>2. LeftOfUpdate(w)' BY DEF LeftOfUpdate, Sending
<1>3. EditFounded(w)' BY DEF EditFounded, Order
<1>4. MessageFounded(w)' BY DEF MessageFounded, Order
<1>5. StatusFounded(w)' BY DEF StatusFounded, Sending
<1>6. CountedDone(w)' BY DEF CountedDone, Done, IdleClean
<1>7. Accounted(w)' BY DEF Accounted
<1> QED BY <1>1, <1>2, <1>3, <1>4, <1>5, <1>6, <1>7

(* The others, while one worker acts.                                           *)
Others(w) ==
    \A v \in Workers \ {w} :
        /\ pc'[v] = pc[v] /\ update'[v] = update[v] /\ left'[v] = left[v]
        /\ post'[v] = post[v] /\ seen'[v] = seen[v]
        /\ counted'[v] = counted[v] /\ failed'[v] = failed[v] /\ written'[v] = written[v]

LEMMA OthersAreOK ==
    ASSUME held \in [Workers -> SUBSET Orders], update' \in [Workers -> Update],
           held' = Observed, NEW w, Others(w), NEW v \in Workers, v # w, WorkerOK(v)
    PROVE  WorkerOK(v)'
<1>1. pc[v] # "idle" => held[v] \subseteq held'[v] BY Observes
<1> QED BY <1>1, StayingIsOK DEF Others

(* An order is done with.                                                      *)
LEMMA LeavingIsOK ==
    ASSUME UpdatesTypeOK, NEW w \in Workers, WorkerOK(w), left[w] # <<>>, pc[w] # "idle",
           NEW good \in SUBSET {Order(w)}, NEW bad \in SUBSET {Order(w)}, Leave(w, good, bad),
           held' = Observed, written[w] \subseteq written'[w],
           \A o \in good : Done(w, o)',
           \/ Order(w) \in good \cup bad
           \/ ~HasEdit(update[w]) /\ ~HasMessage(update[w])
    PROVE  WorkerOK(w)'
<1> USE DEF UpdatesTypeOK
<1>1. /\ pc'[w] = "order" /\ left'[w] = Tail(left[w]) /\ update' = update
      /\ counted'[w] = counted[w] \cup good /\ failed'[w] = failed[w] \cup bad
  BY DEF Leave
<1>2. Elements(left[w]) = {Order(w)} \cup Elements(left'[w])
  <2>1. left[w] \in Seq(Orders) OBVIOUS
  <2> QED BY <1>1, <2>1, HeadAndTail DEF Order
<1>3. held[w] \subseteq held'[w] BY <1>1, Observes
<1>4. IdleClean(w)' /\ EditFounded(w)' /\ MessageFounded(w)' /\ StatusFounded(w)'
  BY <1>1 DEF IdleClean, EditFounded, MessageFounded, StatusFounded, Sending
<1>5. LeftOfUpdate(w)' BY <1>1, <1>2 DEF WorkerOK, LeftOfUpdate, Sending
<1>6. CountedDone(w)' BY <1>1, <1>3 DEF WorkerOK, CountedDone, Done
<1>7. Accounted(w)' BY <1>1, <1>2 DEF WorkerOK, Accounted
<1> QED BY <1>4, <1>5, <1>6, <1>7 DEF WorkerOK

LEMMA LeavingTypes ==
    ASSUME UpdatesTypeOK, NEW w \in Workers, left[w] # <<>>,
           NEW good \in SUBSET Orders, NEW bad \in SUBSET Orders, Leave(w, good, bad),
           held' = Observed, written' \in [Workers -> SUBSET (Orders \X {"edit", "message"})],
           \A v \in Workers \ {w} : written'[v] = written[v]
    PROVE  UpdatesTypeOK' /\ Others(w)
<1> USE DEF UpdatesTypeOK
<1>1. Tail(left[w]) \in Seq(Orders) BY HeadAndTail
<1>2. /\ pc' \in [Workers -> {"idle", "order", "edit", "message"}]
      /\ update' \in [Workers -> Update] /\ taken' \in 0..MaxUpdates
  BY DEF Leave
<1>3. left' \in [Workers -> Seq(Orders)] BY <1>1 DEF Leave
<1>4. post' \in [Workers -> Statuses \cup {NoStatus}] /\ seen' \in [Workers -> Statuses \cup {NoStatus}]
  BY DEF Leave
<1>5. attempt' \in [Workers -> 1..Tries]
  <2>1. 1 \in 1..Tries BY UpdatesAssumption
  <2> QED BY <2>1 DEF Leave
<1>6. counted' \in [Workers -> SUBSET Orders] /\ failed' \in [Workers -> SUBSET Orders]
  BY DEF Leave
<1>7. held' \in [Workers -> SUBSET Orders] BY <1>2, Observes
<1>8. Others(w) BY DEF Others, Leave
<1> QED BY <1>2, <1>3, <1>4, <1>5, <1>6, <1>7, <1>8

(* A request is turned to.                                                      *)
LEMMA TurningIsOK ==
    ASSUME UpdatesTypeOK, NEW w \in Workers, WorkerOK(w), left[w] # <<>>, pc[w] # "idle",
           NEW next \in {"edit", "message"}, NEW s, NEW current, Turn(w, next, s, current),
           held' = Observed, written[w] \subseteq written'[w],
           next = "edit" =>
               /\ HasEdit(update[w])
               /\ s = update[w].want \/ (s = NoStatus /\ Order(w) \in held'[w]),
           next = "message" =>
               LET u == update[w] IN
               /\ HasMessage(u)
               /\ u.want # NoStatus /\ u.kind # "delivery_number" => Order(w) \in held'[w]
               /\ u.tracking /\ HasEdit(u) => <<Order(w), "edit">> \in written'[w],
           update[w].kind # "direct" /\ s # NoStatus => Allowed(current, s)
    PROVE  WorkerOK(w)'
<1> USE DEF UpdatesTypeOK
<1>1. /\ pc'[w] = next /\ post'[w] = s /\ seen'[w] = current
      /\ update' = update /\ left' = left /\ counted' = counted /\ failed' = failed
  BY DEF Turn
<1>2. held[w] \subseteq held'[w] BY <1>1, Observes
<1>3. Order(w)' = Order(w) BY <1>1 DEF Order
<1>4. IdleClean(w)' BY <1>1 DEF IdleClean
<1>5. LeftOfUpdate(w)' BY <1>1 DEF WorkerOK, LeftOfUpdate
<1>6. EditFounded(w)' BY <1>1, <1>3 DEF EditFounded
<1>7. MessageFounded(w)' BY <1>1, <1>3 DEF MessageFounded
<1>8. StatusFounded(w)' BY <1>1 DEF StatusFounded
<1>9. CountedDone(w)' BY <1>1, <1>2 DEF WorkerOK, CountedDone, Done
<1>10. Accounted(w)' BY <1>1 DEF WorkerOK, Accounted
<1> QED BY <1>4, <1>5, <1>6, <1>7, <1>8, <1>9, <1>10 DEF WorkerOK

LEMMA TurningTypes ==
    ASSUME UpdatesTypeOK, NEW w \in Workers, NEW next \in {"edit", "message"},
           NEW s \in Statuses \cup {NoStatus}, NEW current \in Statuses \cup {NoStatus},
           Turn(w, next, s, current), held' = Observed,
           written' \in [Workers -> SUBSET (Orders \X {"edit", "message"})],
           \A v \in Workers \ {w} : written'[v] = written[v]
    PROVE  UpdatesTypeOK' /\ Others(w)
<1> USE DEF UpdatesTypeOK
<1>1. /\ pc' \in [Workers -> {"idle", "order", "edit", "message"}]
      /\ update' \in [Workers -> Update] /\ left' \in [Workers -> Seq(Orders)]
      /\ counted' \in [Workers -> SUBSET Orders] /\ failed' \in [Workers -> SUBSET Orders]
      /\ taken' \in 0..MaxUpdates
  BY DEF Turn
<1>2. post' \in [Workers -> Statuses \cup {NoStatus}] /\ seen' \in [Workers -> Statuses \cup {NoStatus}]
  BY DEF Turn
<1>3. attempt' \in [Workers -> 1..Tries]
  <2>1. 1 \in 1..Tries BY UpdatesAssumption
  <2> QED BY <2>1 DEF Turn
<1>4. held' \in [Workers -> SUBSET Orders] BY <1>1, Observes
<1>5. Others(w) BY DEF Others, Turn
<1> QED BY <1>1, <1>2, <1>3, <1>4, <1>5

-----------------------------------------------------------------------------
(* One lemma per action of a worker.                                             *)
After(w) == UpdatesTypeOK' /\ Others(w) /\ WorkerOK(w)'

LEMMA TakeIsOK ==
    ASSUME TypeOK, NEW w \in Workers, WorkerOK(w), NEW u \in Updates, Take(w, u),
           held' = Observed
    PROVE  After(w)
<1> USE DEF TypeOK, UpdatesTypeOK
<1>1. u \in Update /\ u.ids \in Seq(Orders) /\ <<>> \in Seq(Orders)
  BY UpdatesAssumption DEF Update
<1>2. /\ pc[w] = "idle" /\ pc'[w] = "order" /\ update'[w] = u
      /\ left'[w] = IF Skipped(u) THEN <<>> ELSE u.ids
      /\ UNCHANGED <<post, seen, attempt, counted, failed, written>>
      /\ taken' \in 0..MaxUpdates
  BY UpdatesAssumption DEF Take, request
<1>3. pc' \in [Workers -> {"idle", "order", "edit", "message"}] BY DEF Take
<1>4. update' \in [Workers -> Update] BY <1>1 DEF Take
<1>5. left' \in [Workers -> Seq(Orders)] BY <1>1 DEF Take
<1>6. held' \in [Workers -> SUBSET Orders] BY <1>4, Observes
<1>7. UpdatesTypeOK' BY <1>2, <1>3, <1>4, <1>5, <1>6
<1>8. Others(w) BY DEF Others, Take, request
<1>9. counted'[w] = {} BY <1>2 DEF WorkerOK, IdleClean
<1>10. Elements(left'[w]) = IF Skipped(u) THEN {} ELSE Ids(u)
  <2>1. Elements(<<>>) = {} BY <1>1, HeadAndTail
  <2>2. Elements(u.ids) = Ids(u) BY DEF Elements, Ids
  <2> QED BY <1>2, <2>1, <2>2
<1>11. IdleClean(w)' /\ EditFounded(w)' /\ MessageFounded(w)' /\ StatusFounded(w)'
  BY <1>2 DEF IdleClean, EditFounded, MessageFounded, StatusFounded, Sending
<1>12. LeftOfUpdate(w)' BY <1>2, <1>10 DEF LeftOfUpdate, Sending
<1>13. CountedDone(w)' BY <1>9 DEF CountedDone
<1>14. Accounted(w)' BY <1>2, <1>10 DEF Accounted
<1> QED BY <1>7, <1>8, <1>11, <1>12, <1>13, <1>14 DEF After, WorkerOK

(* The order at hand is an order of the update.                                   *)
LEMMA AtHand ==
    ASSUME UpdatesTypeOK, NEW w \in Workers, WorkerOK(w), left[w] # <<>>
    PROVE  /\ Order(w) \in Orders /\ Order(w) \in Ids(update[w]) /\ update[w] \in Update
           /\ ~Skipped(update[w])
<1>1. left[w] \in Seq(Orders) /\ update[w] \in Update BY DEF UpdatesTypeOK
<1> QED BY <1>1, HeadAndTail DEF Order, WorkerOK, LeftOfUpdate

LEMMA PassOverIsOK ==
    ASSUME TypeOK, NEW w \in Workers, WorkerOK(w), PassOver(w), held' = Observed
    PROVE  After(w)
<1> DEFINE u == update[w]
           good == IF u.kind = "direct" THEN {Order(w)} ELSE {}
           bad == IF Empty(u) THEN {Order(w)} ELSE {}
<1>1. /\ pc[w] = "order" /\ left[w] # <<>> /\ ~HasEdit(u) /\ ~HasMessage(u)
      /\ Leave(w, good, bad) /\ written' = written
  BY DEF PassOver, AtOrder
<1>2. UpdatesTypeOK BY DEF TypeOK
<1>3. /\ Order(w) \in Orders
      /\ good \in SUBSET {Order(w)} /\ bad \in SUBSET {Order(w)}
      /\ good \in SUBSET Orders /\ bad \in SUBSET Orders
  BY <1>1, <1>2, AtHand
<1>4. update' = update BY <1>1 DEF Leave
<1>5. \A o \in good : Done(w, o)' BY <1>1, <1>4 DEF Done, HasEdit
<1> HIDE DEF good, bad
<1>6. UpdatesTypeOK' /\ Others(w)
  BY <1>1, <1>2, <1>3, LeavingTypes DEF UpdatesTypeOK
<1>7. WorkerOK(w)' BY <1>1, <1>2, <1>3, <1>5, LeavingIsOK
<1> QED BY <1>6, <1>7 DEF After

LEMMA ProceedIsOK ==
    ASSUME TypeOK, NEW w \in Workers, WorkerOK(w), Proceed(w), held' = Observed
    PROVE  After(w)
<1> DEFINE u == update[w]
<1>1. /\ pc[w] = "order" /\ left[w] # <<>> /\ ~Checked(u) /\ written' = written
      /\ \/ HasEdit(u) /\ Turn(w, "edit", u.want, NoStatus)
         \/ ~HasEdit(u) /\ HasMessage(u) /\ Turn(w, "message", NoStatus, NoStatus)
  BY DEF Proceed, AtOrder
<1>2. UpdatesTypeOK BY DEF TypeOK
<1>3. /\ u \in Update /\ u.want \in Statuses \cup {NoStatus} /\ ~Skipped(u)
  BY <1>1, <1>2, AtHand DEF Update
<1>4. written' \in [Workers -> SUBSET (Orders \X {"edit", "message"})]
  BY <1>1, <1>2 DEF UpdatesTypeOK
<1>5. CASE HasEdit(u) /\ Turn(w, "edit", u.want, NoStatus)
  <2>1. u.kind # "direct" /\ u.want # NoStatus => FALSE
    BY <1>1, <1>3, <1>5 DEF Checked, Skipped, HasEdit, Update, Kinds
  <2>2. UpdatesTypeOK' /\ Others(w) BY <1>1, <1>2, <1>3, <1>4, <1>5, TurningTypes
  <2>3. WorkerOK(w)' BY <1>1, <1>2, <1>5, <2>1, TurningIsOK
  <2> QED BY <2>2, <2>3 DEF After
<1>6. CASE ~HasEdit(u) /\ HasMessage(u) /\ Turn(w, "message", NoStatus, NoStatus)
  <2>1. ~(u.want # NoStatus /\ u.kind # "delivery_number") BY <1>6 DEF HasEdit
  <2>2. UpdatesTypeOK' /\ Others(w) BY <1>1, <1>2, <1>4, <1>6, TurningTypes
  <2>3. WorkerOK(w)' BY <1>1, <1>2, <1>6, <2>1, TurningIsOK
  <2> QED BY <2>2, <2>3 DEF After
<1> QED BY <1>1, <1>5, <1>6

(* The order fails.                                                            *)
LEMMA FailingIsOK ==
    ASSUME TypeOK, NEW w \in Workers, WorkerOK(w), left[w] # <<>>, pc[w] # "idle",
           Leave(w, {}, {Order(w)}), held' = Observed,
           written' \in [Workers -> SUBSET (Orders \X {"edit", "message"})],
           written[w] \subseteq written'[w], \A v \in Workers \ {w} : written'[v] = written[v]
    PROVE  After(w)
<1>1. UpdatesTypeOK BY DEF TypeOK
<1>2. Order(w) \in Orders BY <1>1, AtHand
<1>3. UpdatesTypeOK' /\ Others(w) BY <1>1, <1>2, LeavingTypes
<1>4. WorkerOK(w)'
  <2>1. /\ {} \in SUBSET {Order(w)} /\ {Order(w)} \in SUBSET {Order(w)}
        /\ Order(w) \in {} \cup {Order(w)}
    OBVIOUS
  <2>2. \A o \in {} : Done(w, o)' OBVIOUS
  <2> QED BY <1>1, <2>1, <2>2, LeavingIsOK
<1> QED BY <1>3, <1>4 DEF After

LEMMA GetOrderIsOK ==
    ASSUME TypeOK, NEW w \in Workers, WorkerOK(w), GetOrder(w), held' = Observed
    PROVE  After(w)
<1> DEFINE u == update[w]
           current == status[Order(w)]
<1>1. /\ pc[w] = "order" /\ left[w] # <<>> /\ Checked(u) /\ UNCHANGED <<status, written>>
      /\ \/ current = u.want /\ u.tracking /\ Turn(w, "edit", NoStatus, current)
         \/ current = u.want /\ ~u.tracking /\ Leave(w, {Order(w)}, {})
         \/ Allowed(current, u.want) /\ Turn(w, "edit", u.want, current)
         \/ Leave(w, {}, {Order(w)})
  BY DEF GetOrder, AtOrder, orders
<1>2. UpdatesTypeOK BY DEF TypeOK
<1>3. /\ Order(w) \in Orders /\ Order(w) \in Ids(u) /\ u.want \in Statuses \cup {NoStatus}
      /\ current \in Statuses
  BY <1>1, <1>2, AtHand DEF Update, TypeOK, DiscogsTypeOK
<1>4. written' \in [Workers -> SUBSET (Orders \X {"edit", "message"})]
  BY <1>1, <1>2 DEF UpdatesTypeOK
<1>5. update' = update BY <1>1 DEF Turn, Leave
<1>6. current = u.want => Order(w) \in held'[w]
  <2>1. update' \in [Workers -> Update] /\ held \in [Workers -> SUBSET Orders]
    BY <1>2, <1>5 DEF UpdatesTypeOK
  <2> QED BY <1>1, <1>3, <1>5, <2>1, Observes
<1>7. u.want # NoStatus /\ HasEdit(u) /\ ~HasMessage(u)
  BY <1>1 DEF Checked, HasEdit, HasMessage
<1>8. CASE current = u.want /\ u.tracking /\ Turn(w, "edit", NoStatus, current)
  <2>1. UpdatesTypeOK' /\ Others(w) BY <1>1, <1>2, <1>3, <1>4, <1>8, TurningTypes
  <2>2. WorkerOK(w)' BY <1>1, <1>2, <1>6, <1>7, <1>8, TurningIsOK
  <2> QED BY <2>1, <2>2 DEF After
<1>9. CASE current = u.want /\ ~u.tracking /\ Leave(w, {Order(w)}, {})
  <2>1. \A o \in {Order(w)} : Done(w, o)' BY <1>5, <1>6, <1>7, <1>9 DEF Done
  <2>2. UpdatesTypeOK' /\ Others(w) BY <1>1, <1>2, <1>3, <1>4, <1>9, LeavingTypes
  <2>3. WorkerOK(w)' BY <1>1, <1>2, <1>9, <2>1, LeavingIsOK
  <2> QED BY <2>2, <2>3 DEF After
<1>10. CASE Allowed(current, u.want) /\ Turn(w, "edit", u.want, current)
  <2>1. UpdatesTypeOK' /\ Others(w) BY <1>1, <1>2, <1>3, <1>4, <1>10, TurningTypes
  <2>2. WorkerOK(w)' BY <1>1, <1>2, <1>7, <1>10, TurningIsOK
  <2> QED BY <2>1, <2>2 DEF After
<1>11. CASE Leave(w, {}, {Order(w)}) BY <1>1, <1>4, <1>11, FailingIsOK
<1> QED BY <1>1, <1>8, <1>9, <1>10, <1>11

LEMMA GetOrderFailsIsOK ==
    ASSUME TypeOK, NEW w \in Workers, WorkerOK(w), GetOrderFails(w), held' = Observed
    PROVE  After(w)
<1>1. /\ pc[w] = "order" /\ left[w] # <<>> /\ Leave(w, {}, {Order(w)}) /\ written' = written
  BY DEF GetOrderFails, AtOrder
<1>2. written' \in [Workers -> SUBSET (Orders \X {"edit", "message"})]
  BY <1>1 DEF TypeOK, UpdatesTypeOK
<1> QED BY <1>1, <1>2, FailingIsOK

(* What has become of an order once the request about it has arrived.              *)
LEMMA Arrived ==
    ASSUME TypeOK, NEW w \in Workers, WorkerOK(w), Sending(w), Applied(w), update' = update,
           held' = Observed
    PROVE  LET u == update[w] IN
           /\ left[w] # <<>> /\ pc[w] # "idle" /\ Order(w) \in Orders
           /\ \E s \in Statuses : SetStatus(Order(w), s)
           /\ written' \in [Workers -> SUBSET (Orders \X {"edit", "message"})]
           /\ written[w] \subseteq written'[w]
           /\ \A v \in Workers \ {w} : written'[v] = written[v]
           /\ <<Order(w), pc[w]>> \in written'[w]
           /\ u.want # NoStatus /\ u.kind # "delivery_number" => Order(w) \in held'[w]
<1> USE DEF TypeOK, UpdatesTypeOK
<1> DEFINE o == Order(w)
           u == update[w]
           s == IF post[w] # NoStatus THEN post[w] ELSE status[o]
<1>1. left[w] # <<>> /\ pc[w] \in {"edit", "message"} BY DEF WorkerOK, LeftOfUpdate, Sending
<1>2. o \in Orders /\ o \in Ids(u) BY <1>1, AtHand
<1>3. status[o] \in Statuses /\ post[w] \in Statuses \cup {NoStatus}
  BY <1>2 DEF DiscogsTypeOK
<1>4. s \in Statuses BY <1>3
<1>5. SetStatus(o, s) BY DEF Applied
<1>6. written' = [written EXCEPT ![w] = @ \cup {<<o, pc[w]>>}] BY DEF Applied
<1>7. <<o, pc[w]>> \in Orders \X {"edit", "message"} BY <1>1, <1>2
<1>8. /\ written' \in [Workers -> SUBSET (Orders \X {"edit", "message"})]
      /\ written[w] \subseteq written'[w] /\ <<o, pc[w]>> \in written'[w]
      /\ \A v \in Workers \ {w} : written'[v] = written[v]
  BY <1>6, <1>7
<1>9. /\ held[w] \subseteq held'[w]
      /\ status'[o] = u.want => o \in held'[w]
  BY <1>1, <1>2, Observes
<1>10. ASSUME u.want # NoStatus, u.kind # "delivery_number" PROVE o \in held'[w]
  <2>1. CASE pc[w] = "message"
    BY <1>9, <1>10, <2>1 DEF WorkerOK, MessageFounded
  <2>2. CASE pc[w] = "edit" /\ post[w] = NoStatus
    BY <1>9, <1>10, <2>2 DEF WorkerOK, EditFounded
  <2>3. CASE pc[w] = "edit" /\ post[w] # NoStatus
    <3>1. post[w] = u.want BY <2>3 DEF WorkerOK, EditFounded
    <3>2. status'[o] = post[w] BY <1>2, <1>5, <2>3 DEF SetStatus, DiscogsTypeOK
    <3> QED BY <1>9, <3>1, <3>2
  <2> QED BY <1>1, <2>1, <2>2, <2>3
<1> HIDE DEF s
<1> QED BY <1>1, <1>2, <1>4, <1>5, <1>8, <1>10

LEMMA AcceptedIsOK ==
    ASSUME TypeOK, NEW w \in Workers, WorkerOK(w), Accepted(w), held' = Observed
    PROVE  After(w)
<1> DEFINE u == update[w]
<1>1. UpdatesTypeOK /\ Sending(w) /\ Applied(w) BY DEF TypeOK, Accepted
<1>2. update' = update BY DEF Accepted, Turn, Leave
<1>3. /\ left[w] # <<>> /\ pc[w] # "idle" /\ Order(w) \in Orders
      /\ written' \in [Workers -> SUBSET (Orders \X {"edit", "message"})]
      /\ written[w] \subseteq written'[w]
      /\ \A v \in Workers \ {w} : written'[v] = written[v]
      /\ <<Order(w), pc[w]>> \in written'[w]
      /\ u.want # NoStatus /\ u.kind # "delivery_number" => Order(w) \in held'[w]
  BY <1>1, <1>2, Arrived
<1>4. u.want \in Statuses \cup {NoStatus} /\ u \in Update
  BY <1>1, <1>3, AtHand DEF Update
<1>5. CASE pc[w] = "edit" /\ HasMessage(u)
  <2>1. Turn(w, "message", u.want, NoStatus) BY <1>5 DEF Accepted
  <2>2. HasEdit(u) BY <1>5 DEF WorkerOK, EditFounded
  <2>3. u.kind = "direct" BY <1>5, <2>2 DEF HasEdit, HasMessage
  <2>4. NoStatus \in Statuses \cup {NoStatus} OBVIOUS
  <2>5. UpdatesTypeOK' /\ Others(w) BY <1>1, <1>3, <1>4, <2>1, <2>4, TurningTypes
  <2>6. WorkerOK(w)' BY <1>1, <1>3, <1>5, <2>1, <2>3, TurningIsOK
  <2> QED BY <2>5, <2>6 DEF After
<1>6. CASE ~(pc[w] = "edit" /\ HasMessage(u))
  <2>1. Leave(w, {Order(w)}, {}) BY <1>6 DEF Accepted
  <2>2. u.tracking /\ HasEdit(u) => <<Order(w), "edit">> \in written'[w]
    <3>1. CASE pc[w] = "edit" BY <1>3, <3>1
    <3>2. CASE pc[w] = "message" BY <1>3, <3>2 DEF WorkerOK, MessageFounded
    <3> QED BY <1>1, <3>1, <3>2 DEF Sending
  <2>3. HasMessage(u) => <<Order(w), "message">> \in written'[w]
    BY <1>1, <1>3, <1>6 DEF Sending
  <2>4. \A o \in {Order(w)} : Done(w, o)' BY <1>2, <1>3, <2>2, <2>3 DEF Done
  <2>5. UpdatesTypeOK' /\ Others(w) BY <1>1, <1>3, <2>1, LeavingTypes
  <2>6. WorkerOK(w)' BY <1>1, <1>3, <2>1, <2>4, LeavingIsOK
  <2> QED BY <2>5, <2>6 DEF After
<1> QED BY <1>5, <1>6

LEMMA UnansweredIsOK ==
    ASSUME TypeOK, NEW w \in Workers, WorkerOK(w), Unanswered(w), held' = Observed
    PROVE  After(w)
<1>1. UpdatesTypeOK /\ Sending(w) BY DEF TypeOK, Unanswered
<1>2. update' = update BY DEF Unanswered, Leave
<1>3. left[w] # <<>> /\ pc[w] # "idle" BY <1>1 DEF WorkerOK, LeftOfUpdate, Sending
<1>4. /\ written' \in [Workers -> SUBSET (Orders \X {"edit", "message"})]
      /\ written[w] \subseteq written'[w]
      /\ \A v \in Workers \ {w} : written'[v] = written[v]
  <2>1. CASE Applied(w) BY <1>1, <1>2, <2>1, Arrived
  <2>2. CASE written' = written BY <1>1, <2>2 DEF UpdatesTypeOK
  <2> QED BY <2>1, <2>2 DEF Unanswered
<1>5. CASE Leave(w, {}, {Order(w)}) BY <1>3, <1>4, <1>5, FailingIsOK
<1>6. CASE /\ AnotherAttempt(w) /\ attempt' = [attempt EXCEPT ![w] = @ + 1]
           /\ UNCHANGED <<pc, update, left, post, seen, counted, failed, taken>>
  <2>1. attempt' \in [Workers -> 1..Tries]
    <3>1. attempt[w] + 1 \in 1..Tries
      BY <1>1, <1>6, UpdatesAssumption DEF AnotherAttempt, UpdatesTypeOK
    <3> QED BY <1>1, <1>6, <3>1 DEF UpdatesTypeOK
  <2>2. update' \in [Workers -> Update] /\ held \in [Workers -> SUBSET Orders]
    BY <1>1, <1>2 DEF UpdatesTypeOK
  <2>3. held' \in [Workers -> SUBSET Orders] /\ held[w] \subseteq held'[w]
    BY <1>3, <2>2, Observes
  <2>4. UpdatesTypeOK' BY <1>1, <1>4, <1>6, <2>1, <2>3 DEF UpdatesTypeOK
  <2>5. Others(w) BY <1>4, <1>6 DEF Others
  <2>6. WorkerOK(w)' BY <1>4, <1>6, <2>3, StayingIsOK
  <2> QED BY <2>4, <2>5, <2>6 DEF After
<1> QED BY <1>5, <1>6 DEF Unanswered

LEMMA RefusedIsOK ==
    ASSUME TypeOK, NEW w \in Workers, WorkerOK(w), Refused(w), held' = Observed
    PROVE  After(w)
<1>1. Leave(w, {}, {Order(w)}) /\ written' = written BY DEF Refused
<1>2. left[w] # <<>> /\ pc[w] # "idle" BY DEF Refused, WorkerOK, LeftOfUpdate, Sending
<1>3. written' \in [Workers -> SUBSET (Orders \X {"edit", "message"})]
  BY <1>1 DEF TypeOK, UpdatesTypeOK
<1> QED BY <1>1, <1>2, <1>3, FailingIsOK

LEMMA ReplyIsOK ==
    ASSUME TypeOK, NEW w \in Workers, WorkerOK(w), Reply(w), held' = Observed
    PROVE  After(w)
<1> USE DEF TypeOK, UpdatesTypeOK
<1>1. /\ left[w] = <<>> /\ pc'[w] = "idle" /\ update'[w] = NoUpdate /\ left' = left
      /\ counted'[w] = {} /\ failed'[w] = {}
      /\ UNCHANGED <<post, seen, attempt, taken>>
  BY DEF Reply, request
<1>2. <<>> \in Seq(Orders) /\ NoUpdate \in Update BY DEF NoUpdate, Update, Kinds
<1>3. /\ pc' \in [Workers -> {"idle", "order", "edit", "message"}]
      /\ update' \in [Workers -> Update]
  BY <1>2 DEF Reply
<1>4. counted' \in [Workers -> SUBSET Orders] /\ failed' \in [Workers -> SUBSET Orders]
  BY DEF Reply
<1>5. written' \in [Workers -> SUBSET (Orders \X {"edit", "message"})] BY DEF Reply
<1>6. held' \in [Workers -> SUBSET Orders] BY <1>3, Observes
<1>7. UpdatesTypeOK' BY <1>1, <1>3, <1>4, <1>5, <1>6
<1>8. Others(w) BY DEF Others, Reply, request
<1>9. Elements(left'[w]) = {} /\ Ids(NoUpdate) = {}
  <2>1. Elements(<<>>) = {} BY <1>2, HeadAndTail
  <2>2. NoUpdate.ids = <<>> BY DEF NoUpdate
  <2> QED BY <1>1, <2>1, <2>2 DEF Elements, Ids
<1>10. IdleClean(w)' /\ EditFounded(w)' /\ MessageFounded(w)' /\ StatusFounded(w)'
  BY <1>1 DEF IdleClean, EditFounded, MessageFounded, StatusFounded, Sending
<1>11. LeftOfUpdate(w)' BY <1>1, <1>9 DEF LeftOfUpdate, Sending
<1>12. CountedDone(w)' /\ Accounted(w)' BY <1>1, <1>9 DEF CountedDone, Accounted
<1> QED BY <1>7, <1>8, <1>10, <1>11, <1>12 DEF After, WorkerOK

-----------------------------------------------------------------------------
(* What the orders and the reads come to when a worker acts.                       *)
OrdersFollow == DiscogsTypeOK' /\ ReadsTypeOK' /\ Known' /\ NothingMissed'

LEMMA OrdersRest ==
    ASSUME TypeOK, Known, NothingMissed, UNCHANGED <<now, orders, reads>>
    PROVE  OrdersFollow
<1>1. UNCHANGED <<now, rank, created, changed, status, unreported, excused,
                  polling, cutoff, start, page>>
  BY DEF orders, reads
<1>2. DiscogsTypeOK' /\ ReadsTypeOK' BY <1>1 DEF TypeOK, DiscogsTypeOK, ReadsTypeOK
<1>3. Known' /\ NothingMissed' BY <1>1, OthersMissNothing
<1> QED BY <1>2, <1>3 DEF OrdersFollow

LEMMA OrdersMove ==
    ASSUME TypeOK, Known, NothingMissed, UNCHANGED <<now, reads>>,
           NEW o \in Orders, NEW s \in Statuses, SetStatus(o, s),
           \/ UNCHANGED created
           \/ rank[o] = 0 /\ created' = [created EXCEPT ![o] = now]
    PROVE  OrdersFollow
<1>1. created' \in [Orders -> Nat] BY DEF TypeOK, DiscogsTypeOK
<1>2. DiscogsTypeOK' BY <1>1, TouchTypes DEF TypeOK
<1>3. ReadsTypeOK' BY DEF TypeOK, ReadsTypeOK, reads
<1>4. Known' /\ NothingMissed' BY TouchMissesNothing DEF SetStatus
<1> QED BY <1>2, <1>3, <1>4 DEF OrdersFollow

LEMMA DiscogsFollows ==
    ASSUME TypeOK, Known, NothingMissed, DiscogsStep, UNCHANGED reads
    PROVE  OrdersFollow
<1>1. PICK o \in Orders : PlaceOrder(o) \/ \E s \in Statuses : ActOutside(o, s)
  BY DEF DiscogsStep
<1>2. now' = now BY DEF DiscogsStep
<1>3. CASE PlaceOrder(o)
  <2>1. NewOrder \in Statuses BY DiscogsAssumption
  <2> QED BY <1>2, <1>3, <2>1, OrdersMove DEF PlaceOrder
<1>4. CASE \E s \in Statuses : ActOutside(o, s)
  BY <1>2, <1>4, OrdersMove DEF ActOutside
<1> QED BY <1>1, <1>3, <1>4

LEMMA ReadsFollow ==
    ASSUME TypeOK, Known, NothingMissed, ReadsStep
    PROVE  OrdersFollow
<1> USE DEF TypeOK, DiscogsTypeOK, ReadsTypeOK
<1>1. now' = now BY DEF ReadsStep
<1>2. CASE BeginPoll
  <2>1. Known' /\ NothingMissed' BY <1>1, <1>2, BeginPollMissesNothing
  <2> QED BY <1>1, <1>2, <2>1 DEF BeginPoll, orders, OrdersFollow
<1>3. CASE OrdersList
  <2>1. Known' /\ NothingMissed' /\ page' \in Nat \ {0} /\ polling' \in BOOLEAN
    BY <1>1, <1>3, OrdersListMissesNothing
  <2>2. /\ UNCHANGED <<rank, created, changed, status, excused, cutoff, start>>
        /\ unreported' \subseteq unreported
    BY <1>3 DEF OrdersList
  <2> QED BY <1>1, <2>1, <2>2 DEF OrdersFollow
<1>4. CASE OrdersListFails
  <2>1. /\ UNCHANGED <<rank, created, changed, status, unreported, cutoff, start>>
        /\ excused' = excused \cup unreported /\ polling' = FALSE /\ page' = 1
    BY <1>4 DEF OrdersListFails
  <2>2. Known' /\ NothingMissed' BY <2>1, OthersMissNothing
  <2>3. DiscogsTypeOK' BY <1>1, <2>1
  <2>4. polling' \in BOOLEAN BY <2>1
  <2>5. ReadsTypeOK' BY <1>1, <2>1, <2>4
  <2> QED BY <2>2, <2>3, <2>5 DEF OrdersFollow
<1>5. ASSUME NEW o \in Orders, OrdersGet(o) PROVE OrdersFollow
  <2>1. /\ UNCHANGED <<rank, created, changed, status, excused, polling, cutoff, start, page>>
        /\ unreported' = unreported \ {o}
    BY <1>5 DEF OrdersGet, reads
  <2>2. Known' /\ NothingMissed' BY <2>1, OthersMissNothing
  <2> QED BY <1>1, <2>1, <2>2 DEF OrdersFollow
<1> QED BY <1>2, <1>3, <1>4, <1>5 DEF ReadsStep

(* A worker's action keeps its own books and those of the others.                  *)
LEMMA WorkerActs ==
    ASSUME TypeOK, \A v \in Workers : WorkerOK(v), held' = Observed,
           NEW w \in Workers, After(w)
    PROVE  UpdatesTypeOK' /\ \A v \in Workers : WorkerOK(v)'
<1>1. UpdatesTypeOK' /\ Others(w) /\ WorkerOK(w)' BY DEF After
<1>2. held \in [Workers -> SUBSET Orders] /\ update' \in [Workers -> Update]
  BY <1>1 DEF TypeOK, UpdatesTypeOK
<1>3. \A v \in Workers : v # w => WorkerOK(v)' BY <1>1, <1>2, OthersAreOK
<1> QED BY <1>1, <1>3

LEMMA JobsRest ==
    ASSUME TypeOK, \A v \in Workers : WorkerOK(v), held' = Observed \/ held' = held,
           UNCHANGED jobs
    PROVE  UpdatesTypeOK' /\ \A v \in Workers : WorkerOK(v)'
<1>1. UNCHANGED <<pc, update, left, post, seen, attempt, counted, failed, taken, written>>
  BY DEF jobs, request
<1>2. held \in [Workers -> SUBSET Orders] /\ update' \in [Workers -> Update]
  BY <1>1 DEF TypeOK, UpdatesTypeOK
<1>3. /\ held' \in [Workers -> SUBSET Orders]
      /\ \A v \in Workers : pc[v] # "idle" => held[v] \subseteq held'[v]
  <2>1. CASE held' = Observed BY <1>2, <2>1, Observes
  <2>2. CASE held' = held BY <1>2, <2>2
  <2> QED BY <2>1, <2>2
<1>4. UpdatesTypeOK' BY <1>1, <1>3 DEF TypeOK, UpdatesTypeOK
<1>5. ASSUME NEW v \in Workers PROVE WorkerOK(v)' BY <1>1, <1>3, StayingIsOK
<1> QED BY <1>4, <1>5

LEMMA UpdatesFollow ==
    ASSUME IInv, UpdatesStep, UNCHANGED <<now, reads>>, held' = Observed
    PROVE  OrdersFollow /\ UpdatesTypeOK' /\ \A v \in Workers : WorkerOK(v)'
<1> USE DEF IInv
<1>1. PICK w \in Workers :
        \/ \E u \in Updates : Take(w, u)
        \/ PassOver(w) \/ Proceed(w) \/ GetOrder(w) \/ GetOrderFails(w)
        \/ Accepted(w) \/ Unanswered(w) \/ Refused(w) \/ Reply(w)
  BY DEF UpdatesStep
<1>2. CASE \E u \in Updates : Take(w, u)
  <2>1. After(w) BY <1>2, TakeIsOK
  <2>2. OrdersFollow BY <1>2, OrdersRest DEF Take
  <2> QED BY <2>1, <2>2, WorkerActs
<1>3. CASE PassOver(w)
  <2>1. After(w) BY <1>3, PassOverIsOK
  <2>2. OrdersFollow BY <1>3, OrdersRest DEF PassOver
  <2> QED BY <2>1, <2>2, WorkerActs
<1>4. CASE Proceed(w)
  <2>1. After(w) BY <1>4, ProceedIsOK
  <2>2. OrdersFollow BY <1>4, OrdersRest DEF Proceed
  <2> QED BY <2>1, <2>2, WorkerActs
<1>5. CASE GetOrder(w)
  <2>1. After(w) BY <1>5, GetOrderIsOK
  <2>2. OrdersFollow BY <1>5, OrdersRest DEF GetOrder
  <2> QED BY <2>1, <2>2, WorkerActs
<1>6. CASE GetOrderFails(w)
  <2>1. After(w) BY <1>6, GetOrderFailsIsOK
  <2>2. OrdersFollow BY <1>6, OrdersRest DEF GetOrderFails
  <2> QED BY <2>1, <2>2, WorkerActs
<1>7. ASSUME Sending(w), Applied(w), update' = update PROVE OrdersFollow
  <2>1. PICK s \in Statuses : SetStatus(Order(w), s) BY <1>7, Arrived
  <2>2. Order(w) \in Orders /\ UNCHANGED created BY <1>7, Arrived DEF Applied
  <2> QED BY <2>1, <2>2, OrdersMove
<1>8. CASE Accepted(w)
  <2>1. After(w) BY <1>8, AcceptedIsOK
  <2>2. update' = update BY <1>8 DEF Accepted, Turn, Leave
  <2>3. OrdersFollow BY <1>7, <1>8, <2>2 DEF Accepted
  <2> QED BY <2>1, <2>3, WorkerActs
<1>9. CASE Unanswered(w)
  <2>1. After(w) BY <1>9, UnansweredIsOK
  <2>2. update' = update BY <1>9 DEF Unanswered, Leave
  <2>3. ASSUME Applied(w) PROVE OrdersFollow BY <1>7, <1>9, <2>2, <2>3 DEF Unanswered
  <2>4. ASSUME UNCHANGED <<orders, written>> PROVE OrdersFollow BY <2>4, OrdersRest
  <2>5. OrdersFollow BY <1>9, <2>3, <2>4 DEF Unanswered
  <2> QED BY <2>1, <2>5, WorkerActs
<1>10. CASE Refused(w)
  <2>1. After(w) BY <1>10, RefusedIsOK
  <2>2. OrdersFollow BY <1>10, OrdersRest DEF Refused
  <2> QED BY <2>1, <2>2, WorkerActs
<1>11. CASE Reply(w)
  <2>1. After(w) BY <1>11, ReplyIsOK
  <2>2. OrdersFollow BY <1>11, OrdersRest DEF Reply
  <2> QED BY <2>1, <2>2, WorkerActs
<1> QED BY <1>1, <1>2, <1>3, <1>4, <1>5, <1>6, <1>8, <1>9, <1>10, <1>11

-----------------------------------------------------------------------------
LEMMA Initially == Init => IInv
<1> SUFFICES ASSUME Init PROVE IInv OBVIOUS
<1> USE DEF Init, DiscogsInit, ReadsInit, UpdatesInit
<1>1. DiscogsTypeOK BY DiscogsAssumption DEF DiscogsTypeOK
<1>2. ReadsTypeOK
  <2>1. polling \in BOOLEAN OBVIOUS
  <2>2. /\ cutoff \in Nat /\ start \in Nat /\ cutoff <= start /\ start <= now
        /\ page \in Nat \ {0}
    OBVIOUS
  <2> QED BY <2>1, <2>2 DEF ReadsTypeOK
<1>3. <<>> \in Seq(Orders) /\ NoUpdate \in Update BY DEF NoUpdate, Update, Kinds
<1>4. 1 \in 1..Tries /\ 0 \in 0..MaxUpdates BY UpdatesAssumption
<1>5. UpdatesTypeOK BY <1>3, <1>4 DEF UpdatesTypeOK
<1>6. Known /\ NothingMissed BY DEF Known, NothingMissed
<1>7. ASSUME NEW w \in Workers PROVE WorkerOK(w)
  <2>1. /\ pc[w] = "idle" /\ update[w] = NoUpdate /\ left[w] = <<>> /\ counted[w] = {}
    BY <1>7
  <2>2. NoUpdate.ids = <<>> /\ Elements(<<>>) = {} BY <1>3, HeadAndTail DEF NoUpdate
  <2>3. Ids(NoUpdate) = {} BY <2>2 DEF Ids
  <2>4. IdleClean(w) /\ EditFounded(w) /\ MessageFounded(w) /\ StatusFounded(w)
    BY <2>1 DEF IdleClean, EditFounded, MessageFounded, StatusFounded, Sending
  <2>5. LeftOfUpdate(w) BY <2>1, <2>2 DEF LeftOfUpdate, Sending
  <2>6. CountedDone(w) /\ Accounted(w) BY <2>1, <2>3 DEF CountedDone, Accounted
  <2> QED BY <2>4, <2>5, <2>6 DEF WorkerOK
<1> QED BY <1>1, <1>2, <1>5, <1>6, <1>7 DEF IInv, TypeOK

LEMMA Inductively == IInv /\ [Next]_vars => IInv'
<1> SUFFICES ASSUME IInv, [Next]_vars PROVE IInv' OBVIOUS
<1>1. SUFFICES OrdersFollow /\ UpdatesTypeOK' /\ \A v \in Workers : WorkerOK(v)'
  BY DEF IInv, TypeOK, OrdersFollow
<1>2. CASE UNCHANGED vars
  <2>1. UNCHANGED <<now, orders, reads, jobs, held>> BY <1>2 DEF vars
  <2> QED BY <2>1, OrdersRest, JobsRest DEF IInv
<1>3. CASE Tick /\ held' = Observed
  <2>1. /\ UNCHANGED <<rank, created, changed, status, unreported, excused,
                       polling, cutoff, start, page>>
        /\ now' = now + 1
    BY <1>3 DEF Tick, orders, reads
  <2>2. DiscogsTypeOK' /\ ReadsTypeOK' BY <2>1 DEF IInv, TypeOK, DiscogsTypeOK, ReadsTypeOK
  <2>3. Known' /\ NothingMissed' BY <2>1, OthersMissNothing DEF IInv
  <2>4. UpdatesTypeOK' /\ \A v \in Workers : WorkerOK(v)' BY <1>3, JobsRest DEF IInv, Tick
  <2> QED BY <2>2, <2>3, <2>4 DEF OrdersFollow
<1>4. CASE DiscogsStep /\ UNCHANGED <<reads, jobs>> /\ held' = Observed
  BY <1>4, DiscogsFollows, JobsRest DEF IInv
<1>5. CASE ReadsStep /\ UNCHANGED jobs /\ held' = Observed
  BY <1>5, ReadsFollow, JobsRest DEF IInv
<1>6. CASE UpdatesStep /\ UNCHANGED <<now, reads>> /\ held' = Observed
  BY <1>6, UpdatesFollow
<1> QED BY <1>2, <1>3, <1>4, <1>5, <1>6 DEF Next

LEMMA Always == Spec => []IInv
BY Initially, Inductively, PTL DEF Spec

(* Every variable stays within its type.                                          *)
THEOREM Types == Spec => []TypeOK
<1>1. IInv => TypeOK BY DEF IInv
<1> QED BY <1>1, Always, PTL

(* However pages shift between two requests of a poll, and however long a poll takes,  *)
(* a change BaseLinker has not been told about is still ahead of it.                 *)
THEOREM NoChangeMissed == Spec => []NothingMissed
<1>1. IInv => NothingMissed BY DEF IInv
<1> QED BY <1>1, Always, PTL

(* An order counted as processed had the status asked for, and everything that was to   *)
(* be sent for it has reached Discogs.                                             *)
THEOREM WhatIsCountedIsDone == Spec => []CountedMeansDone
<1>1. IInv => CountedMeansDone
  BY DEF IInv, WorkerOK, CountedDone, Done, CountedMeansDone
<1> QED BY <1>1, Always, PTL

(* No order of an update is forgotten on the way.                                   *)
THEOREM NoOrderForgotten == Spec => []EveryOrderAccounted
<1>1. IInv => EveryOrderAccounted
  <2> SUFFICES ASSUME IInv, NEW w \in Workers, NEW o \in Ids(update[w])
               PROVE  \/ \E i \in 1..Len(left[w]) : left[w][i] = o
                      \/ o \in counted[w] \cup failed[w]
                      \/ Skipped(update[w]) \/ (~HasEdit(update[w]) /\ ~HasMessage(update[w]))
    BY DEF EveryOrderAccounted
  <2> QED BY DEF IInv, WorkerOK, Accounted, Elements
<1> QED BY <1>1, Always, PTL

(* A checked update sends a status only where Discogs allows it from the status that    *)
(* was read.                                                                 *)
LEMMA StepsFollow == IInv /\ [Next]_vars => StatusesFollow
<1> SUFFICES ASSUME IInv, [Next]_vars, NEW w \in Workers, NEW o \in Orders,
                    Sending(w), written'[w] # written[w], o = Order(w),
                    update[w].kind # "direct", status'[o] # status[o]
             PROVE  \/ status[o] # seen[w]
                    \/ NextStatus[status[o]] = {} \/ status'[o] \in NextStatus[status[o]]
  BY DEF StatusesFollow
<1>1. UpdatesStep
  BY DEF Next, vars, jobs, Tick
<1>2. PICK v \in Workers :
        \/ \E u \in Updates : Take(v, u)
        \/ PassOver(v) \/ Proceed(v) \/ GetOrder(v) \/ GetOrderFails(v)
        \/ Accepted(v) \/ Unanswered(v) \/ Refused(v) \/ Reply(v)
  BY <1>1 DEF UpdatesStep
<1>3. Applied(v) \/ Reply(v)
  BY <1>2 DEF Take, PassOver, Proceed, GetOrder, GetOrderFails, Accepted, Unanswered, Refused
<1>4. CASE Reply(v)
  BY <1>4 DEF Reply, orders
<1>5. CASE Applied(v)
  <2>1. v = w
    <3>1. written \in [Workers -> SUBSET (Orders \X {"edit", "message"})]
      BY DEF IInv, TypeOK, UpdatesTypeOK
    <3> QED BY <1>5, <3>1 DEF Applied
  <2>2. status'[o] = IF post[w] # NoStatus THEN post[w] ELSE status[o]
    <3>1. status \in [Orders -> Statuses] BY DEF IInv, TypeOK, DiscogsTypeOK
    <3> QED BY <1>5, <2>1, <3>1 DEF Applied, SetStatus
  <2>3. Allowed(seen[w], post[w]) BY <2>2 DEF IInv, WorkerOK, StatusFounded
  <2> QED BY <2>2, <2>3 DEF Allowed
<1> QED BY <1>3, <1>4, <1>5

(* Updates that are late or repeated lead no order where it may not go.                *)
THEOREM StatusesAreFollowed == Spec => StatusesAlwaysFollow
<1>1. IInv /\ [Next]_vars => [StatusesFollow]_vars BY StepsFollow
<1> QED BY <1>1, Always, PTL DEF Spec, StatusesAlwaysFollow
=============================================================================
