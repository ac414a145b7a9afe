----------------------------- MODULE CatalogProofs -----------------------------
(***************************************************************************)
(* Nothing served is older than the times to live allow, misses of the snapshot     *)
(* end, and a scan that saw one content has all of it, for any readers,           *)
(* inventories, times to live and page size.                                   *)
(***************************************************************************)
EXTENDS Catalog, SequenceTheorems, WellFoundedInduction, TLAPS

(* The types of what the ages depend on.                                        *)
CacheTypes ==
    /\ inventory \in Inventories
    /\ at \in [Readers -> Places]
    /\ job \in [Readers -> Jobs]
    /\ nap \in [Readers -> Nat]
    /\ snapshot \in Entries(ExportTTL)
    /\ answers \in [DOMAIN answers -> Entries(PageTTL) \ {Stale}]
    /\ extra \in [Readers -> {0, 1}]

LoadedAge == PollInterval + DownloadTime
SnapshotAge == LoadedAge + ExportTTL
PageAge == LoadedAge + ExportTTL + PageTTL

(* What an entry may still live, it has not aged.                                *)
Bounded(entry, most) == Live(entry) => entry.age + entry.left <= most

(* A job that is done is seen to be within an interval, and downloaded in time.      *)
JobAge(r) ==
    /\ at[r] = "loading" => job[r].state = "done"
    /\ at[r] = "asleep" => nap[r] <= PollInterval
    /\ job[r].state = "pending" => at[r] \in {"polling", "asleep"}
    /\ job[r].state = "done" =>
         \/ at[r] = "polling" /\ job[r].age <= PollInterval
         \/ at[r] = "asleep" /\ job[r].age + nap[r] <= PollInterval
         \/ at[r] = "loading" /\ job[r].age + nap[r] <= LoadedAge

Ages ==
    /\ Bounded(snapshot, SnapshotAge)
    /\ \A k \in DOMAIN answers : Bounded(answers[k], PageAge)
    /\ \A r \in Readers : JobAge(r)

(* Whoever has started an export too many does not start one more.                 *)
Extras ==
    /\ ~Live(snapshot) => \A r \in Readers : extra[r] = 0
    /\ Live(snapshot) => \A r \in Readers : extra[r] = 1 => at[r] # "starting"

IInv == CacheTypes /\ Ages /\ Extras

-----------------------------------------------------------------------------
(* What a loop that picks from a sequence returns, by the least counterexample.       *)
LEMMA Least ==
    ASSUME NEW T \in SUBSET Nat, T # {}
    PROVE  \E n \in T : \A m \in T : n <= m
<1> DEFINE R == OpToRel(<, Nat)
<1>1. IsWellFoundedOn(R, Nat) BY NatLessThanWellFounded
<1> HIDE DEF R
<1>2. PICK n \in T : \A m \in T : ~(<<m, n>> \in R) BY <1>1, WFMin
<1>3. \A m \in T : ~(m < n) BY <1>2 DEF R, OpToRel
<1> QED BY <1>3

(* The body of the loop: the results up to each place, from those up to the one before. *)
Kept(f, s, S, n) ==
    [i \in 0..n |-> IF i = 0 THEN <<>>
                    ELSE IF s[i] \in S THEN Append(f[i - 1], s[i]) ELSE f[i - 1]]

LEMMA KeptAt ==
    ASSUME NEW f, NEW s, NEW S, NEW n \in Nat, NEW i \in 0..n
    PROVE  Kept(f, s, S, n)[i] =
               IF i = 0 THEN <<>>
               ELSE IF s[i] \in S THEN Append(f[i - 1], s[i]) ELSE f[i - 1]
BY DEF Kept

LEMMA KeptIsDefined ==
    ASSUME NEW s, NEW S, NEW n \in Nat
    PROVE  \E f : f = Kept(f, s, S, n)
<1> DEFINE Bad == {k \in Nat : ~ \E f : f = Kept(f, s, S, k)}
<1>1. ASSUME Bad # {} PROVE FALSE
  <2>1. PICK k \in Bad : \A m \in Bad : k <= m BY <1>1, Least
  <2>2. k # 0
    <3> DEFINE f == [i \in 0..0 |-> <<>>]
    <3>1. f = Kept(f, s, S, 0) BY DEF Kept
    <3> HIDE DEF f
    <3> QED BY <3>1
  <2>3. k - 1 \in Nat /\ k - 1 \notin Bad BY <2>1, <2>2
  <2>4. PICK f : f = Kept(f, s, S, k - 1) BY <2>3
  <2> DEFINE g == [i \in 0..k |->
                       IF i < k THEN f[i]
                       ELSE IF s[i] \in S THEN Append(f[i - 1], s[i]) ELSE f[i - 1]]
  <2>5. ASSUME NEW i \in 0..k PROVE g[i] = Kept(g, s, S, k)[i]
    <3>1. k \in Nat \ {0} BY <2>2
    <3>2. CASE i = 0
      <4>1. f[0] = Kept(f, s, S, k - 1)[0] BY <2>4
      <4>2. f[0] = <<>> BY <2>3, <4>1, KeptAt
      <4> QED BY <3>1, <3>2, <4>2, KeptAt
    <3>3. CASE i \in 1..(k - 1)
      <4>1. f[i] = IF s[i] \in S THEN Append(f[i - 1], s[i]) ELSE f[i - 1]
        <5>1. f[i] = Kept(f, s, S, k - 1)[i] BY <2>4
        <5> QED BY <2>3, <3>3, <5>1, KeptAt
      <4>2. g[i] = f[i] /\ g[i - 1] = f[i - 1] BY <3>1, <3>3
      <4>3. Kept(g, s, S, k)[i] = IF s[i] \in S THEN Append(g[i - 1], s[i]) ELSE g[i - 1]
        BY <3>3 DEF Kept
      <4> QED BY <4>1, <4>2, <4>3
    <3>4. CASE i = k
      <4>1. g[k] = IF s[k] \in S THEN Append(f[k - 1], s[k]) ELSE f[k - 1] BY <3>1
      <4>2. g[k - 1] = f[k - 1] BY <3>1
      <4>3. Kept(g, s, S, k)[k] = IF s[k] \in S THEN Append(g[k - 1], s[k]) ELSE g[k - 1]
        BY <3>1 DEF Kept
      <4> HIDE DEF g
      <4> QED BY <3>4, <4>1, <4>2, <4>3
    <3> QED BY <3>1, <3>2, <3>3, <3>4
  <2>6. g = Kept(g, s, S, k)
    <3>1. g = [i \in 0..k |-> g[i]] OBVIOUS
    <3>2. Kept(g, s, S, k) = [i \in 0..k |-> Kept(g, s, S, k)[i]] BY DEF Kept
    <3> HIDE DEF g
    <3> QED BY <2>5, <3>1, <3>2
  <2> HIDE DEF g
  <2> QED BY <2>1, <2>6
<1> QED BY <1>1

LEMMA KeepingType ==
    ASSUME NEW T, NEW s \in Seq(T), NEW S
    PROVE  Keeping(s, S) \in Seq(T \cap S)
<1> DEFINE n == Len(s)
           kept == CHOOSE f : f = Kept(f, s, S, n)
           Bad == {i \in 0..n : kept[i] \notin Seq(T \cap S)}
<1>1. Keeping(s, S) = kept[n] BY DEF Keeping, Kept
<1>2. n \in Nat OBVIOUS
<1>3. kept = Kept(kept, s, S, n) BY <1>2, KeptIsDefined
<1> HIDE DEF kept
<1>4. ASSUME Bad # {} PROVE FALSE
  <2>1. Bad \in SUBSET Nat BY <1>2
  <2>2. PICK k \in Bad : \A m \in Bad : k <= m BY <1>4, <2>1, Least
  <2>3. k # 0
    <3>1. kept[0] = Kept(kept, s, S, n)[0] BY <1>3
    <3>2. kept[0] = <<>> BY <1>2, <3>1, KeptAt
    <3>3. <<>> \in Seq(T \cap S) /\ kept[k] \notin Seq(T \cap S) BY <2>2
    <3> QED BY <3>2, <3>3
  <2>4. k - 1 \in 0..n /\ k - 1 \notin Bad /\ k \in 1..n BY <1>2, <2>2, <2>3
  <2>5. kept[k - 1] \in Seq(T \cap S) /\ s[k] \in T BY <2>4
  <2>6. kept[k] = IF s[k] \in S THEN Append(kept[k - 1], s[k]) ELSE kept[k - 1]
    <3>1. kept[k] = Kept(kept, s, S, n)[k] BY <1>3
    <3> QED BY <1>2, <2>4, <3>1, KeptAt
  <2>7. kept[k] \in Seq(T \cap S) BY <2>5, <2>6
  <2> QED BY <2>2, <2>7
<1> QED BY <1>1, <1>2, <1>4

(* What is kept of the rows of an export may be shown.                              *)
LEMMA ParsedType ==
    ASSUME NEW rows \in Inventories
    PROVE  Parsed(rows) \in Contents
<1>1. rows \in Seq(Products) BY CatalogAssumption
<1>2. Keeping(rows, Products \ Filtered) \in Seq(Products \cap (Products \ Filtered))
  BY <1>1, KeepingType
<1>3. Products \cap (Products \ Filtered) = Products \ Filtered OBVIOUS
<1> QED BY <1>2, <1>3 DEF Parsed, Contents

LEMMA NamedType ==
    ASSUME NEW s \in Contents, NEW ids
    PROVE  Keeping(s, ids) \in Contents
<1> DEFINE Shown == Products \ Filtered
<1>1. Keeping(s, ids) \in Seq(Shown \cap ids) BY KeepingType DEF Contents
<1>2. Shown \cap ids \subseteq Shown OBVIOUS
<1> HIDE DEF Shown
<1>3. Seq(Shown \cap ids) \subseteq Seq(Shown) BY <1>2
<1> QED BY <1>1, <1>3 DEF Contents, Shown

-----------------------------------------------------------------------------
(* An entry that is live is a record of its times and its content.                 *)
LEMMA EntryFields ==
    ASSUME NEW ttl \in Nat, NEW entry \in Entries(ttl), Live(entry)
    PROVE  /\ entry \in [left : 0..ttl, content : Contents, age : Nat]
           /\ entry.left \in 0..ttl /\ entry.age \in Nat /\ entry.content \in Contents
<1>1. entry # Stale BY DEF Live, Stale
<1>2. entry \in [left : 0..ttl, content : Contents, age : Nat] BY <1>1 DEF Entries
<1> QED BY <1>2

LEMMA LiveEntry ==
    ASSUME NEW ttl, NEW entry \in Entries(ttl) \ {Stale}
    PROVE  Live(entry)
BY DEF Entries, Live

LEMMA OlderEntry ==
    ASSUME NEW ttl \in Nat, NEW entry \in Entries(ttl), NEW most \in Nat, Bounded(entry, most)
    PROVE  Older(entry) \in Entries(ttl) /\ Bounded(Older(entry), most)
<1>1. CASE Live(entry) /\ entry.left > 0
  <2>1. /\ entry \in [left : 0..ttl, content : Contents, age : Nat]
        /\ entry.left \in 0..ttl /\ entry.age \in Nat
    BY <1>1, EntryFields
  <2>2. Older(entry) = [entry EXCEPT !.left = @ - 1, !.age = @ + 1] BY <1>1 DEF Older
  <2>3. /\ Older(entry) \in [left : 0..ttl, content : Contents, age : Nat]
        /\ Older(entry).left = entry.left - 1 /\ Older(entry).age = entry.age + 1
    <3> DEFINE older == [left |-> entry.left - 1, content |-> entry.content, age |-> entry.age + 1]
    <3>1. Older(entry) = older BY <2>1, <2>2
    <3>2. entry.left - 1 \in 0..ttl /\ entry.age + 1 \in Nat /\ entry.content \in Contents
      BY <1>1, <2>1
    <3> QED BY <3>1, <3>2
  <2>4. entry.age + entry.left <= most BY <1>1 DEF Bounded
  <2>5. Older(entry) \in Entries(ttl) BY <2>3 DEF Entries
  <2>6. Older(entry).age + Older(entry).left <= most BY <2>1, <2>3, <2>4
  <2> QED BY <2>5, <2>6 DEF Bounded
<1>2. CASE ~(Live(entry) /\ entry.left > 0)
  <2>1. Older(entry) = Stale BY <1>2 DEF Older
  <2>2. ~Live(Stale) BY DEF Live, Stale
  <2> QED BY <2>1, <2>2 DEF Entries, Bounded
<1> QED BY <1>1, <1>2

(* A new entry lives its whole time from now.                                    *)
LEMMA NewEntry ==
    ASSUME NEW ttl \in Nat, NEW content \in Contents, NEW age \in Nat, NEW most, age + ttl <= most
    PROVE  LET entry == [left |-> ttl, content |-> content, age |-> age] IN
           entry \in Entries(ttl) /\ Bounded(entry, most) /\ Live(entry)
BY DEF Entries, Bounded, Live

(* The page cache, after a page of a content that is not too old was put into it.     *)
LEMMA PageStored ==
    ASSUME CacheTypes, Ages, NEW r \in Readers, NEW content \in Contents, NEW age \in Nat,
           age <= SnapshotAge, KeepPage(r, content, age)
    PROVE  /\ answers' \in [DOMAIN answers' -> Entries(PageTTL) \ {Stale}]
           /\ \A k \in DOMAIN answers' : Bounded(answers'[k], PageAge)
<1> DEFINE entry == [left |-> PageTTL, content |-> content, age |-> age]
<1>1. PageTTL \in Nat /\ age + PageTTL <= PageAge
  BY CatalogAssumption DEF LoadedAge, SnapshotAge, PageAge
<1>2. entry \in Entries(PageTTL) /\ Bounded(entry, PageAge) BY <1>1, NewEntry
<1>3. entry # Stale BY <1>1, NewEntry DEF Live, Stale
<1>4. \/ answers' = answers
      \/ answers' = [k \in DOMAIN answers \cup {page[r]} |->
                        IF k = page[r] THEN entry ELSE answers[k]]
  BY DEF KeepPage
<1> HIDE DEF entry
<1>5. answers \in [DOMAIN answers -> Entries(PageTTL) \ {Stale}] BY DEF CacheTypes
<1>6. \A k \in DOMAIN answers : Bounded(answers[k], PageAge) BY <1>5 DEF Ages
<1> QED BY <1>2, <1>3, <1>4, <1>5, <1>6

-----------------------------------------------------------------------------
(* The caches, the job and the nap stay as they are, and readers move to places that   *)
(* suit their jobs.                                                           *)
LEMMA OnlyMoved ==
    ASSUME IInv, UNCHANGED <<inventory, job, nap, snapshot, answers, extra>>,
           NEW r \in Readers, NEW to \in Places, at' = [at EXCEPT ![r] = to],
           job[r].state = "pending" => to \in {"polling", "asleep"},
           job[r].state = "done" => at[r] = "asleep" /\ to = "polling",
           to \notin {"asleep", "loading"},
           to = "starting" => ~Live(snapshot)
    PROVE  IInv'
<1> USE DEF IInv
<1>1. /\ at'[r] = to /\ at' \in [Readers -> Places]
      /\ \A q \in Readers \ {r} : at'[q] = at[q]
  BY DEF CacheTypes
<1>2. CacheTypes' BY <1>1 DEF CacheTypes
<1>3. ASSUME NEW q \in Readers PROVE JobAge(q)'
  <2>1. CASE q = r
    <3>1. CASE job[r].state = "done"
      <4>1. at[r] = "asleep" /\ job[r].age + nap[r] <= PollInterval BY <3>1 DEF JobAge, Ages
      <4>2. job[r].age \in Nat /\ nap[r] \in Nat BY <3>1 DEF CacheTypes, Jobs
      <4>3. job[r].age <= PollInterval BY <4>1, <4>2, CatalogAssumption
      <4> QED BY <1>1, <2>1, <3>1, <4>3 DEF JobAge
    <3>2. CASE job[r].state # "done" BY <1>1, <2>1, <3>2 DEF JobAge, Ages
    <3> QED BY <3>1, <3>2
  <2>2. CASE q # r BY <1>1, <2>2 DEF JobAge, Ages
  <2> QED BY <2>1, <2>2
<1>4. Ages' BY <1>3 DEF Ages, LoadedAge, SnapshotAge, PageAge
<1>5. Extras' BY <1>1 DEF Extras
<1> QED BY <1>2, <1>4, <1>5

(* An answer is given from a content that is not too old.                           *)
LEMMA PageKeptIsOK == ASSUME IInv, NEW r \in Readers, PageKept(r) PROVE IInv'
<1>1. /\ UNCHANGED <<inventory, job, nap, snapshot, answers, extra>> /\ at[r] = "asked"
      /\ \E to \in {"between", "idle"} : at' = [at EXCEPT ![r] = to]
  BY DEF PageKept, Answer, caches
<1>2. job[r].state # "pending" /\ job[r].state # "done" BY <1>1 DEF IInv, Ages, JobAge
<1>3. PICK to \in {"between", "idle"} : at' = [at EXCEPT ![r] = to] BY <1>1
<1> QED BY <1>1, <1>2, <1>3, OnlyMoved DEF Places

LEMMA SnapshotKeptIsOK == ASSUME IInv, NEW r \in Readers, SnapshotKept(r) PROVE IInv'
<1>1. /\ UNCHANGED <<inventory, job, nap, snapshot, extra>> /\ at[r] = "looking"
      /\ \E to \in {"between", "idle"} : at' = [at EXCEPT ![r] = to]
      /\ Live(snapshot) /\ KeepPage(r, snapshot.content, snapshot.age)
  BY DEF SnapshotKept, SnapshotUsable, Answer
<1>2. job[r].state # "pending" /\ job[r].state # "done" BY <1>1 DEF IInv, Ages, JobAge
<1>3. PICK to \in {"between", "idle"} : at' = [at EXCEPT ![r] = to] BY <1>1
<1>4. /\ snapshot.left \in 0..ExportTTL /\ snapshot.age \in Nat
      /\ snapshot.content \in Contents
  BY <1>1, CatalogAssumption, EntryFields DEF IInv, CacheTypes
<1>5. snapshot.age <= SnapshotAge
  <2>1. snapshot.age + snapshot.left <= SnapshotAge BY <1>1 DEF IInv, Ages, Bounded
  <2> QED BY <1>4, <2>1, CatalogAssumption DEF LoadedAge, SnapshotAge
<1>6. /\ answers' \in [DOMAIN answers' -> Entries(PageTTL) \ {Stale}]
      /\ \A k \in DOMAIN answers' : Bounded(answers'[k], PageAge)
  BY <1>1, <1>4, <1>5, PageStored DEF IInv
<1>7. /\ at' \in [Readers -> Places] /\ at'[r] = to
      /\ \A q \in Readers \ {r} : at'[q] = at[q]
  BY <1>3 DEF IInv, CacheTypes, Places
<1>8. CacheTypes' BY <1>1, <1>6, <1>7 DEF IInv, CacheTypes
<1>9. ASSUME NEW q \in Readers PROVE JobAge(q)'
  <2>1. CASE q = r BY <1>1, <1>2, <2>1 DEF JobAge
  <2>2. CASE q # r BY <1>1, <1>7, <2>2 DEF IInv, Ages, JobAge
  <2> QED BY <2>1, <2>2
<1>10. Bounded(snapshot', SnapshotAge) BY <1>1 DEF IInv, Ages
<1>11. Ages' BY <1>6, <1>9, <1>10 DEF Ages, LoadedAge, SnapshotAge, PageAge
<1>12. Extras' BY <1>1, <1>3, <1>7 DEF IInv, Extras
<1> QED BY <1>8, <1>11, <1>12 DEF IInv

(* A reader whose job changes, and that may have started one too many.               *)
LEMMA JobChanged ==
    ASSUME IInv, UNCHANGED <<inventory, nap, snapshot, answers>>, NEW r \in Readers,
           NEW to \in Places, at' = [at EXCEPT ![r] = to],
           NEW j \in Jobs, job' = [job EXCEPT ![r] = j],
           j.state = "pending" => to \in {"polling", "asleep"},
           j.state = "done" => to \in {"polling", "asleep"} /\ j.age = 0,
           to \notin {"starting", "loading"}, to = "asleep" => at[r] = "asleep",
           \/ extra' = extra
           \/ at[r] = "starting" /\ Live(snapshot) /\ extra' = [extra EXCEPT ![r] = @ + 1]
    PROVE  IInv'
<1> USE DEF IInv
<1>1. /\ at'[r] = to /\ at' \in [Readers -> Places]
      /\ job'[r] = j /\ job' \in [Readers -> Jobs]
      /\ \A q \in Readers \ {r} : at'[q] = at[q] /\ job'[q] = job[q]
  BY DEF CacheTypes
<1>2. extra' \in [Readers -> {0, 1}]
  <2>1. CASE at[r] = "starting" /\ Live(snapshot) /\ extra' = [extra EXCEPT ![r] = @ + 1]
    <3>1. extra[r] = 0 BY <2>1 DEF Extras, CacheTypes
    <3> QED BY <2>1, <3>1 DEF CacheTypes
  <2> QED BY <2>1 DEF CacheTypes
<1>3. CacheTypes' BY <1>1, <1>2 DEF CacheTypes
<1>4. ASSUME NEW q \in Readers PROVE JobAge(q)'
  <2>1. CASE q = r
    <3>1. to = "asleep" => nap'[r] \in Nat /\ nap'[r] <= PollInterval
      BY DEF CacheTypes, Ages, JobAge
    <3>2. j.state = "done" =>
            j.age <= PollInterval /\ (to = "asleep" => j.age + nap'[r] <= PollInterval)
      BY <3>1, CatalogAssumption
    <3> QED BY <1>1, <2>1, <3>1, <3>2 DEF JobAge
  <2>2. CASE q # r BY <1>1, <2>2 DEF JobAge, Ages
  <2> QED BY <2>1, <2>2
<1>5. Ages' BY <1>4 DEF Ages, LoadedAge, SnapshotAge, PageAge
<1>6. Extras' BY <1>1 DEF Extras, CacheTypes
<1> QED BY <1>3, <1>5, <1>6

LEMMA StartExportIsOK == ASSUME IInv, NEW r \in Readers, StartExport(r) PROVE IInv'
<1>1. /\ UNCHANGED <<inventory, nap, snapshot, answers>> /\ at[r] = "starting"
      /\ at' = [at EXCEPT ![r] = "polling"] /\ job' = [job EXCEPT ![r] = [state |-> "pending"]]
      /\ extra' = IF Live(snapshot) THEN [extra EXCEPT ![r] = @ + 1] ELSE extra
  BY DEF StartExport, caches
<1>2. [state |-> "pending"] \in Jobs /\ "polling" \in Places BY DEF Jobs, Places
<1> QED BY <1>1, <1>2, JobChanged

LEMMA ExportRunsIsOK == ASSUME IInv, NEW r \in Readers, ExportRuns(r) PROVE IInv'
<1> DEFINE done == [state |-> "done", rows |-> inventory, age |-> 0]
<1>1. /\ UNCHANGED <<inventory, at, nap, snapshot, answers, extra>>
      /\ job[r].state = "pending"
      /\ \E outcome \in {done, [state |-> "failed"]} : job' = [job EXCEPT ![r] = outcome]
  BY DEF ExportRuns, caches, history
<1>2. PICK outcome \in {done, [state |-> "failed"]} : job' = [job EXCEPT ![r] = outcome]
  BY <1>1
<1>3. at[r] \in {"polling", "asleep"} BY <1>1 DEF IInv, Ages, JobAge
<1>4. done \in Jobs
  <2>1. inventory \in Inventories BY DEF IInv, CacheTypes
  <2>2. 0 \in Nat OBVIOUS
  <2> QED BY <2>1, <2>2 DEF Jobs
<1>5. [state |-> "failed"] \in Jobs BY DEF Jobs
<1>6. outcome \in Jobs /\ outcome.state # "pending" BY <1>4, <1>5
<1>7. outcome.state = "done" => outcome.age = 0 OBVIOUS
<1>8. at' = [at EXCEPT ![r] = at[r]] BY <1>1 DEF IInv, CacheTypes
<1>9. at[r] \in Places BY DEF IInv, CacheTypes
<1> HIDE DEF done
<1> QED BY <1>1, <1>2, <1>3, <1>6, <1>7, <1>8, <1>9, JobChanged

LEMMA GiveUpIsOK == ASSUME IInv, NEW r \in Readers, GiveUp(r) PROVE IInv'
<1>1. /\ UNCHANGED <<inventory, nap, snapshot, answers, extra>>
      /\ at' = [at EXCEPT ![r] = "idle"] /\ job' = [job EXCEPT ![r] = NoJob]
  BY DEF GiveUp, caches
<1>2. NoJob \in Jobs /\ NoJob.state = "none" /\ "idle" \in Places BY DEF Jobs, NoJob, Places
<1> QED BY <1>1, <1>2, JobChanged

(* A nap begins: the job was not done when it was looked at.                        *)
LEMMA PollAgainIsOK == ASSUME IInv, NEW r \in Readers, PollAgain(r) PROVE IInv'
<1> USE DEF IInv
<1>1. /\ UNCHANGED <<inventory, job, snapshot, answers, extra>> /\ job[r].state = "pending"
      /\ at' = [at EXCEPT ![r] = "asleep"] /\ nap' = [nap EXCEPT ![r] = PollInterval]
  BY DEF PollAgain, caches, history
<1>2. /\ at'[r] = "asleep" /\ at' \in [Readers -> Places]
      /\ nap' \in [Readers -> Nat] /\ nap'[r] = PollInterval /\ PollInterval \in Nat
      /\ \A q \in Readers \ {r} : at'[q] = at[q] /\ nap'[q] = nap[q]
  BY <1>1, CatalogAssumption DEF CacheTypes, Places
<1>3. CacheTypes' BY <1>1, <1>2 DEF CacheTypes
<1>4. ASSUME NEW q \in Readers PROVE JobAge(q)'
  <2>1. CASE q = r BY <1>1, <1>2, <2>1 DEF JobAge
  <2>2. CASE q # r BY <1>1, <1>2, <2>2 DEF JobAge, Ages
  <2> QED BY <2>1, <2>2
<1>5. Ages' BY <1>1, <1>4 DEF Ages, LoadedAge, SnapshotAge, PageAge
<1>6. Extras' BY <1>1, <1>2 DEF Extras
<1> QED BY <1>3, <1>5, <1>6

(* The job is found done within an interval, and its download begins.              *)
LEMMA PollDoneIsOK == ASSUME IInv, NEW r \in Readers, PollDone(r) PROVE IInv'
<1> USE DEF IInv
<1>1. /\ UNCHANGED <<inventory, job, snapshot, answers, extra>>
      /\ at[r] = "polling" /\ job[r].state = "done"
      /\ at' = [at EXCEPT ![r] = "loading"]
  BY DEF PollDone, caches, history
<1>2. PICK takes \in 0..DownloadTime : nap' = [nap EXCEPT ![r] = takes] BY DEF PollDone
<1>3. /\ at'[r] = "loading" /\ at' \in [Readers -> Places]
      /\ nap' \in [Readers -> Nat] /\ nap'[r] = takes
      /\ \A q \in Readers \ {r} : at'[q] = at[q] /\ nap'[q] = nap[q]
  BY <1>1, <1>2, CatalogAssumption DEF CacheTypes, Places
<1>4. CacheTypes' BY <1>1, <1>3 DEF CacheTypes
<1>5. ASSUME NEW q \in Readers PROVE JobAge(q)'
  <2>1. CASE q = r
    <3>1. job[r].age \in Nat /\ job[r].age <= PollInterval
      BY <1>1 DEF CacheTypes, Jobs, Ages, JobAge
    <3>2. job[r].age + takes <= LoadedAge BY <3>1, CatalogAssumption DEF LoadedAge
    <3> QED BY <1>1, <1>3, <2>1, <3>2 DEF JobAge
  <2>2. CASE q # r BY <1>1, <1>3, <2>2 DEF JobAge, Ages
  <2> QED BY <2>1, <2>2
<1>6. Ages' BY <1>1, <1>5 DEF Ages, LoadedAge, SnapshotAge, PageAge
<1>7. Extras' BY <1>1, <1>3 DEF Extras
<1> QED BY <1>4, <1>6, <1>7

(* The download: its export is not older than an interval and the time it took, and     *)
(* becomes the snapshot.                                                       *)
LEMMA DownloadIsOK == ASSUME IInv, NEW r \in Readers, Download(r) PROVE IInv'
<1> USE DEF IInv
<1> DEFINE content == Parsed(job[r].rows)
           age == job[r].age
<1>1. /\ UNCHANGED <<inventory, nap, extra>> /\ at[r] = "loading"
      /\ snapshot' = [left |-> ExportTTL, content |-> content, age |-> age]
      /\ KeepPage(r, content, age)
      /\ job' = [job EXCEPT ![r] = NoJob]
      /\ \E to \in {"between", "idle"} : at' = [at EXCEPT ![r] = to]
  BY DEF Download, Answer
<1>2. PICK to \in {"between", "idle"} : at' = [at EXCEPT ![r] = to] BY <1>1
<1>3. job[r].state = "done" /\ age + nap[r] <= LoadedAge BY <1>1 DEF Ages, JobAge
<1>4. job[r] \in [state : {"done"}, rows : Inventories, age : Nat]
  <2>1. job[r] \in Jobs BY DEF CacheTypes
  <2> QED BY <1>3, <2>1 DEF Jobs
<1>5. content \in Contents /\ age \in Nat /\ nap[r] \in Nat
  BY <1>4, ParsedType DEF CacheTypes
<1>6. age + ExportTTL <= SnapshotAge /\ age <= SnapshotAge /\ ExportTTL \in Nat
  BY <1>3, <1>5, CatalogAssumption DEF LoadedAge, SnapshotAge
<1> HIDE DEF content, age
<1>7. snapshot' \in Entries(ExportTTL) /\ Bounded(snapshot', SnapshotAge) /\ Live(snapshot')
  BY <1>1, <1>5, <1>6, NewEntry
<1>8. /\ answers' \in [DOMAIN answers' -> Entries(PageTTL) \ {Stale}]
      /\ \A k \in DOMAIN answers' : Bounded(answers'[k], PageAge)
  BY <1>1, <1>5, <1>6, PageStored
<1>9. NoJob \in Jobs /\ NoJob.state = "none" BY DEF NoJob, Jobs
<1>10. /\ at' \in [Readers -> Places] /\ at'[r] = to
       /\ job' \in [Readers -> Jobs] /\ job'[r] = NoJob
       /\ \A q \in Readers \ {r} : at'[q] = at[q] /\ job'[q] = job[q]
  BY <1>1, <1>2, <1>9 DEF CacheTypes, Places
<1>11. CacheTypes' BY <1>1, <1>7, <1>8, <1>10 DEF CacheTypes
<1>12. ASSUME NEW q \in Readers PROVE JobAge(q)'
  <2>1. CASE q = r BY <1>9, <1>10, <2>1 DEF JobAge
  <2>2. CASE q # r BY <1>1, <1>10, <2>2 DEF JobAge, Ages
  <2> QED BY <2>1, <2>2
<1>13. Ages' BY <1>7, <1>8, <1>12 DEF Ages, LoadedAge, SnapshotAge, PageAge
<1>14. Extras'
  <2>1. CASE Live(snapshot) BY <1>1, <1>7, <1>10, <2>1 DEF Extras
  <2>2. CASE ~Live(snapshot) BY <1>1, <1>7, <2>2 DEF Extras
  <2> QED BY <2>1, <2>2
<1> QED BY <1>11, <1>13, <1>14

(* Time passes: what ages has so much less to live, or to sleep.                    *)
LEMMA TickIsOK == ASSUME IInv, Tick PROVE IInv'
<1> USE DEF IInv
<1>1. /\ \A r \in Readers : Resting(r)
      /\ UNCHANGED <<inventory, at>> /\ snapshot' = Older(snapshot)
      /\ answers' = [k \in {j \in DOMAIN answers : answers[j].left > 0} |->
                        Older(answers[k])]
      /\ job' = [r \in Readers |-> IF job[r].state = "done"
                                  THEN [job[r] EXCEPT !.age = @ + 1] ELSE job[r]]
      /\ nap' = [r \in Readers |-> Less(nap[r])]
      /\ extra' = IF Live(snapshot') THEN extra ELSE [r \in Readers |-> 0]
  BY DEF Tick
<1>2. ExportTTL \in Nat /\ PageTTL \in Nat /\ SnapshotAge \in Nat /\ PageAge \in Nat
      /\ PollInterval \in Nat /\ LoadedAge \in Nat
  BY CatalogAssumption DEF LoadedAge, SnapshotAge, PageAge
<1>3. snapshot' \in Entries(ExportTTL) /\ Bounded(snapshot', SnapshotAge)
  BY <1>1, <1>2, OlderEntry DEF CacheTypes, Ages
<1>4. /\ answers' \in [DOMAIN answers' -> Entries(PageTTL) \ {Stale}]
      /\ \A k \in DOMAIN answers' : Bounded(answers'[k], PageAge)
  <2>1. ASSUME NEW k \in DOMAIN answers, answers[k].left > 0
        PROVE  /\ Older(answers[k]) \in Entries(PageTTL) \ {Stale}
               /\ Bounded(Older(answers[k]), PageAge)
    <3>1. answers[k] \in Entries(PageTTL) /\ Bounded(answers[k], PageAge)
      BY DEF CacheTypes, Ages
    <3>2. Live(answers[k]) BY <2>1, <3>1, LiveEntry DEF CacheTypes
    <3>3. answers[k] \in [left : 0..PageTTL, content : Contents, age : Nat]
      BY <1>2, <3>1, <3>2, EntryFields
    <3>4. Older(answers[k]).left = answers[k].left - 1
      BY <2>1, <3>2, <3>3 DEF Older
    <3>5. Older(answers[k]) # Stale BY <2>1, <3>3, <3>4 DEF Stale
    <3> QED BY <1>2, <3>1, <3>5, OlderEntry
  <2> QED BY <1>1, <2>1
<1>5. ASSUME NEW r \in Readers
      PROVE  job'[r] \in Jobs /\ nap'[r] \in Nat /\ JobAge(r)'
  <2>1. /\ job[r] \in Jobs /\ nap[r] \in Nat /\ nap'[r] = Less(nap[r])
        /\ job'[r] = IF job[r].state = "done" THEN [job[r] EXCEPT !.age = @ + 1] ELSE job[r]
    BY <1>1 DEF CacheTypes
  <2>2. nap'[r] \in Nat /\ nap'[r] <= nap[r] BY <1>2, <2>1 DEF Less
  <2>3. CASE job[r].state = "done"
    <3>1. job[r] \in [state : {"done"}, rows : Inventories, age : Nat]
      BY <2>1, <2>3 DEF Jobs
    <3>2. /\ job'[r] \in [state : {"done"}, rows : Inventories, age : Nat]
          /\ job'[r].age = job[r].age + 1
      BY <2>1, <2>3, <3>1
    <3>3. at[r] \in {"asleep", "loading"} /\ nap[r] > 0
      BY <1>1, <2>3 DEF Ages, JobAge, Resting
    <3>4. nap'[r] = nap[r] - 1 BY <2>1, <3>3 DEF Less
    <3>5. job'[r].age + nap'[r] = job[r].age + nap[r] BY <2>1, <3>1, <3>2, <3>4
    <3>6. job'[r] \in Jobs /\ job'[r].state = "done" BY <3>2 DEF Jobs
    <3>7. at[r] = "asleep" => nap'[r] <= PollInterval
      BY <1>2, <2>1, <2>2 DEF Ages, JobAge
    <3> QED BY <1>1, <2>2, <2>3, <3>3, <3>5, <3>6, <3>7 DEF Ages, JobAge
  <2>4. CASE job[r].state # "done"
    <3>1. job'[r] = job[r] BY <2>1, <2>4
    <3>2. at[r] = "asleep" => nap'[r] <= PollInterval
      BY <1>2, <2>1, <2>2 DEF Ages, JobAge
    <3> QED BY <1>1, <2>1, <2>2, <2>4, <3>1, <3>2 DEF Ages, JobAge
  <2> QED BY <2>3, <2>4
<1>6. job' \in [Readers -> Jobs] /\ nap' \in [Readers -> Nat]
  BY <1>1, <1>5
<1>7. extra' \in [Readers -> {0, 1}] BY <1>1 DEF CacheTypes
<1>8. CacheTypes' BY <1>1, <1>3, <1>4, <1>6, <1>7 DEF CacheTypes
<1>9. Ages' BY <1>3, <1>4, <1>5 DEF Ages, LoadedAge, SnapshotAge, PageAge
<1>10. Extras'
  <2>1. CASE Live(snapshot')
    <3>1. Live(snapshot)
      <4>1. ~Live(Stale) BY DEF Live, Stale
      <4> QED BY <1>1, <2>1, <4>1 DEF Older
    <3> QED BY <1>1, <2>1, <3>1 DEF Extras
  <2>2. CASE ~Live(snapshot') BY <1>1, <2>2 DEF Extras
  <2> QED BY <2>1, <2>2
<1> QED BY <1>8, <1>9, <1>10

-----------------------------------------------------------------------------
LEMMA Initially == Init => IInv
<1> SUFFICES ASSUME Init PROVE IInv OBVIOUS
<1> USE DEF Init
<1>1. NoJob \in Jobs /\ NoJob.state = "none" BY DEF NoJob, Jobs
<1>2. ~Live(Stale) /\ \A ttl : Stale \in Entries(ttl) BY DEF Live, Stale, Entries
<1>3. /\ inventory \in Inventories
      /\ at \in [Readers -> Places] /\ job \in [Readers -> Jobs]
  BY <1>1 DEF Places
<1>4. nap \in [Readers -> Nat] /\ extra \in [Readers -> {0, 1}]
  BY CatalogAssumption
<1>5. /\ snapshot \in Entries(ExportTTL)
      /\ answers \in [DOMAIN answers -> Entries(PageTTL) \ {Stale}]
  BY <1>2
<1>6. CacheTypes BY <1>3, <1>4, <1>5 DEF CacheTypes
<1>7. Ages BY <1>1, <1>2 DEF Ages, Bounded, JobAge
<1>8. Extras BY <1>2 DEF Extras
<1> QED BY <1>6, <1>7, <1>8 DEF IInv

LEMMA Inductively == IInv /\ [Next]_vars => IInv'
<1> SUFFICES ASSUME IInv, [Next]_vars PROVE IInv' OBVIOUS
<1>1. ASSUME UNCHANGED <<at, job, nap, snapshot, answers, extra>>, inventory' \in Inventories
      PROVE  IInv'
  <2>1. CacheTypes' BY <1>1 DEF IInv, CacheTypes
  <2>2. \A r \in Readers : JobAge(r)' BY <1>1 DEF IInv, Ages, JobAge
  <2>3. Ages' BY <1>1, <2>2 DEF IInv, Ages, LoadedAge, SnapshotAge, PageAge
  <2>4. Extras' BY <1>1 DEF IInv, Extras
  <2> QED BY <2>1, <2>3, <2>4 DEF IInv
<1>2. CASE UNCHANGED vars BY <1>1, <1>2 DEF vars, readers, caches, history, IInv, CacheTypes
<1>3. CASE Change BY <1>1, <1>3 DEF Change, readers, caches, history
<1>4. CASE Tick BY <1>4, TickIsOK
<1>5. ASSUME NEW r \in Readers, NEW to \in Places, at' = [at EXCEPT ![r] = to],
             UNCHANGED <<inventory, job, nap, snapshot, answers, extra>>,
             \/ at[r] \in {"idle", "between", "asked"} /\ to \in {"asked", "looking"}
             \/ at[r] = "looking" /\ to = "starting" /\ ~Live(snapshot)
             \/ at[r] = "asleep" /\ to = "polling"
      PROVE  IInv'
  <2>1. JobAge(r) BY DEF IInv, Ages
  <2>2. job[r].state = "pending" => to \in {"polling", "asleep"} BY <1>5, <2>1 DEF JobAge
  <2>3. job[r].state = "done" => at[r] = "asleep" /\ to = "polling" BY <1>5, <2>1 DEF JobAge
  <2>4. to \notin {"asleep", "loading"} /\ (to = "starting" => ~Live(snapshot)) BY <1>5
  <2> QED BY <1>5, <2>2, <2>3, <2>4, OnlyMoved
<1>6. {"asked", "looking", "starting", "polling"} \subseteq Places BY DEF Places
<1>7. ASSUME NEW r \in Readers, NEW ids \in Selections, BeginScan(r, ids) PROVE IInv'
  BY <1>5, <1>6, <1>7 DEF BeginScan, caches
<1>8. ASSUME NEW r \in Readers, NextPage(r) PROVE IInv'
  BY <1>5, <1>6, <1>8 DEF NextPage, caches, history
<1>9. ASSUME NEW r \in Readers, Serve(r) PROVE IInv'
  <2>1. CASE PageKept(r) BY <2>1, PageKeptIsOK
  <2>2. CASE PageMissing(r) BY <1>5, <1>6, <2>2 DEF PageMissing, caches, history
  <2>3. CASE SnapshotKept(r) BY <2>3, SnapshotKeptIsOK
  <2>4. CASE SnapshotMissing(r)
    BY <1>5, <1>6, <2>4 DEF SnapshotMissing, SnapshotUsable, caches, history
  <2>5. CASE StartExport(r) BY <2>5, StartExportIsOK
  <2>6. CASE PollDone(r) BY <2>6, PollDoneIsOK
  <2>7. CASE PollAgain(r) BY <2>7, PollAgainIsOK
  <2>8. CASE WakeUp(r) BY <1>5, <1>6, <2>8 DEF WakeUp, caches, history
  <2>9. CASE Download(r) BY <2>9, DownloadIsOK
  <2>10. CASE CallFails(r) \/ ExportFailed(r) \/ TimedOut(r)
    BY <2>10, GiveUpIsOK DEF CallFails, ExportFailed, TimedOut
  <2> QED BY <1>9, <2>1, <2>2, <2>3, <2>4, <2>5, <2>6, <2>7, <2>8, <2>9, <2>10 DEF Serve
<1>10. ASSUME NEW r \in Readers, ExportRuns(r) PROVE IInv' BY <1>10, ExportRunsIsOK
<1> QED BY <1>2, <1>3, <1>4, <1>7, <1>8, <1>9, <1>10 DEF Next

LEMMA Always == Spec => []IInv
BY Initially, Inductively, PTL DEF Spec

(* Nothing is served that is older than a pause between two polls, a download and the   *)
(* times to live of what it went through.                                       *)
THEOREM NothingStaleServed == Spec => []Fresh
<1>1. IInv => Fresh
  <2> SUFFICES ASSUME IInv PROVE Fresh OBVIOUS
  <2>1. ASSUME NEW k \in DOMAIN answers
        PROVE  answers[k].age <= PollInterval + DownloadTime + ExportTTL + PageTTL
    <3>1. answers[k] \in Entries(PageTTL) \ {Stale} BY DEF IInv, CacheTypes
    <3>2. Live(answers[k]) BY <3>1, LiveEntry
    <3>3. answers[k].left \in 0..PageTTL /\ answers[k].age \in Nat
      BY <3>1, <3>2, CatalogAssumption, EntryFields
    <3>4. answers[k].age + answers[k].left <= PageAge BY <3>2 DEF IInv, Ages, Bounded
    <3> QED BY <3>3, <3>4, CatalogAssumption DEF LoadedAge, PageAge
  <2>2. Live(snapshot) => snapshot.age <= PollInterval + DownloadTime + ExportTTL
    <3>1. ASSUME Live(snapshot) PROVE snapshot.age <= PollInterval + DownloadTime + ExportTTL
      <4>1. snapshot.left \in 0..ExportTTL /\ snapshot.age \in Nat
        BY <3>1, CatalogAssumption, EntryFields DEF IInv, CacheTypes
      <4>2. snapshot.age + snapshot.left <= SnapshotAge BY <3>1 DEF IInv, Ages, Bounded
      <4> QED BY <4>1, <4>2, CatalogAssumption DEF LoadedAge, SnapshotAge
    <3> QED BY <3>1
  <2> QED BY <2>1, <2>2 DEF Fresh
<1> QED BY <1>1, Always, PTL

(* Readers that miss the snapshot together start an export each, and no more.            *)
THEOREM ExportsEnd == Spec => []OneExtraExportEach
<1>1. IInv => OneExtraExportEach BY DEF IInv, CacheTypes, OneExtraExportEach
<1> QED BY <1>1, Always, PTL
-----------------------------------------------------------------------------
(* The arithmetic of pages.                                                    *)
LEMMA RowsBefore ==
    ASSUME NEW k \in Nat \ {0}
    PROVE  /\ (k - 1) * PerPage \in Nat /\ k * PerPage \in Nat
           /\ k * PerPage = (k - 1) * PerPage + PerPage
           /\ (k + 1) * PerPage = k * PerPage + PerPage
BY CatalogAssumption

LEMMA MorePagesMoreRows ==
    ASSUME NEW j \in Nat, NEW k \in Nat
    PROVE  j < k <=> j * PerPage < k * PerPage
<1>1. PerPage \in Nat \ {0} BY CatalogAssumption
<1>2. ASSUME NEW a \in Nat, NEW b \in Nat, a < b PROVE a * PerPage < b * PerPage
  <2>1. PICK d \in Nat : b = a + d + 1
    <3>1. b - a - 1 \in Nat /\ b = a + (b - a - 1) + 1 BY <1>2
    <3> QED BY <3>1
  <2>2. b * PerPage = a * PerPage + d * PerPage + PerPage BY <1>1, <2>1
  <2>3. d * PerPage \in Nat /\ a * PerPage \in Nat BY <1>1
  <2> QED BY <1>1, <2>2, <2>3
<1>3. j < k => j * PerPage < k * PerPage BY <1>2
<1>4. k < j => k * PerPage < j * PerPage BY <1>2
<1>5. j = k => j * PerPage = k * PerPage OBVIOUS
<1>6. j * PerPage \in Nat /\ k * PerPage \in Nat BY <1>1
<1> QED BY <1>3, <1>4, <1>5, <1>6

(* A page is not the last one if and only if there are rows behind it.                 *)
LEMMA NotTheLastPage ==
    ASSUME NEW n \in Nat, NEW k \in Nat \ {0}
    PROVE  k < PagesOf(n) <=> k * PerPage < n
<1>1. PerPage \in Nat \ {0} BY CatalogAssumption
<1>2. k * PerPage \in Nat BY <1>1
<1>3. CASE n = 0 BY <1>2, <1>3 DEF PagesOf
<1>4. CASE n # 0
  <2> DEFINE m == n + PerPage - 1
             q == m \div PerPage
  <2>1. m \in Nat BY <1>1, <1>4
  <2>2. q \in Nat /\ PerPage * q <= m /\ m < PerPage * (q + 1) BY <1>1, <2>1
  <2> HIDE DEF q
  <2>3. q * PerPage \in Nat /\ (q + 1) * PerPage \in Nat /\ (k + 1) * PerPage \in Nat
        /\ q * PerPage <= m /\ m < (q + 1) * PerPage
    BY <1>1, <2>2
  <2>4. (k + 1) * PerPage = k * PerPage + PerPage BY RowsBefore
  <2>5. ASSUME k < q PROVE k * PerPage < n
    <3>1. k + 1 < q + 1 /\ k + 1 \in Nat /\ q + 1 \in Nat BY <2>2, <2>5
    <3>2. ~(q * PerPage < (k + 1) * PerPage) BY <2>2, <2>5, <3>1, MorePagesMoreRows
    <3> QED BY <1>1, <1>2, <2>3, <2>4, <3>2
  <2>6. ASSUME k * PerPage < n PROVE k < q
    <3>1. (k + 1) * PerPage < (q + 1) * PerPage BY <1>1, <1>2, <2>3, <2>4, <2>6
    <3>2. k + 1 < q + 1 BY <2>2, <3>1, MorePagesMoreRows
    <3> QED BY <2>2, <3>2
  <2> QED BY <1>4, <2>5, <2>6 DEF PagesOf, q
<1> QED BY <1>3, <1>4

(* A page is a sequence of products.                                            *)
LEMMA SliceType ==
    ASSUME NEW s \in Contents, NEW k \in Nat \ {0}
    PROVE  Slice(s, k) \in Contents
<1> USE DEF Contents
<1> DEFINE first == (k - 1) * PerPage + 1
           last == IF k * PerPage < Len(s) THEN k * PerPage ELSE Len(s)
<1>1. first \in Nat \ {0} /\ last \in Nat /\ last <= Len(s)
  <2>1. (k - 1) * PerPage \in Nat /\ k * PerPage \in Nat BY RowsBefore
  <2> HIDE DEF first
  <2>2. Len(s) \in Nat /\ last \in Nat /\ last <= Len(s) BY <2>1
  <2>3. first \in Nat \ {0} BY <2>1 DEF first
  <2> QED BY <2>2, <2>3
<1> HIDE DEF first, last
<1>2. \A i \in first..last : s[i] \in Products \ Filtered BY <1>1
<1>3. SubSeq(s, first, last) \in Contents BY <1>1, <1>2, SubSeqProperties
<1> QED BY <1>3 DEF Slice, first, last

(* The rows before a page and those on it are the rows before the next one.           *)
LEMMA OnePageMore ==
    ASSUME NEW s \in Contents, NEW k \in Nat \ {0}, (k - 1) * PerPage < Len(s) \/ k = 1
    PROVE  SubSeq(s, 1, (k - 1) * PerPage) \o Slice(s, k) =
               IF k * PerPage < Len(s) THEN SubSeq(s, 1, k * PerPage) ELSE s
<1> USE DEF Contents
<1> DEFINE before == (k - 1) * PerPage
           last == IF k * PerPage < Len(s) THEN k * PerPage ELSE Len(s)
<1>1. /\ before \in Nat /\ k * PerPage = before + PerPage /\ k * PerPage \in Nat
      /\ PerPage \in Nat /\ Len(s) \in Nat
  BY RowsBefore, CatalogAssumption
<1>2. before <= last /\ last <= Len(s) /\ last \in Nat
  <2>1. CASE k = 1
    <3>1. before = 0 BY <2>1, CatalogAssumption
    <3> QED BY <1>1, <3>1
  <2>2. CASE before < Len(s) BY <1>1, <2>2
  <2> QED BY <2>1, <2>2
<1>3. Slice(s, k) = SubSeq(s, before + 1, last) BY DEF Slice
<1>4. SubSeq(s, 1, Len(s)) = s BY SubSeqFull
<1> HIDE DEF before, last
<1>5. SubSeq(s, 1, before) \o SubSeq(s, before + 1, last) = SubSeq(s, 1, last)
  <2>1. 1 \in 1..Len(s) + 1 /\ before \in (1 - 1)..Len(s) /\ last \in before..Len(s)
    BY <1>1, <1>2
  <2> QED BY <2>1, ConcatAdjacentSubSeq
<1> QED BY <1>3, <1>4, <1>5 DEF before, last

-----------------------------------------------------------------------------
ReaderTypes ==
    /\ page \in [Readers -> Nat \ {0}]
    /\ named \in [Readers -> {{}} \cup Selections]
    /\ left \in [Readers -> 0..Timeout]
    /\ scan \in [Readers -> Scans]
    /\ DOMAIN answers \subseteq Nat \ {0}

(* A scan for everything that has seen one content has the rows before the page it     *)
(* asks for, and there are rows behind them, until it has all.                       *)
ScanSoFar(r) ==
    /\ scan[r] = NoScan => page[r] = 1
    /\ scan[r].from = "one" /\ named[r] = {} =>
         \/ at[r] = "idle" /\ scan[r].got = scan[r].content
         \/ /\ at[r] # "idle" /\ page[r] > 1
            /\ (page[r] - 1) * PerPage < Len(scan[r].content)
            /\ scan[r].got = SubSeq(scan[r].content, 1, (page[r] - 1) * PerPage)

Scanning == ReaderTypes /\ \A r \in Readers : ScanSoFar(r)

LEMMA OneScan ==
    ASSUME NEW s \in Scans, s.from = "one"
    PROVE  s \in [from : {"one"}, content : Contents, got : Contents]
BY DEF Scans, NoScan, Mixed

(* The answer for a page is a sequence of products, and says if there are more.        *)
LEMMA AnswerType ==
    ASSUME NEW content \in Contents, NEW k \in Nat \ {0}, NEW ids
    PROVE  /\ Named(Cut(content, k), k, ids).ids \in Contents
           /\ ids = {} =>
                /\ Named(Cut(content, k), k, ids).ids = Slice(content, k)
                /\ k < Named(Cut(content, k), k, ids).pages <=> k * PerPage < Len(content)
<1>1. Len(content) \in Nat BY DEF Contents
<1>2. Slice(content, k) \in Contents BY SliceType
<1>3. Slice(Keeping(Slice(content, k), ids), k) \in Contents
  BY <1>2, NamedType, SliceType
<1>4. k < PagesOf(Len(content)) <=> k * PerPage < Len(content)
  BY <1>1, NotTheLastPage
<1> QED BY <1>2, <1>3, <1>4 DEF Named, Cut

(* A scan with one page more: what a reader that asks for everything then has.         *)
LEMMA LongerScan ==
    ASSUME CacheTypes, Scanning, NEW r \in Readers, at[r] # "idle",
           NEW content \in Contents, NEW ids \in Contents
    PROVE  LET longer == Longer(scan[r], content, ids)
           IN  /\ longer \in Scans /\ longer # NoScan
               /\ longer.from = "one" /\ named[r] = {} /\ ids = Slice(content, page[r]) =>
                    /\ longer.content = content
                    /\ longer.got = IF page[r] * PerPage < Len(content)
                                    THEN SubSeq(content, 1, page[r] * PerPage) ELSE content
<1> DEFINE k == page[r]
           longer == Longer(scan[r], content, ids)
<1>1. k \in Nat \ {0} /\ scan[r] \in Scans BY DEF Scanning, ReaderTypes
<1>2. ScanSoFar(r) BY DEF Scanning
<1>3. CASE scan[r] = NoScan
  <2>1. longer = [from |-> "one", content |-> content, got |-> ids]
    BY <1>3 DEF Longer, NoScan
  <2>2. k = 1 BY <1>2, <1>3 DEF ScanSoFar
  <2>3. ASSUME ids = Slice(content, 1)
        PROVE  ids = IF 1 * PerPage < Len(content) THEN SubSeq(content, 1, 1 * PerPage)
                     ELSE content
    <3>1. SubSeq(content, 1, (1 - 1) * PerPage) = <<>>
      <4>1. (1 - 1) * PerPage = 0 BY CatalogAssumption
      <4> QED BY <4>1, SubSeqEmpty
    <3>2. SubSeq(content, 1, (1 - 1) * PerPage) \o Slice(content, 1) =
            IF 1 * PerPage < Len(content) THEN SubSeq(content, 1, 1 * PerPage) ELSE content
      <4>1. 1 \in Nat \ {0} OBVIOUS
      <4> QED BY <1>1, <4>1, OnePageMore
    <3>3. <<>> \o ids = ids BY ConcatEmptySeq
    <3> QED BY <2>3, <3>1, <3>2, <3>3
  <2>4. longer \in Scans /\ longer # NoScan BY <2>1 DEF Scans, NoScan
  <2> QED BY <2>1, <2>2, <2>3, <2>4
<1>4. CASE scan[r] # NoScan /\ scan[r].from = "one" /\ scan[r].content = content
  <2>1. scan[r] \in [from : {"one"}, content : Contents, got : Contents]
    BY <1>1, <1>4, OneScan
  <2>2. longer = [scan[r] EXCEPT !.got = scan[r].got \o ids] BY <1>4 DEF Longer
  <2>3. scan[r].got \o ids \in Contents BY <2>1 DEF Contents
  <2>4. /\ longer \in [from : {"one"}, content : Contents, got : Contents]
        /\ longer.content = content /\ longer.got = scan[r].got \o ids
    BY <1>4, <2>1, <2>2, <2>3
  <2>5. longer \in Scans /\ longer # NoScan BY <2>4 DEF Scans, NoScan
  <2>6. ASSUME named[r] = {}, ids = Slice(content, k)
        PROVE  longer.got = IF k * PerPage < Len(content)
                            THEN SubSeq(content, 1, k * PerPage) ELSE content
    <3>1. /\ (k - 1) * PerPage < Len(content)
          /\ scan[r].got = SubSeq(content, 1, (k - 1) * PerPage)
      BY <1>2, <1>4, <2>6 DEF ScanSoFar
    <3>2. SubSeq(content, 1, (k - 1) * PerPage) \o Slice(content, k) =
            IF k * PerPage < Len(content) THEN SubSeq(content, 1, k * PerPage) ELSE content
      BY <1>1, <3>1, OnePageMore
    <3> QED BY <2>4, <2>6, <3>1, <3>2
  <2> QED BY <2>4, <2>5, <2>6
<1>5. CASE scan[r] # NoScan /\ ~(scan[r].from = "one" /\ scan[r].content = content)
  <2>1. longer = Mixed BY <1>5 DEF Longer
  <2> QED BY <2>1 DEF Mixed, Scans, NoScan
<1> QED BY <1>3, <1>4, <1>5

(* A page is answered.                                                        *)
LEMMA AnswerIsOK ==
    ASSUME CacheTypes, Scanning, NEW r \in Readers, NEW content \in Contents,
           at[r] # "idle", Answer(r, content), named' = named,
           left' \in [Readers -> 0..Timeout], DOMAIN answers' \subseteq Nat \ {0}
    PROVE  Scanning'
<1> DEFINE k == page[r]
           answer == Named(Cut(content, k), k, named[r])
           longer == Longer(scan[r], content, answer.ids)
<1>1. k \in Nat \ {0} BY DEF Scanning, ReaderTypes
<1>2. /\ answer.ids \in Contents
      /\ named[r] = {} => /\ answer.ids = Slice(content, k)
                          /\ k < answer.pages <=> k * PerPage < Len(content)
  BY <1>1, AnswerType
<1>3. /\ scan' = [scan EXCEPT ![r] = longer]
      /\ at' = [at EXCEPT ![r] = IF k < answer.pages THEN "between" ELSE "idle"]
      /\ page' = [page EXCEPT ![r] = IF k < answer.pages THEN k + 1 ELSE 1]
  BY DEF Answer
<1> HIDE DEF answer
<1>4. /\ longer \in Scans /\ longer # NoScan
      /\ longer.from = "one" /\ named[r] = {} =>
           /\ longer.content = content
           /\ longer.got = IF k * PerPage < Len(content)
                           THEN SubSeq(content, 1, k * PerPage) ELSE content
  BY <1>2, LongerScan
<1> HIDE DEF longer, k
<1>5. /\ scan'[r] = longer
      /\ at'[r] = IF k < answer.pages THEN "between" ELSE "idle"
      /\ page'[r] = IF k < answer.pages THEN k + 1 ELSE 1
      /\ \A q \in Readers \ {r} : scan'[q] = scan[q] /\ at'[q] = at[q] /\ page'[q] = page[q]
  BY <1>3 DEF CacheTypes, Scanning, ReaderTypes
<1>6. ReaderTypes' BY <1>1, <1>3, <1>4 DEF Scanning, ReaderTypes
<1>7. ASSUME NEW q \in Readers PROVE ScanSoFar(q)'
  <2>1. CASE q = r
    <3>1. ASSUME longer.from = "one", named[r] = {}
          PROVE  \/ at'[r] = "idle" /\ longer.got = longer.content
                 \/ /\ at'[r] # "idle" /\ page'[r] > 1
                    /\ (page'[r] - 1) * PerPage < Len(longer.content)
                    /\ longer.got = SubSeq(longer.content, 1, (page'[r] - 1) * PerPage)
      <4>1. CASE k < answer.pages
        <5>1. page'[r] - 1 = k /\ page'[r] > 1 /\ at'[r] = "between" BY <1>1, <1>5, <4>1
        <5>2. k * PerPage < Len(content) BY <1>2, <3>1, <4>1
        <5> QED BY <1>4, <3>1, <5>1, <5>2
      <4>2. CASE ~(k < answer.pages)
        <5>1. at'[r] = "idle" BY <1>5, <4>2
        <5>2. ~(k * PerPage < Len(content)) BY <1>2, <3>1, <4>2
        <5> QED BY <1>4, <3>1, <5>1, <5>2
      <4> QED BY <4>1, <4>2
    <3> QED BY <1>4, <1>5, <2>1, <3>1 DEF ScanSoFar
  <2>2. CASE q # r BY <1>5, <2>2 DEF Scanning, ScanSoFar
  <2> QED BY <2>1, <2>2
<1> QED BY <1>6, <1>7 DEF Scanning

(* A page that is kept is one that was asked for.                                  *)
LEMMA KeptPages ==
    ASSUME Scanning, NEW r \in Readers, NEW content, NEW age, KeepPage(r, content, age)
    PROVE  DOMAIN answers' \subseteq Nat \ {0}
BY DEF KeepPage, Scanning, ReaderTypes

(* A reader begins or ends a scan, or goes on waiting for its page.                   *)
LEMMA ReaderMoved ==
    ASSUME CacheTypes, Scanning, NEW r \in Readers, NEW to \in Places,
           at' = [at EXCEPT ![r] = to], at[r] # "idle" /\ to # "idle",
           UNCHANGED <<page, named, scan, answers>>,
           \/ left' = left
           \/ left' = [left EXCEPT ![r] = Timeout]
    PROVE  Scanning'
<1>1. /\ at'[r] = to
      /\ \A q \in Readers \ {r} : at'[q] = at[q]
  BY DEF CacheTypes
<1>2. left' \in [Readers -> 0..Timeout]
  <2>1. left \in [Readers -> 0..Timeout] BY DEF Scanning, ReaderTypes
  <2>2. Timeout \in 0..Timeout BY CatalogAssumption
  <2> QED BY <2>1, <2>2
<1>3. ReaderTypes' BY <1>2 DEF Scanning, ReaderTypes
<1>4. \A q \in Readers : ScanSoFar(q)' BY <1>1 DEF Scanning, ScanSoFar
<1> QED BY <1>3, <1>4 DEF Scanning

LEMMA NothingScanned ==
    ASSUME CacheTypes, Scanning, NEW r \in Readers, NEW to \in Places, NEW ids \in {{}} \cup Selections,
           at' = [at EXCEPT ![r] = to], page' = [page EXCEPT ![r] = 1],
           named' = [named EXCEPT ![r] = ids], scan' = [scan EXCEPT ![r] = NoScan],
           left' = left \/ left' = [left EXCEPT ![r] = 0], answers' = answers
    PROVE  Scanning'
<1>1. /\ scan'[r] = NoScan /\ page'[r] = 1
      /\ \A q \in Readers \ {r} : /\ at'[q] = at[q] /\ page'[q] = page[q]
                                  /\ named'[q] = named[q] /\ scan'[q] = scan[q]
  BY DEF CacheTypes, Scanning, ReaderTypes
<1>2. ReaderTypes'
  <2>1. left' \in [Readers -> 0..Timeout]
    <3>1. left \in [Readers -> 0..Timeout] /\ 0 \in 0..Timeout
      BY CatalogAssumption DEF Scanning, ReaderTypes
    <3> QED BY <3>1
  <2>2. scan' \in [Readers -> Scans]
    <3>1. scan \in [Readers -> Scans] /\ NoScan \in Scans
      BY DEF Scanning, ReaderTypes, Scans
    <3> QED BY <3>1
  <2>3. page' \in [Readers -> Nat \ {0}] BY DEF Scanning, ReaderTypes
  <2>4. named' \in [Readers -> {{}} \cup Selections]
    <3> DEFINE Names == {{}} \cup Selections
    <3>1. named \in [Readers -> Names] /\ ids \in Names BY DEF Scanning, ReaderTypes
    <3> HIDE DEF Names
    <3>2. named' \in [Readers -> Names] BY <3>1
    <3> QED BY <3>2 DEF Names
  <2> QED BY <2>1, <2>2, <2>3, <2>4 DEF Scanning, ReaderTypes
<1>3. ASSUME NEW q \in Readers PROVE ScanSoFar(q)'
  <2>1. CASE q = r BY <1>1, <2>1 DEF ScanSoFar, NoScan
  <2>2. CASE q # r BY <1>1, <2>2 DEF Scanning, ScanSoFar
  <2> QED BY <2>1, <2>2
<1> QED BY <1>2, <1>3 DEF Scanning

LEMMA NothingScannedYet == Init => Scanning
<1> SUFFICES ASSUME Init PROVE Scanning OBVIOUS
<1> USE DEF Init
<1>1. ReaderTypes BY CatalogAssumption DEF ReaderTypes, Scans
<1>2. \A r \in Readers : ScanSoFar(r) BY DEF ScanSoFar, NoScan
<1> QED BY <1>1, <1>2 DEF Scanning

LEMMA ServedScans ==
    ASSUME IInv, Scanning, NEW r \in Readers, Serve(r)
    PROVE  Scanning'
<1> USE DEF IInv
<1>1. CASE PageKept(r)
  <2>1. /\ at[r] = "asked" /\ page[r] \in DOMAIN answers
        /\ Answer(r, answers[page[r]].content) /\ UNCHANGED <<named, left, answers>>
    BY <1>1 DEF PageKept, PageLive, caches
  <2>2. answers[page[r]] \in Entries(PageTTL) \ {Stale} BY <2>1 DEF CacheTypes
  <2>3. answers[page[r]].content \in Contents BY <2>2 DEF Entries
  <2> QED BY <2>1, <2>3, AnswerIsOK DEF Scanning, ReaderTypes
<1>2. CASE PageMissing(r) \/ SnapshotMissing(r)
  BY <1>2, ReaderMoved DEF PageMissing, SnapshotMissing, caches, history, Places
<1>3. CASE SnapshotKept(r)
  <2>1. /\ at[r] = "looking" /\ Live(snapshot) /\ Answer(r, snapshot.content)
        /\ KeepPage(r, snapshot.content, snapshot.age) /\ UNCHANGED <<named, left>>
    BY <1>3 DEF SnapshotKept, SnapshotUsable
  <2>2. snapshot.content \in Contents
    BY <2>1, CatalogAssumption, EntryFields DEF CacheTypes
  <2>3. DOMAIN answers' \subseteq Nat \ {0} BY <2>1, KeptPages
  <2> QED BY <2>1, <2>2, <2>3, AnswerIsOK DEF Scanning, ReaderTypes
<1>4. CASE StartExport(r)
  BY <1>4, ReaderMoved DEF StartExport, caches, Places
<1>5. CASE PollDone(r) \/ WakeUp(r)
  BY <1>5, ReaderMoved DEF PollDone, WakeUp, caches, history, Places
<1>6. CASE PollAgain(r)
  BY <1>6, ReaderMoved DEF PollAgain, caches, history, Places
<1>7. CASE Download(r)
  <2> DEFINE content == Parsed(job[r].rows)
  <2>1. /\ at[r] = "loading" /\ Answer(r, content) /\ KeepPage(r, content, job[r].age)
        /\ left' = [left EXCEPT ![r] = 0] /\ UNCHANGED named
    BY <1>7 DEF Download
  <2>2. content \in Contents
    <3>1. job[r].state = "done" /\ job[r] \in Jobs
      BY <2>1 DEF Ages, JobAge, CacheTypes
    <3>2. job[r].rows \in Inventories BY <3>1 DEF Jobs
    <3> QED BY <3>2, ParsedType
  <2>3. DOMAIN answers' \subseteq Nat \ {0} BY <2>1, KeptPages
  <2>4. left' \in [Readers -> 0..Timeout]
    BY <2>1, CatalogAssumption DEF Scanning, ReaderTypes
  <2> HIDE DEF content
  <2> QED BY <2>1, <2>2, <2>3, <2>4, AnswerIsOK
<1>8. CASE CallFails(r) \/ ExportFailed(r) \/ TimedOut(r)
  <2>1. GiveUp(r) BY <1>8 DEF CallFails, ExportFailed, TimedOut
  <2>2. named[r] \in {{}} \cup Selections /\ named' = [named EXCEPT ![r] = named[r]]
    BY <2>1 DEF GiveUp, Scanning, ReaderTypes
  <2> QED BY <2>1, <2>2, NothingScanned DEF GiveUp, caches, Places
<1> QED BY <1>1, <1>2, <1>3, <1>4, <1>5, <1>6, <1>7, <1>8 DEF Serve

LEMMA ScansGoOn == IInv /\ Scanning /\ [Next]_vars => Scanning'
<1> SUFFICES ASSUME IInv, Scanning, [Next]_vars PROVE Scanning' OBVIOUS
<1> USE DEF IInv
<1>1. CASE UNCHANGED vars \/ Change \/ \E r \in Readers : ExportRuns(r)
  <2>1. UNCHANGED <<at, page, named, left, scan, answers>>
    BY <1>1 DEF vars, readers, caches, history, Change, ExportRuns
  <2> QED BY <2>1 DEF Scanning, ReaderTypes, ScanSoFar
<1>2. CASE Tick
  <2>1. /\ UNCHANGED <<at, page, named, scan>> /\ left' = [r \in Readers |-> Less(left[r])]
        /\ DOMAIN answers' \subseteq DOMAIN answers
    BY <1>2 DEF Tick
  <2>2. left' \in [Readers -> 0..Timeout]
    BY <2>1, CatalogAssumption DEF Scanning, ReaderTypes, Less
  <2> QED BY <2>1, <2>2 DEF Scanning, ReaderTypes, ScanSoFar
<1>3. ASSUME NEW r \in Readers, Serve(r) PROVE Scanning' BY <1>3, ServedScans
<1>4. ASSUME NEW r \in Readers, NextPage(r) PROVE Scanning'
  BY <1>4, ReaderMoved DEF NextPage, caches, history, Places
<1>5. ASSUME NEW r \in Readers, NEW ids \in Selections, BeginScan(r, ids) PROVE Scanning'
  BY <1>5, NothingScanned DEF BeginScan, caches, Places
<1> QED BY <1>1, <1>2, <1>3, <1>4, <1>5 DEF Next

LEMMA AlwaysScanning == Spec => [](IInv /\ Scanning)
BY Always, NothingScannedYet, ScansGoOn, PTL DEF Spec

(* Types.                                                                   *)
THEOREM Types == Spec => []TypeOK
<1>1. IInv /\ Scanning => TypeOK
  BY DEF IInv, CacheTypes, Scanning, ReaderTypes, TypeOK
<1> QED BY <1>1, AlwaysScanning, PTL

(* A scan for everything that saw one content has returned it, whole and in order: the   *)
(* pages of a snapshot fit together, wherever each was kept meanwhile.                *)
THEOREM ScansAreWhole == Spec => []ScanComplete
<1>1. IInv /\ Scanning => ScanComplete BY DEF Scanning, ScanSoFar, ScanComplete
<1> QED BY <1>1, AlwaysScanning, PTL
=============================================================================
