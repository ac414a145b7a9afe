-------------------------------- MODULE Catalog --------------------------------
(***************************************************************************)
(* Reading the catalogue.  Discogs gives the whole inventory as an export that    *)
(* takes its time; the connector asks for one, polls until it is done, keeps the    *)
(* snapshot for a while, and serves pages of it to BaseLinker, which goes on        *)
(* buying and listing meanwhile.  Readers run in threads of the pool: those in      *)
(* SharedPages come through /bl, whose one connector also keeps the pages it has    *)
(* answered; the others through /exchange, with a connector of their own.          *)
(*                                                                         *)
(* The time unit is the one in which the constants are given; the download of an     *)
(* export takes up to DownloadTime of them, any other call less than one.  The       *)
(* fields of a row are left out, and the status filter is one of its values: the     *)
(* caches of different values have nothing in common.  So have the page caches of    *)
(* different action tokens, of which there is one here.                            *)
(***************************************************************************)
EXTENDS Integers, SequencesExt

CONSTANTS
    Products,
    Inventories,   \* the exports there may be, as sequences of rows
    Filtered,      \* rows of another status than asked for, or without listing_id
    Readers,
    SharedPages,   \* the readers of the connector of /bl
    Selections,    \* sets of products a reader may name; {} for all
    PerPage,
    ExportTTL,     \* _PRODUCTS_EXPORT_CACHE_TTL_SECONDS
    PageTTL,       \* _PRODUCTS_CACHE_TTL
    DownloadTime,  \* the longest a download takes, with its retries
    PollInterval,  \* _PRODUCTS_EXPORT_POLL_INTERVAL_SECONDS
    Timeout        \* _PRODUCTS_EXPORT_TIMEOUT_SECONDS

ASSUME CatalogAssumption ==
    /\ \A rows \in Inventories : rows \in Seq(Products) /\ IsInjective(rows)
    /\ SharedPages \subseteq Readers
    /\ PerPage \in Nat \ {0}
    /\ ExportTTL \in Nat /\ PageTTL \in Nat /\ Timeout \in Nat /\ DownloadTime \in Nat
    /\ PollInterval \in Nat \ {0}

VARIABLES
    inventory,     \* the rows an export would have now
    at,            \* where each reader is
    page,          \* the page it asks for
    named,         \* the products it names
    job,           \* its export job at Discogs
    left,          \* the time to its deadline
    nap,           \* the time it still sleeps, or its download takes
    snapshot,      \* the export cache
    answers,       \* the page cache of the connector of /bl
    scan,          \* history: what a reader's scan has got, and from which content
    extra          \* history: exports started although a snapshot is live

readers == <<at, page, named, job, left, nap>>
caches == <<snapshot, answers>>
history == <<scan, extra>>
vars == <<inventory, readers, caches, history>>

Places == {"idle", "asked", "looking", "starting", "polling", "asleep", "loading",
           "between"}
Jobs == [state : {"none", "pending", "failed"}]
        \cup [state : {"done"}, rows : Inventories, age : Nat]

NoJob == [state |-> "none"]
Stale == [left |-> -1]
Live(entry) == entry.left >= 0

(* A loop over a sequence that appends what is in a set to its result.              *)
Keeping(s, S) ==
    LET kept[i \in 0..Len(s)] ==
            IF i = 0 THEN <<>>
            ELSE IF s[i] \in S THEN Append(kept[i - 1], s[i]) ELSE kept[i - 1]
    IN  kept[Len(s)]

(* Slip: rows of every status are kept.                                          *)
ParsedUnfiltered(rows) == rows

(* The loop over the rows of an export: those of another status are skipped, and     *)
(* those without a listing_id.                                                 *)
Parsed(rows) == Keeping(rows, Products \ Filtered)

(* What a content may be: only products that may be shown.                         *)
Contents == Seq(Products \ Filtered)

NoScan == [from |-> "nothing"]
Mixed == [from |-> "several"]
Scans == {NoScan, Mixed} \cup [from : {"one"}, content : Contents, got : Contents]

(* Slip: a last page that is not full is not counted.                            *)
PagesOfWhole(n) == IF n < PerPage THEN 1 ELSE n \div PerPage

PagesOf(n) == IF n = 0 THEN 1 ELSE (n + PerPage - 1) \div PerPage
Slice(s, k) == SubSeq(s, (k - 1) * PerPage + 1,
                      IF k * PerPage < Len(s) THEN k * PerPage ELSE Len(s))

(* The answer of products_list for a page of a content.                          *)
Cut(content, k) ==
    [ids |-> Slice(content, k), pages |-> PagesOf(Len(content))]

(* _catalog_metric: what is named is picked from the page, and paginated again.     *)
Named(answer, k, ids) ==
    LET picked == Keeping(answer.ids, ids)
    IN  IF ids = {} THEN answer
        ELSE [ids |-> Slice(picked, k), pages |-> PagesOf(Len(picked))]

Init ==
    /\ inventory \in Inventories
    /\ at = [r \in Readers |-> "idle"] /\ page = [r \in Readers |-> 1]
    /\ named = [r \in Readers |-> {}] /\ job = [r \in Readers |-> NoJob]
    /\ left = [r \in Readers |-> 0] /\ nap = [r \in Readers |-> 0]
    /\ snapshot = Stale /\ answers = [k \in {} |-> Stale]
    /\ scan = [r \in Readers |-> NoScan] /\ extra = [r \in Readers |-> 0]
-----------------------------------------------------------------------------
(* A listing is bought or withdrawn, or a new one added (external).               *)
Change ==
    /\ inventory' \in Inventories \ {inventory}
    /\ UNCHANGED <<readers, caches, history>>

(* BaseLinker asks for the first page, or the next (external).                    *)
BeginScan(r, ids) ==
    /\ at[r] \in {"idle", "between"}
    /\ r \in SharedPages => ids = {}
    /\ at' = [at EXCEPT ![r] = "asked"]
    /\ page' = [page EXCEPT ![r] = 1] /\ named' = [named EXCEPT ![r] = ids]
    /\ scan' = [scan EXCEPT ![r] = NoScan]
    /\ UNCHANGED <<inventory, job, left, nap, caches, extra>>

NextPage(r) ==
    /\ at[r] = "between"
    /\ at' = [at EXCEPT ![r] = "asked"]
    /\ UNCHANGED <<inventory, page, named, job, left, nap, caches, history>>

(* The scan so far, with a page more.                                           *)
Longer(sofar, content, ids) ==
    CASE sofar = NoScan -> [from |-> "one", content |-> content, got |-> ids]
      [] sofar.from = "one" /\ sofar.content = content -> [sofar EXCEPT !.got = @ \o ids]
      [] OTHER -> Mixed

(* A page is answered: the reader has it, and knows how many there are.            *)
Answer(r, content) ==
    LET answer == Named(Cut(content, page[r]), page[r], named[r])
    IN  /\ scan' = [scan EXCEPT ![r] = Longer(@, content, answer.ids)]
        /\ at' = [at EXCEPT ![r] = IF page[r] < answer.pages THEN "between" ELSE "idle"]
        /\ page' = [page EXCEPT ![r] = IF page[r] < answer.pages THEN @ + 1 ELSE 1]

(* _cache_set, in the connector of /bl; another is gone with its request.          *)
KeepPage(r, content, age) ==
    answers' = IF r \in SharedPages
               THEN [k \in DOMAIN answers \cup {page[r]} |->
                         IF k = page[r]
                         THEN [left |-> PageTTL, content |-> content, age |-> age]
                         ELSE answers[k]]
               ELSE answers

(* _cache_get: an answer that is too old is taken out, by Tick.                      *)
PageLive(r) == r \in SharedPages /\ page[r] \in DOMAIN answers

(* Slip: a page that is asked for again is kept for longer.                        *)
PageKeptLonger(r) ==
    /\ at[r] = "asked" /\ PageLive(r)
    /\ Answer(r, answers[page[r]].content)
    /\ answers' = [answers EXCEPT ![page[r]].left = PageTTL]
    /\ UNCHANGED <<inventory, named, job, left, nap, snapshot, extra>>

(* products_list: the page is in the cache.                                      *)
PageKept(r) ==
    /\ at[r] = "asked" /\ PageLive(r)
    /\ Answer(r, answers[page[r]].content)
    /\ UNCHANGED <<inventory, named, job, left, nap, caches, extra>>

PageMissing(r) ==
    /\ at[r] = "asked" /\ ~PageLive(r)
    /\ at' = [at EXCEPT ![r] = "looking"]
    /\ UNCHANGED <<inventory, page, named, job, left, nap, caches, history>>

(* Slip: the first page of a scan asks for a new export.                          *)
SnapshotUsableOnce(r) == Live(snapshot) /\ page[r] > 1

SnapshotUsable(r) == Live(snapshot)

(* _products_from_inventory_export: a snapshot is in the cache.                   *)
SnapshotKept(r) ==
    /\ at[r] = "looking" /\ SnapshotUsable(r)
    /\ Answer(r, snapshot.content)
    /\ KeepPage(r, snapshot.content, snapshot.age)
    /\ UNCHANGED <<inventory, named, job, left, nap, snapshot, extra>>

(* It is not, and the lock is released: others may find the same.                 *)
SnapshotMissing(r) ==
    /\ at[r] = "looking" /\ ~SnapshotUsable(r)
    /\ at' = [at EXCEPT ![r] = "starting"]
    /\ UNCHANGED <<inventory, page, named, job, left, nap, caches, history>>

(* start_inventory_export: the job is posted and its metadata read.               *)
StartExport(r) ==
    /\ at[r] = "starting"
    /\ at' = [at EXCEPT ![r] = "polling"]
    /\ job' = [job EXCEPT ![r] = [state |-> "pending"]]
    /\ left' = [left EXCEPT ![r] = Timeout]
    /\ extra' = IF Live(snapshot) THEN [extra EXCEPT ![r] = @ + 1] ELSE extra
    /\ UNCHANGED <<inventory, page, named, nap, caches, scan>>

(* Discogs runs the job (external).                                            *)
ExportRuns(r) ==
    /\ job[r].state = "pending"
    /\ \E outcome \in {[state |-> "done", rows |-> inventory, age |-> 0],
                       [state |-> "failed"]} :
           job' = [job EXCEPT ![r] = outcome]
    /\ UNCHANGED <<inventory, at, page, named, left, nap, caches, history>>

(* wait_for_inventory_export, once around the loop; the download begins.            *)
PollDone(r) ==
    /\ at[r] = "polling" /\ job[r].state = "done"
    /\ at' = [at EXCEPT ![r] = "loading"]
    /\ \E takes \in 0..DownloadTime : nap' = [nap EXCEPT ![r] = takes]
    /\ UNCHANGED <<inventory, page, named, job, left, caches, history>>

(* Slip: the deadline is only looked at when the job has failed.                   *)
PollForever(r) ==
    /\ at[r] = "polling" /\ job[r].state = "pending"
    /\ at' = [at EXCEPT ![r] = "asleep"]
    /\ nap' = [nap EXCEPT ![r] = PollInterval]
    /\ UNCHANGED <<inventory, page, named, job, left, caches, history>>

PollAgain(r) ==
    /\ at[r] = "polling" /\ job[r].state = "pending" /\ left[r] > 0
    /\ at' = [at EXCEPT ![r] = "asleep"]
    /\ nap' = [nap EXCEPT ![r] = PollInterval]
    /\ UNCHANGED <<inventory, page, named, job, left, caches, history>>

WakeUp(r) ==
    /\ at[r] = "asleep" /\ nap[r] = 0
    /\ at' = [at EXCEPT ![r] = "polling"]
    /\ UNCHANGED <<inventory, page, named, job, left, nap, caches, history>>

(* Downloaded and parsed, the export becomes the snapshot of everyone.            *)
Download(r) ==
    LET content == Parsed(job[r].rows)
    IN  /\ at[r] = "loading"
        /\ nap[r] = 0
        /\ snapshot' = [left |-> ExportTTL, content |-> content, age |-> job[r].age]
        /\ Answer(r, content)
        /\ KeepPage(r, content, job[r].age)
        /\ job' = [job EXCEPT ![r] = NoJob] /\ left' = [left EXCEPT ![r] = 0]
        /\ UNCHANGED <<inventory, named, nap, extra>>

(* The request fails: /exchange answers {"pages": 0}, /bl an error.               *)
GiveUp(r) ==
    /\ at' = [at EXCEPT ![r] = "idle"] /\ page' = [page EXCEPT ![r] = 1]
    /\ job' = [job EXCEPT ![r] = NoJob] /\ left' = [left EXCEPT ![r] = 0]
    /\ scan' = [scan EXCEPT ![r] = NoScan]
    /\ UNCHANGED <<inventory, named, nap, caches, extra>>

(* A call to Discogs fails, with all its retries.                               *)
CallFails(r) == at[r] \in {"starting", "polling", "loading"} /\ nap[r] = 0 /\ GiveUp(r)

(* The job has failed, or is not done by the deadline.                           *)
ExportFailed(r) == at[r] = "polling" /\ job[r].state = "failed" /\ GiveUp(r)

TimedOut(r) ==
    at[r] = "polling" /\ job[r].state = "pending" /\ left[r] <= 0 /\ GiveUp(r)
-----------------------------------------------------------------------------
Resting(r) ==
    at[r] \in {"idle", "between"} \/ (at[r] \in {"asleep", "loading"} /\ nap[r] > 0)

Older(entry) == IF Live(entry) /\ entry.left > 0
                THEN [entry EXCEPT !.left = @ - 1, !.age = @ + 1] ELSE Stale

Less(n) == IF n = 0 THEN 0 ELSE n - 1

(* A unit of time passes, when no thread has anything to do.                      *)
Tick ==
    /\ \A r \in Readers : Resting(r)
    /\ snapshot' = Older(snapshot)
    /\ answers' = [k \in {j \in DOMAIN answers : answers[j].left > 0} |->
                       Older(answers[k])]
    /\ job' = [r \in Readers |-> IF job[r].state = "done"
                                 THEN [job[r] EXCEPT !.age = @ + 1] ELSE job[r]]
    /\ left' = [r \in Readers |-> Less(left[r])]
    /\ nap' = [r \in Readers |-> Less(nap[r])]
    /\ extra' = IF Live(snapshot') THEN extra ELSE [r \in Readers |-> 0]
    /\ UNCHANGED <<inventory, at, page, named, scan>>

Serve(r) ==
    \/ PageKept(r) \/ PageMissing(r) \/ SnapshotKept(r) \/ SnapshotMissing(r)
    \/ StartExport(r) \/ PollDone(r) \/ PollAgain(r) \/ WakeUp(r) \/ Download(r)
    \/ CallFails(r) \/ ExportFailed(r) \/ TimedOut(r)

Next ==
    \/ Change
    \/ Tick
    \/ \E r \in Readers :
           \/ Serve(r) \/ ExportRuns(r) \/ NextPage(r)
           \/ \E ids \in Selections : BeginScan(r, ids)

Spec == Init /\ [][Next]_vars

(* The pool runs every thread, and time passes however many requests come (SF: each   *)
(* of them holds the tick up); Discogs and BaseLinker owe nothing.                 *)
FairSpec == Spec /\ SF_vars(Tick) /\ \A r \in Readers : WF_vars(Serve(r))
-----------------------------------------------------------------------------
Entries(ttl) == {Stale} \cup [left : 0..ttl, content : Contents, age : Nat]

(* Types; whatever it went through, nothing that a cache holds or a reader has got is  *)
(* a product of another status than asked for, or without a listing_id.              *)
TypeOK ==
    /\ inventory \in Inventories
    /\ at \in [Readers -> Places]
    /\ page \in [Readers -> Nat \ {0}]
    /\ named \in [Readers -> {{}} \cup Selections]
    /\ job \in [Readers -> Jobs]
    /\ left \in [Readers -> 0..Timeout] /\ nap \in [Readers -> Nat]
    /\ snapshot \in Entries(ExportTTL)
    /\ DOMAIN answers \subseteq Nat \ {0}
    /\ answers \in [DOMAIN answers -> Entries(PageTTL) \ {Stale}]
    /\ scan \in [Readers -> Scans] /\ extra \in [Readers -> Nat]

(* Nothing an answer can be cut from is older than what the times to live, the pause    *)
(* between two polls and the time of a download add up to, whoever stored what over   *)
(* whatever: not even the snapshot that a slower reader put in place of a younger one. *)
Fresh ==
    /\ Live(snapshot) => snapshot.age <= PollInterval + DownloadTime + ExportTTL
    /\ \A k \in DOMAIN answers :
           answers[k].age <= PollInterval + DownloadTime + ExportTTL + PageTTL

(* Readers that miss the snapshot together start an export each, but none of them     *)
(* another one while a snapshot is live: the cache does end the exports.             *)
OneExtraExportEach == \A r \in Readers : extra[r] <= 1

(* A scan for everything, all of whose pages were cut from the same content, has      *)
(* returned exactly that content: no product twice, none missing, in order.          *)
ScanComplete ==
    \A r \in Readers :
        at[r] = "idle" /\ named[r] = {} /\ scan[r].from = "one" =>
            scan[r].got = scan[r].content

(* Every request for a page is answered, with a page or a failure, even if Discogs     *)
(* never runs the export.                                                     *)
EveryReadEnds ==
    \A r \in Readers :
        at[r] \notin {"idle", "between"} ~> at[r] \in {"idle", "between"}

(* The pagination of a request that names products is of the selected set            *)
(* (routes/exchange.py:77): a scan for them, from a single content, returns all.       *)
NamedAreFound ==
    \A r \in Readers :
        at[r] = "idle" /\ scan[r].from = "one" =>
            named[r] \cap Range(scan[r].content) \subseteq Range(scan[r].got)
=============================================================================
