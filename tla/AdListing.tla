----------------------------- MODULE AdListing -----------------------------
(***************************************************************************)
(* GET /ads, GET /ads/status/{status} and GET /ads/stats: ListAds with the *)
(* pagination of FindByStatus, and GetStats, as a client sees them that    *)
(* asks for page after page, or once for the statistics, while the         *)
(* pipeline goes on moving ads from status to status.                      *)
(*                                                                         *)
(* The repository is what AdLifecycle leaves of it, the promise the        *)
(* pipeline is shown to keep.  Each repository call is one step; a request *)
(* that reads several statuses is as many steps.                           *)
(***************************************************************************)
EXTENDS AdLifecycle, Integers, FiniteSets, SequencesExt

CONSTANTS
    Filters,        \* the status filters clients ask for, "" for none
    LimitInputs,    \* the "limit" values clients send
    DefaultLimit,   \* 10 in the code
    MaxLimit        \* 100 in the code

\* A client that sends no status.
NoFilter == ""

ASSUME ListingAssumption ==
    /\ Filters \subseteq {NoFilter, "submitted", "queued", "processing", "completed", "failed"}
    /\ LimitInputs \subseteq Int
    /\ DefaultLimit \in Nat \ {0}
    /\ MaxLimit \in Nat
    /\ IsFiniteSet(Ads)

VARIABLES
    createdAt,      \* the CreatedAt of the ads, which need not differ
    client,         \* "idle", "paging", "listing", "counting", "done", "counted"
    filter,         \* the filter, limit and offset of the client's requests
    limit,          \* (the limit as ListAds applies it)
    offset,
    reading,        \* the statuses the request in progress has yet to read
    page,           \* the ads it has collected
    total,          \* the sum of the statusCounts GetStats has read
    seen,           \* what the client has been shown, page after page
    present,        \* the ads that matched when the client began
    changed,        \* whether any ad has entered or left the filter since
    left            \* whether any ad has left it

listVars == <<client, filter, limit, offset, reading, page, total, seen, present, changed, left>>

\* Mutant: the statuses are visited from the last to the first.
allStatusesBackwards == <<"failed", "completed", "processing", "queued", "submitted">>

allStatuses == <<"submitted", "queued", "processing", "completed", "failed">>

-----------------------------------------------------------------------------

\* Mutant: the offset counts from one.
PageFromOne(s, lim, off) ==
    IF off >= Len(s) THEN <<>>
    ELSE SubSeq(s, off + 2, IF off + lim + 1 > Len(s) THEN Len(s) ELSE off + lim + 1)

\* An offset past the end gives an empty page; the last page may be short.
Page(s, lim, off) ==
    IF off >= Len(s) THEN <<>>
    ELSE SubSeq(s, off + 1, IF off + lim > Len(s) THEN Len(s) ELSE off + lim)

WithStatus(st) == {a \in Ads : status[a] = st}

CountByStatus(st) == Cardinality(WithStatus(st))

\* Mutant: the oldest ad comes first.
NewestFirstReversed(st) ==
    {s \in [1 .. CountByStatus(st) -> WithStatus(st)] :
        /\ IsInjective(s)
        /\ \A i, j \in DOMAIN s : i < j => createdAt[s[i]] =< createdAt[s[j]]}

\* The ads of one status, sorted.  The map is visited in random order and the
\* sort is not stable: ads with equal CreatedAt come in any order, in every
\* request anew.
NewestFirst(st) ==
    {s \in [1 .. CountByStatus(st) -> WithStatus(st)] :
        /\ IsInjective(s)
        /\ \A i, j \in DOMAIN s : i < j => createdAt[s[i]] >= createdAt[s[j]]}

\* The results of FindByStatus.
FindByStatus(st, lim, off) == {Page(s, lim, off) : s \in NewestFirst(st)}

getIntQueryParam(value, defaultValue) == IF value < 0 THEN defaultValue ELSE value

ReasonableLimit(lim) == IF lim =< 0 \/ lim > MaxLimit THEN DefaultLimit ELSE lim

Matching(f) == {a \in Ads : status[a] # "absent" /\ f \in {NoFilter, status[a]}}

-----------------------------------------------------------------------------

ListingInit ==
    /\ createdAt = [a \in Ads |-> 0]
    /\ client = "idle"
    /\ filter = NoFilter
    /\ limit = 0
    /\ offset = 0
    /\ reading = <<>>
    /\ page = <<>>
    /\ total = 0
    /\ seen = <<>>
    /\ present = {}
    /\ changed = FALSE
    /\ left = FALSE

\* What a step of the pipeline is to the client: its filter gains or loses ads.
ListingObserves ==
    /\ UNCHANGED <<client, filter, limit, offset, reading, page, total, seen, present>>
    /\ changed' = (changed \/ (client # "idle" /\ Matching(filter)' # Matching(filter)))
    /\ left' = (left \/ (client # "idle" /\ ~(Matching(filter) \subseteq Matching(filter)')))

\* A client begins to page with offset 0.
BeginPaging(f, lim) ==
    /\ client = "idle"
    /\ client' = "paging"
    /\ filter' = f
    /\ limit' = ReasonableLimit(getIntQueryParam(lim, DefaultLimit))
    /\ present' = Matching(f)
    /\ UNCHANGED <<createdAt, offset, reading, page, total, seen, changed, left>>

\* One request, of one status or of all of them in turn.
listAds ==
    /\ client = "paging"
    /\ client' = "listing"
    /\ reading' = IF filter = NoFilter THEN allStatuses ELSE <<filter>>
    /\ UNCHANGED <<createdAt, filter, limit, offset, page, total, seen, present, changed, left>>

\* The next FindByStatus of ListAds, with the limit and the offset of the
\* request whatever the status.  With enough ads, or after the last status,
\* the response follows: the client goes on by its "count" and stops at an
\* empty page.
ListAds ==
    /\ client = "listing"
    /\ \E result \in FindByStatus(Head(reading), limit, offset) :
        LET found == Page(page \o result, limit, 0)
        IN  IF Len(found) >= limit \/ Len(reading) = 1
            THEN /\ seen' = seen \o found
                 /\ offset' = offset + Len(found)
                 /\ client' = IF found = <<>> THEN "done" ELSE "paging"
                 /\ reading' = <<>>
                 /\ page' = <<>>
            ELSE /\ page' = found
                 /\ reading' = Tail(reading)
                 /\ UNCHANGED <<client, offset, seen>>
    /\ UNCHANGED <<createdAt, filter, limit, total, present, changed, left>>

\* A client asks for the statistics.  The size of the queue and the numbers of
\* the worker pool, which are reported beside, are left out.
getStats ==
    /\ client = "idle"
    /\ client' = "counting"
    /\ present' = Matching(NoFilter)
    /\ reading' = allStatuses
    /\ UNCHANGED <<createdAt, filter, limit, offset, page, total, seen, changed, left>>

\* The ads of each status are counted in turn.
GetStats ==
    /\ client = "counting"
    /\ total' = total + CountByStatus(Head(reading))
    /\ reading' = Tail(reading)
    /\ client' = IF Len(reading) = 1 THEN "counted" ELSE "counting"
    /\ UNCHANGED <<createdAt, filter, limit, offset, page, seen, present, changed, left>>

ListingNext ==
    \/ \E f \in Filters, lim \in LimitInputs : BeginPaging(f, lim)
    \/ listAds
    \/ ListAds
    \/ getStats
    \/ GetStats

-----------------------------------------------------------------------------

ListingTypeOK ==
    /\ createdAt \in [Ads -> Nat]
    /\ client \in {"idle", "paging", "listing", "counting", "done", "counted"}
    /\ {limit, offset, total} \subseteq Nat
    /\ Len(reading) > 0 <=> client \in {"listing", "counting"}
    /\ ToSet(seen) \union ToSet(page) \subseteq Ads
    /\ present \subseteq Ads
    /\ {changed, left} \subseteq BOOLEAN

\* The pages of a status nobody enters or leaves, whatever limit the client
\* asks for: only its ads, the newest first, and for every creation time as
\* many entries as it has ads.  So an ad that shares its CreatedAt with no
\* other is shown exactly once; of ads that share it, which every request
\* puts into an order of its own, one may be shown twice and another never.
StaticPagingIsExact ==
    client = "done" /\ filter # NoFilter /\ ~changed =>
        /\ ToSet(seen) \subseteq present
        /\ \A i, j \in DOMAIN seen : i < j => createdAt[seen[i]] >= createdAt[seen[j]]
        /\ \A a \in present :
            Cardinality({k \in DOMAIN seen : createdAt[seen[k]] = createdAt[a]})
                = Cardinality({b \in present : createdAt[b] = createdAt[a]})

\* No other ad of the status the client asks for was created at the same time.
Untied(a) == \A b \in Matching(filter) : createdAt[b] = createdAt[a] => b = a

\* While ads only enter the status (as they do "completed", the one status no
\* ad leaves), a client may see an ad twice but misses none that was there
\* when it began, unless a tie of CreatedAt lets it slip from page to page.
GrowingPagingMissesNone ==
    client = "done" /\ filter # NoFilter /\ ~left =>
        \A a \in present : Untied(a) => a \in ToSet(seen)

\* Without a filter ListAds reads the statuses one after the other while ads
\* move: a first page with room to spare shows every ad there was when the
\* client began, because ads move in the order in which statuses are read.
ShortFirstPageMissesNone ==
    [][ /\ client = "listing" /\ client' # "listing"
        /\ filter = NoFilter /\ offset = 0
        /\ Len(seen') < limit
        => present \subseteq ToSet(seen')]_<<status, listVars>>

\* The status counts of GetStats are read one by one while ads move, so an ad
\* may be counted in two of them; but none is overlooked: they add up to at
\* least the ads there were.
StatsMissNone ==
    client = "counted" => total >= Cardinality(present)

\* "Get all ads (paginated)": without a filter the offset skips that many ads
\* of every status, not of the list.
AllAdsArePaged ==
    client = "done" /\ ~changed => present \subseteq ToSet(seen)

=============================================================================
