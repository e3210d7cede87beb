----------------------------- MODULE HttpAdapter -----------------------------
(***************************************************************************)
(* HttpAdapter.acquire: several acquisitions at a time (the workers of     *)
(* AcquisitionEngine.run share their adapter, and it shares its            *)
(* MemoryCache) against an origin that publishes new editions of its       *)
(* resources, redirects, answers with faults or not at all.  An            *)
(* acquisition's step ends where it reads the cache, the cancellation      *)
(* event or the network.                                                   *)
(***************************************************************************)
EXTENDS Integers, Sequences, FiniteSets

CONSTANTS
  Clients,        \* threads that call acquire()
  Key,            \* URL spelling -> normalize_cache_key(url), or why there is none
  Foreign,        \* the URLs with a key whose scheme is neither http nor https
  Requests,       \* the requests acquired
  Kinds,          \* what the origin may publish
  ETag,           \* the ETag under which a resource has an edition
  LastModified,   \* the date, as HTTP writes it, it has the edition under
  Offers,         \* the sets of validators the origin may send
  Refusals,       \* the statuses it may refuse with
  MaxRedirects,   \* self.max_redirects
  MaxEditions,    \* bound: editions published
  MaxTime,        \* bound: ticks of the clock
  MaxChunks       \* bound: chunks a body is read in before its end

Urls      == DOMAIN Key
Invalid   == {"relative", "malformed"}
Resources == {Key[u] : u \in Urls} \ Invalid

\* The optional checks of _validate_body and what an origin may publish.
Checks   == {"empty", "pdf", "shell"}
AllKinds == {"html", "data", "pdf", "empty", "malformed_pdf", "undecodable", "shell"}
Media(kind) == CASE kind \in {"pdf", "malformed_pdf"} -> "pdf"
                 [] kind = "data" -> "data"
                 [] OTHER -> "html"

Validators == {"etag", "modified"}

Editions  == 1..MaxEditions
CacheKeys == {"GET", "HEAD"} \X Resources

\* own: the request's own If-None-Match and If-Modified-Since, 0 without one.
RequestType ==
  [url : Urls, method : {"GET", "HEAD"}, expected : SUBSET {"html", "data", "pdf"},
   checks : SUBSET Checks, use_cache : BOOLEAN, max_age : Nat,
   own : [etag : Nat, modified : Nat]]

\* What a resource may have for its editions: two resources may use the same
\* ETag, a weak ETag may be that of several editions, and editions may come in
\* one second, or with a date set back.
ValidatorTables == [Resources -> [Editions -> Nat \ {0}]]

ASSUME HttpAssumption ==
  /\ MaxRedirects \in Nat /\ MaxEditions \in Nat /\ MaxTime \in Nat /\ MaxChunks \in Nat
  /\ Foreign \subseteq {u \in Urls : Key[u] \notin Invalid}
  /\ Kinds \subseteq AllKinds
  /\ ETag \in ValidatorTables /\ LastModified \in ValidatorTables
  /\ Offers \subseteq SUBSET Validators
  /\ Refusals \subseteq {"forbidden", "rate_limited", "server_error", "client_error", "other"}
  /\ Requests \subseteq RequestType

VARIABLES
  content,     \* what the origin has under each resource
  editions,    \* editions published so far
  now,         \* time.monotonic()
  cache,       \* MemoryCache._entries: method and resource -> entry
  pc,          \* where each acquisition is
  request,     \* its request
  cancelled,   \* its cancellation event
  cached,      \* the entry it found in the cache
  chain,       \* redirect_chain
  response,    \* the answer to its last request
  chunks,      \* chunks read of the body
  outcome,     \* what acquire() came to: "result" or the code of an error
  delivered,   \* the AdapterResult
  late         \* its network operations that ended after it was cancelled

origin == <<content, editions>>
local  == <<cached, chain, response, chunks>>
end    == <<outcome, delivered>>
vars   == <<origin, now, cache, pc, request, cancelled, local, end, late>>
-----------------------------------------------------------------------------
(* Data.                                                                   *)

\* An edition stands for its bytes.
NoContent == [edition |-> 0, kind |-> "empty"]

\* The ETag and the date of what resource k held as edition e, 0 for nothing.
TagOf(k, e)  == IF e = 0 THEN 0 ELSE ETag[k][e]
DateOf(k, e) == IF e = 0 THEN 0 ELSE LastModified[k][e]

\* etag and modified are the headers, 0 without one.
Entry   == [url : Urls, edition : Editions, kind : AllKinds,
            etag : Nat, modified : Nat, stored_at : Nat]
NoEntry == [url |-> "none"]

Statuses == {"ok", "not_modified", "redirect", "forbidden", "rate_limited",
             "server_error", "client_error", "other"}

\* "cut" is a body shorter than its Content-Length.  edition is what the
\* resource holds when the origin answers, which no header tells.
Response == [status : Statuses, location : Urls \cup {"none"}, edition : Nat,
             kind : AllKinds \cup {"cut"}, etag : Nat, modified : Nat, stale : BOOLEAN]

NoResponse == [status |-> "other", location |-> "none", edition |-> 0, kind |-> "empty",
               etag |-> 0, modified |-> 0, stale |-> FALSE]

NoResult == [source |-> "none"]

Current(c) == IF chain[c] = <<>> THEN request[c].url ELSE chain[c][Len(chain[c])]

\* Mutant: the resource the acquisition starts from is not in visited.
VisitedOnlyDestinations(c) == {Key[chain[c][i]] : i \in DOMAIN chain[c]}

\* visited, once for every resource asked.
Visited(c) == {Key[request[c].url]} \cup {Key[chain[c][i]] : i \in DOMAIN chain[c]}

\* The validators that go with every request of the acquisition, wherever it
\* is redirected: the request's own, or else the entry's.
IfNoneMatch(c) ==
  IF request[c].own.etag # 0 THEN request[c].own.etag
  ELSE IF cached[c] # NoEntry THEN cached[c].etag ELSE 0
IfModifiedSince(c) ==
  IF request[c].own.modified # 0 THEN request[c].own.modified
  ELSE IF cached[c] # NoEntry THEN cached[c].modified ELSE 0

\* Mutant: the body is not validated.
ValidateNothing(r, kind) == "valid"

\* _validate_body: the fault it raises, in the order of its checks.
ValidateBody(r, kind) ==
  IF r.method = "HEAD" THEN "valid"
  ELSE IF kind = "empty" /\ "empty" \in r.checks THEN "empty_http_200"
  ELSE IF r.expected # {} /\ Media(kind) \notin r.expected THEN "unexpected_content_type"
  ELSE IF kind = "malformed_pdf" /\ "pdf" \in r.checks THEN "malformed_pdf"
  ELSE IF kind = "undecodable" THEN "charset_problem"
  ELSE IF kind = "shell" /\ "shell" \in r.checks THEN "javascript_empty_shell"
  ELSE "valid"

\* Mutant: an age of 0 counts as fresh, too.
IsFreshAtOnce(entry, max_age) == now - entry.stored_at <= max_age

IsFresh(entry, max_age) == max_age > 0 /\ now - entry.stored_at <= max_age

\* _cached_result
CachedResult(entry, source, redirects) ==
  [source |-> source, url |-> entry.url, edition |-> entry.edition, kind |-> entry.kind,
   redirects |-> redirects]

Init ==
  /\ content = [k \in Resources |-> NoContent]
  /\ editions = 0
  /\ now = 0
  /\ cache = [k \in CacheKeys |-> NoEntry]
  /\ pc = [c \in Clients |-> "idle"]
  /\ request \in [Clients -> Requests]
  /\ cancelled = [c \in Clients |-> FALSE]
  /\ cached = [c \in Clients |-> NoEntry]
  /\ chain = [c \in Clients |-> <<>>]
  /\ response = [c \in Clients |-> NoResponse]
  /\ chunks = [c \in Clients |-> 0]
  /\ outcome = [c \in Clients |-> "none"]
  /\ delivered = [c \in Clients |-> NoResult]
  /\ late = [c \in Clients |-> 0]
-----------------------------------------------------------------------------
(* The origin, the network and the clock: not part of the repository.      *)

Publish(k) ==
  /\ editions < MaxEditions
  /\ editions' = editions + 1
  /\ \E kind \in Kinds : content' = [content EXCEPT ![k] = [edition |-> editions + 1, kind |-> kind]]
  /\ UNCHANGED <<now, cache, pc, request, cancelled, local, end, late>>

\* Another owner of the cache calls delete(k) or clear().
Evict(k) ==
  /\ cache[k] # NoEntry
  /\ \/ cache' = [cache EXCEPT ![k] = NoEntry]
     \/ cache' = [j \in CacheKeys |-> NoEntry]
  /\ UNCHANGED <<origin, now, pc, request, cancelled, local, end, late>>

Tick ==
  /\ now < MaxTime
  /\ now' = now + 1
  /\ UNCHANGED <<origin, cache, pc, request, cancelled, local, end, late>>

\* The validators of a request match what the origin has: If-None-Match, when
\* there is one, decides alone.
Matches(c) ==
  LET k == Key[Current(c)]
      e == content[k].edition
  IN  e # 0 /\ IF IfNoneMatch(c) # 0 THEN IfNoneMatch(c) = TagOf(k, e)
                                     ELSE IfModifiedSince(c) >= DateOf(k, e)

Answer(status, location, kind) ==
  [status |-> status, location |-> location, edition |-> 0, kind |-> kind,
   etag |-> 0, modified |-> 0, stale |-> FALSE]

\* An answer about what the resource holds, with the validators offered.
About(c, status, kind, offer, stale) ==
  LET k == Key[Current(c)]
      e == content[k].edition
  IN  [status |-> status, location |-> "none", edition |-> e, kind |-> kind,
       etag |-> IF "etag" \in offer THEN TagOf(k, e) ELSE 0,
       modified |-> IF "modified" \in offer THEN DateOf(k, e) ELSE 0, stale |-> stale]

\* The content; any body may be cut.
Contents(c) ==
  {a \in {About(c, "ok", b, v, FALSE) : b \in {content[Key[Current(c)]].kind, "cut"}, v \in Offers} :
     a.edition # 0}

\* That it is not modified, which is true, or the ETag or the marker that comes
\* with it tells otherwise, as in the /stale-etag fixture.
NotModified(c) ==
  {a \in {About(c, "not_modified", "empty", v, m) : v \in Offers, m \in BOOLEAN} :
     IF Matches(c) THEN ~a.stale ELSE a.stale \/ (a.etag # 0 /\ IfNoneMatch(c) # 0)}

Redirections == {Answer("redirect", u, b) : u \in Urls \cup {"none"}, b \in {"empty", "cut"}}

RefusalAnswers == {Answer(t, "none", b) : t \in Refusals, b \in {"html", "cut"}}

Answers(c) == Contents(c) \cup NotModified(c) \cup Redirections \cup RefusalAnswers
-----------------------------------------------------------------------------
(* acquire()                                                               *)

\* acquire() goes on at p.
Goto(c, p) == pc' = [pc EXCEPT ![c] = p] /\ UNCHANGED end

ClearLocals(c) ==
  /\ cached' = [cached EXCEPT ![c] = NoEntry]
  /\ chain' = [chain EXCEPT ![c] = <<>>]
  /\ response' = [response EXCEPT ![c] = NoResponse]
  /\ chunks' = [chunks EXCEPT ![c] = 0]

\* acquire() returns or raises; its locals are gone.
Finish(c, code, result) ==
  /\ pc' = [pc EXCEPT ![c] = "done"]
  /\ outcome' = [outcome EXCEPT ![c] = code]
  /\ delivered' = [delivered EXCEPT ![c] = result]
  /\ ClearLocals(c)

Fail(c, code) == Finish(c, code, NoResult)

Busy(c) == pc[c] \notin {"idle", "done"}

\* A network operation of acquisition c is over.
Operated(c) == late' = [late EXCEPT ![c] = IF cancelled[c] THEN @ + 1 ELSE @]

BeginWith(c, r) ==
  /\ ~Busy(c)
  /\ request' = [request EXCEPT ![c] = r]
  /\ pc' = [pc EXCEPT ![c] = "start"]
  /\ cancelled' = [cancelled EXCEPT ![c] = FALSE]
  /\ outcome' = [outcome EXCEPT ![c] = "none"]
  /\ delivered' = [delivered EXCEPT ![c] = NoResult]
  /\ late' = [late EXCEPT ![c] = 0]
  /\ UNCHANGED <<origin, now, cache, local>>

Begin(c) == \E r \in Requests : BeginWith(c, r)

\* The engine sets the event; it may do so before acquire() looks at it.
Cancel(c) ==
  /\ Busy(c) /\ ~cancelled[c]
  /\ cancelled' = [cancelled EXCEPT ![c] = TRUE]
  /\ UNCHANGED <<origin, now, cache, pc, request, local, end, late>>

\* The first _check_cancelled, and the scheme and shape of the URL.
Start(c) ==
  /\ pc[c] = "start"
  /\ LET key == Key[request[c].url]
     IN  IF cancelled[c] THEN Fail(c, "cancelled")
         ELSE IF key = "relative" \/ request[c].url \in Foreign THEN Fail(c, "http_client_error")
         ELSE IF key = "malformed" THEN Fail(c, "ValueError")
         ELSE Goto(c, "lookup") /\ UNCHANGED local
  /\ UNCHANGED <<origin, now, cache, request, cancelled, late>>

\* cache.get; a fresh entry is the result.
Lookup(c) ==
  /\ pc[c] = "lookup"
  /\ LET r     == request[c]
         entry == IF r.use_cache THEN cache[<<r.method, Key[r.url]>>] ELSE NoEntry
     IN  IF entry # NoEntry /\ IsFresh(entry, r.max_age)
         THEN Finish(c, "result", CachedResult(entry, "fresh", 0))
         ELSE /\ cached' = [cached EXCEPT ![c] = entry]
              /\ Goto(c, "check")
              /\ UNCHANGED <<chain, response, chunks>>
  /\ UNCHANGED <<origin, now, cache, request, cancelled, late>>

\* Mutant: the body loop does not look at the event.
SeesBeforeTransport(c) == cancelled[c] /\ pc[c] = "check"

SeesCancellation(c) == cancelled[c]

\* _check_cancelled at the head of the redirect loop and of the body loop.
Check(c) ==
  /\ pc[c] \in {"check", "read_check"}
  /\ IF SeesCancellation(c) THEN Fail(c, "cancelled")
     ELSE Goto(c, IF pc[c] = "check" THEN "open" ELSE "read") /\ UNCHANGED local
  /\ UNCHANGED <<origin, now, cache, request, cancelled, late>>

\* opener.open returns the status and the headers.  HEAD and 304 have no body.
Receive(c, a) ==
  /\ pc[c] = "open"
  /\ response' = [response EXCEPT ![c] = a]
  /\ Goto(c, IF request[c].method = "HEAD" \/ a.status = "not_modified"
             THEN "classify" ELSE "read_check")
  /\ chunks' = [chunks EXCEPT ![c] = 0]
  /\ Operated(c)
  /\ UNCHANGED <<origin, now, cache, request, cancelled, cached, chain>>

Open(c) == pc[c] = "open" /\ Current(c) \notin Foreign /\ \E a \in Answers(c) : Receive(c, a)

\* response.read: a chunk, or the end of the body and its length.
ReadChunk(c) ==
  /\ pc[c] = "read" /\ chunks[c] < MaxChunks
  /\ chunks' = [chunks EXCEPT ![c] = @ + 1]
  /\ Goto(c, "read_check")
  /\ Operated(c)
  /\ UNCHANGED <<origin, now, cache, request, cancelled, cached, chain, response>>

ReadEnd(c) ==
  /\ pc[c] = "read"
  /\ IF response[c].kind = "cut" THEN Fail(c, "truncated_body")
                                 ELSE Goto(c, "classify") /\ UNCHANGED local
  /\ Operated(c)
  /\ UNCHANGED <<origin, now, cache, request, cancelled>>

\* Mutant: only opening the connection times out.
InterruptibleOpening == {"open"}

Interruptible == {"open", "read"}

\* The operation times out or the network fails.
FaultWith(c, code) ==
  /\ pc[c] \in Interruptible
  /\ Fail(c, code)
  /\ Operated(c)
  /\ UNCHANGED <<origin, now, cache, request, cancelled>>

NetworkFault(c) == \E code \in {"slow_response_timeout", "network_exception"} : FaultWith(c, code)

\* A redirect may lead to any scheme urllib opens.  What is not HTTP has no
\* status, and int(None) raises what no handler of _single_request catches.
NoStatus(c) == pc[c] = "open" /\ Current(c) \in Foreign /\ FaultWith(c, "TypeError")

\* Mutant: the limit is one redirect further.
TooManyLate(followed) == Len(followed) > MaxRedirects + 1

TooMany(followed) == Len(followed) > MaxRedirects

\* A URL may be so malformed that urljoin raises; normalize_cache_key raising
\* is caught.
InvalidTarget(target) ==
  IF target # "none" /\ Key[target] = "malformed" THEN {"http_client_error", "ValueError"}
                                                  ELSE {"http_client_error"}

Redirect(c) ==
  /\ pc[c] = "classify" /\ response[c].status = "redirect"
  /\ LET target   == response[c].location
         followed == Append(chain[c], target)
     IN  IF target = "none" \/ Key[target] \in Invalid
         THEN \E code \in InvalidTarget(target) : Fail(c, code)
         ELSE IF Key[target] \in Visited(c) THEN Fail(c, "redirect_loop")
         ELSE IF TooMany(followed) THEN Fail(c, "too_many_redirects")
         ELSE /\ chain' = [chain EXCEPT ![c] = followed]
              /\ Goto(c, "check")
              /\ UNCHANGED <<cached, response, chunks>>
  /\ UNCHANGED <<origin, now, cache, request, cancelled, late>>

\* Mutant: the entry is read again when the 304 is there.
ConfirmedAgain(c) ==
  LET entry == cache[<<request[c].method, Key[request[c].url]>>]
  IN  IF entry = NoEntry THEN cached[c] ELSE entry

\* The entry a 304 confirms.
Confirmed(c) == cached[c]

\* A 304 that contradicts the entry it is to confirm.
Conflicts(entry, a) == a.stale \/ (a.etag # 0 /\ entry.etag # 0 /\ a.etag # entry.etag)

Revalidate(c) ==
  /\ pc[c] = "classify" /\ response[c].status = "not_modified"
  /\ IF cached[c] = NoEntry \/ Conflicts(Confirmed(c), response[c])
     THEN Fail(c, "stale_etag_cache")
     ELSE Finish(c, "result", CachedResult(Confirmed(c), "revalidated", Len(chain[c])))
  /\ UNCHANGED <<origin, now, cache, request, cancelled, late>>

Refusal(status) ==
  CASE status = "forbidden"    -> "http_403"
    [] status = "rate_limited" -> "http_429"
    [] status = "server_error" -> "http_server_error"
    [] OTHER                   -> "http_client_error"

Refused(c) ==
  /\ pc[c] = "classify" /\ response[c].status \in Refusals
  /\ Fail(c, Refusal(response[c].status))
  /\ UNCHANGED <<origin, now, cache, request, cancelled, late>>

\* Mutant: the body that HEAD does not have counts as cut.
BodyOfAny(c) == response[c].kind

\* HEAD reads no body.
Body(c) == IF request[c].method = "HEAD" THEN "empty" ELSE response[c].kind

BodyRejected(c) ==
  /\ pc[c] = "classify" /\ response[c].status = "ok"
  /\ LET fault == ValidateBody(request[c], Body(c))
     IN  fault # "valid" /\ Fail(c, fault)
  /\ UNCHANGED <<origin, now, cache, request, cancelled, late>>

HasValidators(x) == x.etag # 0 \/ x.modified # 0

Storable(r, a) == r.use_cache /\ r.method = "GET" /\ HasValidators(a)

\* The result, and the entry it leaves in the cache.
BodyAccepted(c) ==
  /\ pc[c] = "classify" /\ response[c].status = "ok"
  /\ ValidateBody(request[c], Body(c)) = "valid"
  /\ LET r == request[c]
         a == response[c]
         result == [source |-> "network", url |-> Current(c),
                    edition |-> a.edition, kind |-> Body(c), redirects |-> Len(chain[c])]
     IN  /\ Finish(c, "result", result)
         /\ cache' = IF Storable(r, a)
                     THEN [cache EXCEPT ![<<r.method, Key[r.url]>>] =
                             [url |-> result.url, edition |-> result.edition, kind |-> result.kind,
                              etag |-> a.etag, modified |-> a.modified, stored_at |-> now]]
                     ELSE cache
  /\ UNCHANGED <<origin, now, request, cancelled, late>>
-----------------------------------------------------------------------------
Local(c) ==
  \/ Start(c) \/ Lookup(c) \/ Check(c) \/ Redirect(c) \/ Revalidate(c) \/ Refused(c)
  \/ BodyRejected(c) \/ BodyAccepted(c)

Acquire(c) == Local(c) \/ Open(c) \/ ReadChunk(c) \/ ReadEnd(c) \/ NetworkFault(c) \/ NoStatus(c)

Next ==
  \/ \E c \in Clients : Begin(c) \/ Cancel(c) \/ Acquire(c)
  \/ \E k \in Resources : Publish(k)
  \/ \E k \in CacheKeys : Evict(k)
  \/ Tick

Spec == Init /\ [][Next]_vars

\* The adapter's own steps are taken; the origin may be silent for ever, but
\* an operation that waits for it times out.
FairSpec == Spec /\ \A c \in Clients : WF_vars(Local(c)) /\ WF_vars(NetworkFault(c))
-----------------------------------------------------------------------------
(* Properties.                                                             *)

Results == {NoResult} \cup [source : {"network", "fresh", "revalidated"}, url : Urls,
                            edition : Nat, kind : AllKinds, redirects : Nat]

Codes == {"none", "result", "cancelled", "http_client_error", "ValueError", "TypeError", "truncated_body",
          "slow_response_timeout", "network_exception", "redirect_loop", "too_many_redirects",
          "stale_etag_cache", "http_403", "http_429", "http_server_error", "empty_http_200",
          "unexpected_content_type", "malformed_pdf", "charset_problem", "javascript_empty_shell"}

\* Every variable has its type.
TypeOK ==
  /\ content \in [Resources -> [edition : 0..editions, kind : AllKinds]]
  /\ editions \in 0..MaxEditions /\ now \in 0..MaxTime
  /\ cache \in [CacheKeys -> {NoEntry} \cup Entry]
  /\ pc \in [Clients -> {"idle", "start", "lookup", "check", "open", "read_check", "read",
                         "classify", "done"}]
  /\ request \in [Clients -> Requests]
  /\ cancelled \in [Clients -> BOOLEAN]
  /\ cached \in [Clients -> {NoEntry} \cup Entry]
  /\ chain \in [Clients -> Seq(Urls)]
  /\ response \in [Clients -> Response]
  /\ chunks \in [Clients -> 0..MaxChunks]
  /\ outcome \in [Clients -> Codes]
  /\ delivered \in [Clients -> Results]
  /\ late \in [Clients -> Nat]

\* No redirect makes an acquisition ask for a resource twice, under whatever
\* spelling, or send more than max_redirects + 1 requests.
RedirectsBounded ==
  \A c \in Clients : pc[c] = "open" =>
    LET asked == <<request[c].url>> \o chain[c]
    IN  /\ Len(asked) <= MaxRedirects + 1
        /\ \A i, j \in DOMAIN asked : Key[asked[i]] = Key[asked[j]] => i = j

\* The validator HTTP compares the entry by is also that of edition e of
\* resource k, though the entry is of another resource or an older edition.
Coincides(entry, k, e) ==
  LET j == Key[entry.url]
      d == entry.edition
  IN  /\ j = k => d < e
      /\ IF entry.etag # 0 THEN TagOf(j, d) = TagOf(k, e) ELSE DateOf(j, d) >= DateOf(k, e)

\* Whatever is published, stored or evicted meanwhile, a result served after a
\* 304 is what the resource that answered held when it answered.  It is
\* something else only where HTTP cannot tell: the caller sent validators of
\* its own, or the resource has the very ETag of the entry, or no later date,
\* though the entry came from another resource (a redirect has changed since)
\* or is an older edition (a weak ETag, a date within the second).
RevalidatedIsCurrent ==
  [][\A c \in Clients : pc[c] = "classify" /\ delivered'[c].source = "revalidated" =>
       \/ request[c].own # [etag |-> 0, modified |-> 0]
       \/ /\ Key[delivered'[c].url] = Key[Current(c)]
          /\ delivered'[c].edition = response[c].edition
       \/ /\ delivered'[c].edition = cached[c].edition
          /\ Coincides(cached[c], Key[Current(c)], response[c].edition)]_vars

\* A body a request can do with: decodable, of a media type it expects, and
\* without the defects it has checked.
Acceptable(r, kind) ==
  /\ kind \notin {"cut", "undecodable"}
  /\ r.expected = {} \/ Media(kind) \in r.expected
  /\ "empty" \in r.checks => kind # "empty"
  /\ "pdf" \in r.checks => kind # "malformed_pdf"
  /\ "shell" \in r.checks => kind # "shell"

\* The cache holds nothing but bodies that are complete and acceptable to a
\* GET request for the very resource, whoever put them there.
OnlyValidatedCached ==
  \A k \in CacheKeys : cache[k] # NoEntry =>
    /\ HasValidators(cache[k])
    /\ \E r \in Requests : /\ <<r.method, Key[r.url]>> = k /\ r.method = "GET" /\ r.use_cache
                           /\ Acceptable(r, cache[k].kind)

\* After its cancellation an acquisition ends no network operation but the one
\* it is in, not even to follow a redirect or to read on.
CancelStops == \A c \in Clients : late[c] <= 1

\* The most steps that are left of an acquisition: until the answer to its last
\* request is dealt with, and for each redirect it may still follow.
StepsPerRequest == 2 * MaxChunks + 5
StepsToNextAnswer(c) ==
  CASE pc[c] = "classify"   -> 1
    [] pc[c] = "read"       -> 2 * (MaxChunks - chunks[c]) + 2
    [] pc[c] = "read_check" -> 2 * (MaxChunks - chunks[c]) + 3
    [] pc[c] = "open"       -> 2 * MaxChunks + 4
    [] pc[c] = "check"      -> StepsPerRequest
    [] pc[c] = "lookup"     -> StepsPerRequest + 1
    [] pc[c] = "start"      -> StepsPerRequest + 2
    [] OTHER                -> 0
StepsLeft(c) ==
  IF Busy(c) THEN StepsToNextAnswer(c) + (MaxRedirects - Len(chain[c])) * StepsPerRequest ELSE 0

\* The number of redirects and chunks alone bounds an acquisition: what it does
\* brings it nearer to its end, and what others do (a new edition, an entry
\* stored or evicted, its cancellation) costs it no step.
StepsRunOut ==
  [][\A c \in Clients : Busy(c) =>
       \/ pc'[c] = pc[c] /\ StepsLeft(c)' = StepsLeft(c)
       \/ StepsLeft(c)' \in 0..StepsLeft(c) - 1]_vars

\* An acquisition ends, however the origin redirects it, feeds it or leaves it
\* waiting.
AcquisitionEnds == \A c \in Clients : Busy(c) ~> ~Busy(c)
=============================================================================
