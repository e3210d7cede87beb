------------------------------ MODULE SuiteProofs ------------------------------
(***************************************************************************)
(* For suites of any length and order, with any faults: no scenario fails  *)
(* for the sake of another.                                                *)
(***************************************************************************)
EXTENDS ConformanceInductive, ConformanceProofs, FiniteSetTheorems
-----------------------------------------------------------------------------
(* What is asked for, and what the fixtures answer.                        *)

\* Every URL has a fixture and a key, and is its own key but for one.
LEMMA UrlFacts ==
  ASSUME NEW u \in FixtureUrls
  PROVE  /\ PathOf(u) \in Paths
         /\ FixtureKey[u] \in FixtureUrls /\ FixtureKey[u] \notin {"relative", "malformed"}
         /\ u \in Paths => FixtureKey[u] = u /\ PathOf(u) = u
<1>1. CASE u \in Paths
  <2>1. u \notin Queried /\ u \notin {"relative", "malformed"}
    BY <1>1 DEF Paths, Queried
  <2>. QED
    BY <1>1, <2>1 DEF PathOf, FixtureKey, FixtureUrls, Queried
<1>2. CASE u \in Queried
  BY <1>2 DEF Queried, PathOf, FixtureKey, FixtureUrls, Paths
<1>. QED
  BY <1>1, <1>2 DEF FixtureUrls

LEMMA HttpConstants ==
  /\ Http!Urls = FixtureUrls
  /\ Http!Resources = {FixtureKey[u] : u \in FixtureUrls}
  /\ Http!CacheKeys = {"GET", "HEAD"} \X {FixtureKey[u] : u \in FixtureUrls}
  /\ Stale \in Http!CacheKeys
<1>1. Http!Urls = FixtureUrls
  BY DEF Http!Urls, FixtureKey
<1>2. Http!Resources = {FixtureKey[u] : u \in FixtureUrls}
  BY <1>1, UrlFacts DEF Http!Resources, Http!Invalid
<1>3. "/stale-etag" \in FixtureUrls /\ "/stale-etag" \in Paths
  BY DEF FixtureUrls, Paths
<1>. QED
  BY <1>1, <1>2, <1>3, UrlFacts DEF Http!CacheKeys, Stale

LEMMA MovedFacts ==
  /\ DOMAIN Moved = {"/redirect", "/redirect-loop-a", "/redirect-loop-b", "/moved"}
  /\ Moved["/redirect"] = "/ok" /\ Moved["/moved"] = "/canonical"
  /\ Moved["/redirect-loop-a"] = "/redirect-loop-b"
  /\ Moved["/redirect-loop-b"] = "/redirect-loop-a"
  /\ \A u \in DOMAIN Moved : u \in Paths /\ Moved[u] \in Paths /\ Moved[u] # u
  BY DEF Moved, Paths

\* A step that asks for something asks for URLs that are there.
LEMMA ScriptFacts ==
  ASSUME NEW s \in Scenarios \cup FixtureUrls
  PROVE  /\ Script(s) \in Seq(FixtureUrls) /\ Len(Script(s)) > 0
         /\ s \in FixtureUrls => Script(s) = <<s>>
<1>1. CASE s \in DOMAIN ErrorScenario
  BY <1>1 DEF Script, ErrorScenario, FixtureUrls, Paths, Queried
<1>2. CASE s \in DOMAIN LongScenario
  <2>1. Script(s) = LongScenario[s] /\ s \notin FixtureUrls
    BY <1>2 DEF Script, ErrorScenario, LongScenario, FixtureUrls, Paths, Queried
  <2>2. /\ s = "redirect" => Script(s) = <<"/redirect">>
        /\ s = "content-type-switch" => Script(s) = <<"/content-switch", "/content-switch">>
        /\ s = "stale-etag-cache" => Script(s) = <<"/stale-etag", "/stale-etag">>
        /\ s = "duplicate-urls" => Script(s) = <<"/duplicate-urls", "/ok?b=2&a=1",
                                                "/ok?a=1&b=2#display-only", "/ok?a=1&b=3">>
        /\ s = "moved-canonical-url" => Script(s) = <<"/moved">>
        /\ s = "partial-batch-failure" => Script(s) = <<"/partial-batch", "/ok", "/server-error", "/pdf">>
    BY <2>1 DEF LongScenario
  <2>3. {"/redirect", "/content-switch", "/stale-etag", "/duplicate-urls", "/ok?b=2&a=1",
         "/ok?a=1&b=2#display-only", "/ok?a=1&b=3", "/moved", "/partial-batch", "/ok",
         "/server-error", "/pdf"} \subseteq FixtureUrls
    BY DEF FixtureUrls, Paths, Queried
  <2>. QED
    BY <1>2, <2>1, <2>2, <2>3 DEF LongScenario
<1>3. CASE s \in FixtureUrls
  <2>1. s \notin DOMAIN ErrorScenario /\ s \notin DOMAIN LongScenario
    BY <1>3 DEF ErrorScenario, LongScenario, FixtureUrls, Paths, Queried
  <2>. QED
    BY <1>3, <2>1 DEF Script
<1>. QED
  BY <1>1, <1>2, <1>3 DEF Scenarios

\* An answer of a fixture that sends an ETag.
LEMMA TaggedAnswer ==
  ASSUME NEW s \in {"ok", "not_modified"}, NEW e \in {1, 2}, NEW m \in BOOLEAN,
         NEW a, a = SendTagged(s, e, m)
  PROVE  /\ a \in Http!Response /\ a # NoReply
         /\ a.status = s /\ a.edition = e /\ a.stale = m /\ a.etag = e /\ a.modified = 0
         /\ a.kind = (IF s = "ok" THEN "data" ELSE "empty")
<1>1. CASE s = "ok"
  <2>1. a = [status |-> "ok", location |-> "none", edition |-> e, kind |-> "data",
             etag |-> e, modified |-> 0, stale |-> m]
    BY <1>1 DEF SendTagged
  <2>2. a \in Http!Response
    BY <2>1 DEF Http!Response, Http!Statuses, Http!AllKinds
  <2>. QED
    BY <1>1, <2>1, <2>2 DEF NoReply
<1>2. CASE s = "not_modified"
  <2>1. a = [status |-> "not_modified", location |-> "none", edition |-> e, kind |-> "empty",
             etag |-> e, modified |-> 0, stale |-> m]
    BY <1>2 DEF SendTagged
  <2>2. a \in Http!Response
    BY <2>1 DEF Http!Response, Http!Statuses, Http!AllKinds
  <2>. QED
    BY <1>2, <2>1, <2>2 DEF NoReply
<1>. QED
  BY <1>1, <1>2

\* What an answer may be, by the path asked.
LEMMA DispatchFacts ==
  ASSUME NEW path \in Paths, NEW hit \in Nat, NEW etag \in Nat, NEW a, a = Dispatch(path, hit, etag)
  PROVE  /\ a \in Http!Response /\ a # NoReply
         /\ a.status = "redirect" <=> path \in DOMAIN Moved
         /\ path \in DOMAIN Moved => a.location = Moved[path]
         /\ a.status = "not_modified" => path \in Tagged /\ etag # 0
         /\ a.modified = 0 /\ (a.etag # 0 <=> path \in Tagged)
         /\ path \in Tagged => a.status \in {"ok", "not_modified"}
         /\ path \in Tagged /\ a.status = "ok" =>
              a.edition = 1 /\ a.kind = "data" /\ a.etag = 1 /\ a.modified = 0
         /\ path = "/stale-etag" =>
              IF etag # 0 THEN a.status = "not_modified" /\ a.stale ELSE a.status = "ok"
         /\ path \notin DOMAIN Moved \cup Tagged => a = Send(Status(path), Content(path, hit))
         /\ a.kind = "cut" <=> path = "/truncated"
<1>0. /\ DOMAIN Moved \cap Tagged = {} /\ "/truncated" \notin DOMAIN Moved \cup Tagged
      /\ "/etag" \in Tagged /\ "/stale-etag" \in Tagged
      /\ Tagged = {"/etag", "/stale-etag"}
  BY MovedFacts DEF Tagged
<1>1. CASE path \in DOMAIN Moved
  <2>1. a = [Send("redirect", "empty") EXCEPT !.location = Moved[path]]
    BY <1>0, <1>1 DEF Dispatch
  <2>2. a = [status |-> "redirect", location |-> Moved[path], edition |-> 0, kind |-> "empty",
             etag |-> 0, modified |-> 0, stale |-> FALSE]
    BY <2>1 DEF Send
  <2>3. Moved[path] \in Http!Urls
    BY <1>1, MovedFacts, HttpConstants DEF FixtureUrls
  <2>4. a \in Http!Response
    BY <2>2, <2>3 DEF Http!Response, Http!Statuses, Http!AllKinds
  <2>5. a # NoReply
    BY <2>2 DEF NoReply
  <2>. QED
    BY <1>0, <1>1, <2>2, <2>4, <2>5
<1>2. CASE path \in Tagged
  <2>1. CASE path = "/etag" /\ etag = 1
    <3>1. a = SendTagged("not_modified", 1, FALSE)
      BY <1>0, <2>1, Zenon DEF Dispatch
    <3>2. /\ a \in Http!Response /\ a # NoReply /\ a.status = "not_modified" /\ a.edition = 1
          /\ a.etag = 1 /\ a.modified = 0 /\ a.kind = "empty"
      BY <3>1, TaggedAnswer, FALSE \in BOOLEAN, Zenon
    <3>. QED
      BY <1>0, <2>1, <3>2
  <2>2. CASE path = "/etag" /\ etag # 1
    <3>1. a = SendTagged("ok", 1, FALSE)
      BY <1>0, <2>2 DEF Dispatch
    <3>2. /\ a \in Http!Response /\ a # NoReply /\ a.status = "ok" /\ a.edition = 1
          /\ a.etag = 1 /\ a.modified = 0 /\ a.kind = "data"
      BY <3>1, TaggedAnswer, FALSE \in BOOLEAN, Zenon
    <3>. QED
      BY <1>0, <2>2, <3>2
  <2>3. CASE path = "/stale-etag" /\ etag # 0
    <3>1. a = SendTagged("not_modified", 2, TRUE)
      BY <1>0, <2>3 DEF Dispatch
    <3>2. /\ a \in Http!Response /\ a # NoReply /\ a.status = "not_modified" /\ a.stale
          /\ a.etag = 2 /\ a.modified = 0 /\ a.kind = "empty"
      BY <3>1, TaggedAnswer
    <3>. QED
      BY <1>0, <2>3, <3>2
  <2>4. CASE path = "/stale-etag" /\ etag = 0
    <3>1. a = SendTagged("ok", 1, FALSE)
      BY <1>0, <2>4 DEF Dispatch
    <3>2. /\ a \in Http!Response /\ a # NoReply /\ a.status = "ok" /\ a.edition = 1
          /\ a.etag = 1 /\ a.modified = 0 /\ a.kind = "data"
      BY <3>1, TaggedAnswer, FALSE \in BOOLEAN, Zenon
    <3>. QED
      BY <1>0, <2>4, <3>2
  <2>. QED
    BY <1>0, <1>2, <2>1, <2>2, <2>3, <2>4
<1>3. CASE path \notin DOMAIN Moved \cup Tagged
  <2>1. a = Send(Status(path), Content(path, hit))
    BY <1>0, <1>3 DEF Dispatch
  <2>2. Status(path) \in {"forbidden", "rate_limited", "server_error", "client_error", "ok"}
    BY DEF Status
  <2>3. Content(path, hit) \in Http!AllKinds \cup {"cut"}
        /\ (Content(path, hit) = "cut" <=> path = "/truncated")
    BY DEF Content, Phase, Http!AllKinds
  <2>4. a \in Http!Response
    BY <2>1, <2>2, <2>3 DEF Send, Http!Response, Http!Statuses
  <2>5. a # NoReply
    BY <2>1, <2>2 DEF Send, NoReply
  <2>. QED
    BY <1>0, <1>3, <2>1, <2>2, <2>3, <2>4, <2>5 DEF Send
<1>. QED
  BY <1>1, <1>2, <1>3

\* Of a counter only the parity counts.
LEMMA ParityCounts ==
  ASSUME NEW path \in Paths, NEW hit \in Nat, NEW etag \in Nat
  PROVE  /\ \E h \in {1, 2} : Dispatch(path, hit, etag) = Dispatch(path, h, etag)
         /\ path = "/content-switch" => Dispatch(path, hit, etag).kind = Phase(hit)
<1>1. hit % 2 \in {0, 1}
  OBVIOUS
<1>2. Phase(hit) = Phase(IF hit % 2 = 1 THEN 1 ELSE 2)
  BY <1>1 DEF Phase
<1>3. Content(path, hit) = Content(path, IF hit % 2 = 1 THEN 1 ELSE 2)
  BY <1>2 DEF Content
<1>4. Dispatch(path, hit, etag) = Dispatch(path, IF hit % 2 = 1 THEN 1 ELSE 2, etag)
  BY <1>3 DEF Dispatch
<1>5. path = "/content-switch" => path \notin DOMAIN Moved \cup Tagged
  BY MovedFacts DEF Tagged
<1>6. path = "/content-switch" => Dispatch(path, hit, etag) = Send(Status(path), Phase(hit))
  BY <1>5, DispatchFacts DEF Content
<1>. QED
  BY <1>4, <1>6 DEF Send
-----------------------------------------------------------------------------
(* The adapter of the programs.                                            *)

IInv == ServerInv /\ SuiteInv

\* What it is asked for.
LEMMA RequestFacts ==
  ASSUME Http!TypeOK
  PROVE  /\ url \in FixtureUrls
         /\ request[Runner].method = "GET" /\ request[Runner].use_cache /\ request[Runner].max_age = 0
         /\ request[Runner].own.etag = 0
         /\ request[Runner].checks = {"empty", "pdf", "shell"}
         /\ request[Runner].expected \in {{}, {"data"}}
         /\ request[Runner].expected # {} => url = "/redirect"
<1>1. request[Runner] \in FixtureRequests
  BY DEF Http!TypeOK
<1>2. "/redirect" \in FixtureUrls
  BY DEF FixtureUrls, Paths
<1>. QED
  BY <1>1, <1>2 DEF FixtureRequests, RequestTo, url

\* Where it asks, and with what ETag.
LEMMA AskedFacts ==
  ASSUME Http!TypeOK, Redirected
  PROVE  /\ Http!Current(Runner) \in FixtureUrls /\ Asked \in Paths
         /\ IF chain[Runner] = <<>>
            THEN Http!Current(Runner) = url /\ Asked = PathOf(url) /\ Len(chain[Runner]) = 0
            ELSE /\ url \in DOMAIN Moved /\ chain[Runner] = <<Moved[url]>>
                 /\ Http!Current(Runner) = Moved[url] /\ Asked = Moved[url] /\ Len(chain[Runner]) = 1
<1>1. url \in FixtureUrls
  BY RequestFacts
<1>2. CASE chain[Runner] = <<>>
  BY <1>1, <1>2, UrlFacts DEF Asked, Http!Current, url
<1>3. CASE chain[Runner] # <<>>
  <2>1. url \in DOMAIN Moved /\ chain[Runner] = <<Moved[url]>>
    BY <1>3 DEF Redirected
  <2>2. Http!Current(Runner) = Moved[url] /\ Len(chain[Runner]) = 1
    BY <2>1 DEF Http!Current
  <2>3. Moved[url] \in Paths
    BY <2>1, MovedFacts
  <2>4. PathOf(Moved[url]) = Moved[url]
    BY <2>3, UrlFacts DEF FixtureUrls
  <2>. QED
    BY <1>3, <2>1, <2>2, <2>3, <2>4 DEF Asked, FixtureUrls
<1>. QED
  BY <1>2, <1>3

\* A path may be asked under some URLs only.
LEMMA AskedFrom ==
  ASSUME Http!TypeOK, Redirected
  PROVE  /\ Asked = "/slow" => url \in {"/slow", "/slow?delay=0.20"}
         /\ Asked \notin {"/ok", "/canonical", "/redirect-loop-a", "/redirect-loop-b", "/slow"} =>
              url = Asked /\ chain[Runner] = <<>>
         /\ Asked \in DOMAIN Moved => url \in DOMAIN Moved
<1>1. url \in FixtureUrls
  BY RequestFacts
<1>2. CASE chain[Runner] = <<>>
  BY <1>1, <1>2, AskedFacts, MovedFacts DEF PathOf, FixtureUrls, Queried
<1>3. CASE chain[Runner] # <<>>
  BY <1>3, AskedFacts, MovedFacts
<1>. QED
  BY <1>2, <1>3

\* What is in the cache for the URL asked, and the ETag that goes with it.
LEMMA EntryFacts ==
  ASSUME Http!TypeOK, CacheHolds
  PROVE  LET key   == <<"GET", FixtureKey[url]>>
             entry == cache[key]
         IN  /\ key \in Http!CacheKeys
             /\ entry # Http!NoEntry =>
                  url \in Tagged /\ FixtureKey[url] = url /\ entry = Stored(url)
<1>1. url \in FixtureUrls
  BY RequestFacts
<1>2. <<"GET", FixtureKey[url]>> \in Http!CacheKeys
  BY <1>1, HttpConstants
<1>3. FixtureKey[url] \in Tagged => FixtureKey[url] = url
  BY <1>1 DEF FixtureKey, Tagged
<1>. QED
  BY <1>2, <1>3 DEF CacheHolds

LEMMA TagFacts ==
  ASSUME Http!TypeOK, CacheHolds, LookedUp, place \in Asking
  PROVE  /\ IF cached[Runner] = Http!NoEntry THEN Http!IfNoneMatch(Runner) = 0
            ELSE /\ url \in Tagged /\ cached[Runner] = Stored(url)
                 /\ Http!IfNoneMatch(Runner) = 1
         /\ Http!IfNoneMatch(Runner) \in Nat
<1>1. request[Runner].own.etag = 0
  BY RequestFacts
<1>2. cached[Runner] # Http!NoEntry => url \in Tagged /\ cached[Runner] = Stored(url)
  BY EntryFacts DEF LookedUp
<1>3. cached[Runner] = Http!NoEntry => Http!IfNoneMatch(Runner) = 0
  BY <1>1 DEF Http!IfNoneMatch
<1>4. cached[Runner] # Http!NoEntry => Http!IfNoneMatch(Runner) = 1
  BY <1>1, <1>2 DEF Http!IfNoneMatch, Stored
<1>. QED
  BY <1>2, <1>3, <1>4

Places == {"idle", "start", "lookup", "check", "open", "read_check", "read", "classify", "done"}

\* acquire() goes on at p.
LEMMA Going ==
  ASSUME Http!TypeOK, NEW p \in Places, Http!Goto(Runner, p)
  PROVE  /\ place' = p /\ pc' \in [{Runner} -> Places]
         /\ UNCHANGED <<outcome, delivered>>
BY DEF Http!TypeOK, Http!Goto, Http!end, place, Places

\* acquire() returns or raises.
LEMMA Ending ==
  ASSUME Http!TypeOK, NEW code \in Http!Codes, NEW result \in Http!Results,
         Http!Finish(Runner, code, result)
  PROVE  /\ place' = "done" /\ chain[Runner]' = <<>> /\ cached[Runner]' = Http!NoEntry
         /\ outcome[Runner]' = code /\ delivered[Runner]' = result
         /\ pc' \in [{Runner} -> Places]
         /\ outcome' \in [{Runner} -> Http!Codes] /\ delivered' \in [{Runner} -> Http!Results]
         /\ cached' \in [{Runner} -> {Http!NoEntry} \cup Http!Entry]
         /\ chain' \in [{Runner} -> Seq(FixtureUrls)]
         /\ response' \in [{Runner} -> Http!Response] /\ chunks' \in [{Runner} -> 0..0]
<1>1. Http!NoResponse \in Http!Response
  BY DEF Http!NoResponse, Http!Response, Http!Statuses, Http!AllKinds
<1>2. pc' \in [{Runner} -> Places] /\ place' = "done"
  BY DEF Http!TypeOK, Http!Finish, place, Places
<1>3. /\ outcome' \in [{Runner} -> Http!Codes] /\ delivered' \in [{Runner} -> Http!Results]
      /\ outcome[Runner]' = code /\ delivered[Runner]' = result
  BY DEF Http!TypeOK, Http!Finish
<1>4. /\ cached' \in [{Runner} -> {Http!NoEntry} \cup Http!Entry]
      /\ chain' \in [{Runner} -> Seq(FixtureUrls)]
      /\ response' \in [{Runner} -> Http!Response] /\ chunks' \in [{Runner} -> 0..0]
      /\ chain[Runner]' = <<>> /\ cached[Runner]' = Http!NoEntry
  BY <1>1, HttpConstants DEF Http!TypeOK, Http!Finish, Http!ClearLocals
<1>. QED
  BY <1>2, <1>3, <1>4

\* The types of the adapter, one by one.
LEMMA AdapterTypes ==
  ASSUME Http!TypeOK,
         cache' \in [Http!CacheKeys -> {Http!NoEntry} \cup Http!Entry],
         pc' \in [{Runner} -> Places],
         request' \in [{Runner} -> FixtureRequests],
         cancelled' \in [{Runner} -> BOOLEAN],
         cached' \in [{Runner} -> {Http!NoEntry} \cup Http!Entry],
         chain' \in [{Runner} -> Seq(FixtureUrls)],
         response' \in [{Runner} -> Http!Response],
         chunks' \in [{Runner} -> 0..0],
         outcome' \in [{Runner} -> Http!Codes],
         delivered' \in [{Runner} -> Http!Results],
         late' \in [{Runner} -> Nat]
  PROVE  Http!TypeOK'
BY HttpConstants DEF Http!TypeOK, Places

LEMMA AdapterTyped ==
  ASSUME Http!TypeOK
  PROVE  /\ cache \in [Http!CacheKeys -> {Http!NoEntry} \cup Http!Entry]
         /\ pc \in [{Runner} -> Places]
         /\ request \in [{Runner} -> FixtureRequests]
         /\ cancelled \in [{Runner} -> BOOLEAN]
         /\ cached \in [{Runner} -> {Http!NoEntry} \cup Http!Entry]
         /\ chain \in [{Runner} -> Seq(FixtureUrls)]
         /\ response \in [{Runner} -> Http!Response]
         /\ chunks \in [{Runner} -> 0..0]
         /\ outcome \in [{Runner} -> Http!Codes]
         /\ delivered \in [{Runner} -> Http!Results]
         /\ late \in [{Runner} -> Nat]
BY HttpConstants DEF Http!TypeOK, Places

-----------------------------------------------------------------------------
(* The end of an acquisition.                                              *)

\* The code a URL comes to when nothing is cached for it.
CodeOf(u) ==
  CASE u = "/empty-200"       -> "empty_http_200"
    [] u \in {"/redirect-loop-a", "/redirect-loop-b"} -> "redirect_loop"
    [] u = "/forbidden"       -> "http_403"
    [] u = "/rate-limited"    -> "http_429"
    [] u = "/server-error"    -> "http_server_error"
    [] u = "/unknown"         -> "http_client_error"
    [] u \in {"/slow", "/slow?delay=0.20"} -> "slow_response_timeout"
    [] u = "/malformed-pdf"   -> "malformed_pdf"
    [] u = "/truncated"       -> "truncated_body"
    [] u \in {"/javascript-shell", "/javascript-shell-marker"} -> "javascript_empty_shell"
    [] u = "/charset-problem" -> "charset_problem"
    [] u = "/network-exception" -> "network_exception"
    [] OTHER                  -> "result"

\* What the acquisition comes to, whatever was acquired before.
Verdict(code, result) ==
  /\ code = IF url = "/stale-etag" /\ cached[Runner] # Http!NoEntry THEN "stale_etag_cache"
            ELSE CodeOf(url)
  /\ code = "result" =>
       /\ url \in DOMAIN Moved => result.url = Moved[url] /\ result.redirects = 1
       /\ url = "/content-switch" => result.kind = response[Runner].kind

\* An answer that has come is the fixture's.
LEMMA AnswerFacts ==
  ASSUME Http!TypeOK, CacheHolds, Redirected, LookedUp, Answers, place \in Answering
  PROVE  LET a == response[Runner]
         IN  /\ Asked # "/network-exception"
             /\ a.status = "redirect" <=> Asked \in DOMAIN Moved
             /\ Asked \in DOMAIN Moved => a.location = Moved[Asked]
             /\ a.status = "not_modified" => Asked \in Tagged /\ cached[Runner] # Http!NoEntry
             /\ a.modified = 0 /\ (a.etag # 0 <=> Asked \in Tagged)
             /\ Asked \in Tagged => a.status \in {"ok", "not_modified"}
             /\ Asked \in Tagged /\ a.status = "ok" =>
                  a.edition = 1 /\ a.kind = "data" /\ a.etag = 1 /\ a.modified = 0
             /\ Asked = "/stale-etag" =>
                  IF cached[Runner] # Http!NoEntry THEN a.status = "not_modified" /\ a.stale
                                                   ELSE a.status = "ok"
             /\ Asked \notin DOMAIN Moved \cup Tagged =>
                  \E hit \in {1, 2} : a = Send(Status(Asked), Content(Asked, hit))
             /\ a.kind = "cut" <=> Asked = "/truncated"
<1>1. place \in Asking
  BY DEF Answering, Asking
<1>2. PICK hit \in {1, 2} : response[Runner] = Dispatch(Asked, hit, Http!IfNoneMatch(Runner))
  BY DEF Answers, FromFixture
<1>3. Asked # "/network-exception"
  BY DEF Answers, FromFixture
<1>4. Asked \in Paths /\ Http!IfNoneMatch(Runner) \in Nat /\ hit \in Nat
  BY <1>1, AskedFacts, TagFacts
<1>5. Http!IfNoneMatch(Runner) # 0 <=> cached[Runner] # Http!NoEntry
  BY <1>1, TagFacts
<1>. QED
  BY <1>2, <1>3, <1>4, <1>5, DispatchFacts

AdapterInv == Http!TypeOK /\ CacheHolds /\ Redirected /\ LookedUp /\ Answers

\* What a URL under which this path is asked comes to.
LEMMA CodeOfAsked ==
  ASSUME AdapterInv, Asked \notin DOMAIN Moved, Asked # "/slow"
  PROVE  /\ CodeOf(url) = CodeOf(Asked)
         /\ Asked \in {"/ok", "/canonical"} => CodeOf(Asked) = "result"
<1>1. CASE Asked \in {"/ok", "/canonical"}
  <2>1. url \in Queried \cup {"/ok", "/canonical"} \cup DOMAIN Moved
    BY <1>1, AskedFacts, RequestFacts DEF AdapterInv, PathOf, FixtureUrls
  <2>2. url \notin {"/redirect-loop-a", "/redirect-loop-b", "/slow?delay=0.20"}
    BY <1>1, AskedFacts, MovedFacts DEF AdapterInv, PathOf, Queried
  <2>. QED
    BY <1>1, <2>1, <2>2, MovedFacts DEF CodeOf, Queried
<1>2. CASE Asked \notin {"/ok", "/canonical"}
  BY <1>2, AskedFrom, MovedFacts DEF AdapterInv
<1>. QED
  BY <1>1, <1>2

\* The bodies that are not valid.
LEMMA BodyFacts ==
  ASSUME AdapterInv, place = "classify", response[Runner].status = "ok"
  PROVE  /\ Http!Body(Runner) = response[Runner].kind
         /\ Http!Body(Runner) \in Http!AllKinds
         /\ LET fault == Http!ValidateBody(request[Runner], Http!Body(Runner))
            IN  /\ fault \in Http!Codes \cup {"valid"} /\ fault # "result"
                /\ Asked = "/slow" \/ (IF fault = "valid" THEN "result" ELSE fault) = CodeOf(url)
<1> DEFINE a    == response[Runner]
           r    == request[Runner]
           kind == Http!Body(Runner)
<1>1. kind = a.kind
  BY RequestFacts DEF AdapterInv, Http!Body
<1>2. place \in Answering /\ a.kind # "cut" /\ a \in Http!Response
  BY AdapterTyped DEF AdapterInv, Answering, Answers
<1>3. /\ r.method = "GET" /\ r.checks = {"empty", "pdf", "shell"}
      /\ r.expected \in {{}, {"data"}} /\ (r.expected # {} => url = "/redirect")
  BY RequestFacts DEF AdapterInv
<1>4. Asked \notin DOMAIN Moved /\ Asked \notin {"/truncated", "/network-exception"}
  BY <1>2, AnswerFacts DEF AdapterInv
<1>5. url = "/redirect" => Asked = "/ok"
  BY <1>4, AskedFacts, MovedFacts DEF AdapterInv, PathOf, Queried
<1>6. kind \in Http!AllKinds
  BY <1>1, <1>2 DEF Http!Response
<1>7. CASE Asked \in Tagged
  <2>1. kind = "data" /\ r.expected = {}
    BY <1>1, <1>2, <1>3, <1>5, <1>7, AnswerFacts DEF AdapterInv, Tagged
  <2>2. Http!ValidateBody(r, kind) = "valid"
    BY <1>3, <2>1 DEF Http!ValidateBody
  <2>3. CodeOf(url) = "result"
    BY <1>4, <1>7, CodeOfAsked DEF Tagged, CodeOf
  <2>. QED
    BY <1>1, <1>6, <2>2, <2>3
<1>8. CASE Asked \notin Tagged
  <2>1. PICK hit \in {1, 2} : a = Send(Status(Asked), Content(Asked, hit))
    BY <1>2, <1>4, <1>8, AnswerFacts DEF AdapterInv
  <2>2. Status(Asked) = "ok" /\ kind = Content(Asked, hit)
    BY <1>1, <2>1 DEF Send
  <2>3. Asked \notin {"/forbidden", "/rate-limited", "/server-error", "/unknown"}
    BY <2>2 DEF Status
  <2>4. CodeOf(url) = CodeOf(Asked) \/ Asked = "/slow"
    BY <1>4, CodeOfAsked
  <2>5. CASE Asked \in {"/empty-200", "/malformed-pdf", "/javascript-shell", "/charset-problem",
                        "/javascript-shell-marker"}
    <3>1. /\ Asked = "/empty-200" => kind = "empty"
          /\ Asked = "/malformed-pdf" => kind = "malformed_pdf"
          /\ Asked \in {"/javascript-shell", "/javascript-shell-marker"} => kind = "shell"
          /\ Asked = "/charset-problem" => kind = "undecodable"
      BY <2>2 DEF Content
    <3>2. r.expected = {}
      BY <1>3, <1>5, <2>5
    <3>3. Http!ValidateBody(r, kind) = CodeOf(Asked) /\ CodeOf(Asked) # "result"
          /\ CodeOf(Asked) # "valid" /\ CodeOf(Asked) \in Http!Codes
      BY <1>3, <2>5, <3>1, <3>2 DEF Http!ValidateBody, CodeOf, Http!Codes
    <3>. QED
      BY <1>1, <1>6, <2>4, <2>5, <3>3
  <2>6. CASE Asked \notin {"/empty-200", "/malformed-pdf", "/javascript-shell", "/charset-problem",
                           "/javascript-shell-marker"}
    <3>1. kind \in {"html", "pdf", "data"} /\ (Asked = "/ok" => kind = "data")
      BY <1>4, <2>2, <2>6 DEF Content, Phase
    <3>2. Http!ValidateBody(r, kind) = "valid"
      BY <1>3, <1>5, <3>1 DEF Http!ValidateBody, Http!Media
    <3>3. Asked = "/slow" \/ CodeOf(Asked) = "result"
      BY <1>4, <2>3, <2>6, AskedFacts, MovedFacts DEF AdapterInv, CodeOf, Paths
    <3>. QED
      BY <1>1, <1>6, <2>4, <3>2, <3>3
  <2>. QED
    BY <2>5, <2>6
<1>. QED
  BY <1>7, <1>8

\* acquire() ends, unless its request is for /slow, as its URL has it; what it
\* stores is what the fixture sends.
Ends ==
  /\ \E code \in Http!Codes, result \in Http!Results :
       Http!Finish(Runner, code, result) /\ (Asked = "/slow" \/ Verdict(code, result))
  /\ \/ cache' = cache /\ (url = "/stale-etag" => outcome[Runner]' # "result")
     \/ url \in Tagged /\ cache' = [cache EXCEPT ![<<"GET", url>>] = Stored(url)]

LEMMA BodyAcceptedEnds ==
  ASSUME AdapterInv, Http!BodyAccepted(Runner) PROVE Ends
<1> DEFINE a == response[Runner]
           r == request[Runner]
           result == [source |-> "network", url |-> Http!Current(Runner), edition |-> a.edition,
                      kind |-> Http!Body(Runner), redirects |-> Len(chain[Runner])]
<1>1. /\ place = "classify" /\ a.status = "ok"
      /\ Http!ValidateBody(r, Http!Body(Runner)) = "valid"
      /\ Http!Finish(Runner, "result", result)
      /\ cache' = IF Http!Storable(r, a)
                  THEN [cache EXCEPT ![<<r.method, FixtureKey[r.url]>>] =
                          [url |-> result.url, edition |-> result.edition, kind |-> result.kind,
                           etag |-> a.etag, modified |-> a.modified, stored_at |-> 0]]
                  ELSE cache
  BY DEF Http!BodyAccepted, place
<1>2. place \in Answering /\ a \in Http!Response
  BY <1>1, AdapterTyped DEF AdapterInv, Answering
<1>3. /\ Http!Current(Runner) \in Http!Urls /\ Len(chain[Runner]) \in Nat /\ a.edition \in Nat
      /\ Http!Body(Runner) \in Http!AllKinds
  BY <1>1, <1>2, AskedFacts, HttpConstants, BodyFacts DEF AdapterInv, Http!Response
<1>4. result \in Http!Results /\ "result" \in Http!Codes
  BY <1>3 DEF Http!Results, Http!Codes
<1>5. Asked = "/slow" \/ CodeOf(url) = "result"
  BY <1>1, BodyFacts
<1>6. url = "/stale-etag" => cached[Runner] = Http!NoEntry
  <2>1. url = "/stale-etag" => Asked = "/stale-etag"
    BY AskedFacts, MovedFacts DEF AdapterInv, PathOf, Queried
  <2>. QED
    BY <1>1, <1>2, <2>1, AnswerFacts DEF AdapterInv
<1>7. url \in DOMAIN Moved => Http!Current(Runner) = Moved[url] /\ Len(chain[Runner]) = 1
  <2>1. Asked \notin DOMAIN Moved
    BY <1>1, <1>2, AnswerFacts DEF AdapterInv
  <2>2. url \in DOMAIN Moved => PathOf(url) = url
    BY MovedFacts DEF PathOf, Queried
  <2>. QED
    BY <2>1, <2>2, AskedFacts DEF AdapterInv
<1>8. url = "/content-switch" => result.kind = a.kind
  BY <1>1, BodyFacts
<1>9. Verdict("result", result) \/ Asked = "/slow"
  BY <1>5, <1>6, <1>7, <1>8 DEF Verdict
<1>10. CASE Asked \in Tagged
  <2>1. url = Asked /\ chain[Runner] = <<>> /\ Http!Current(Runner) = url /\ url \in FixtureUrls
    BY <1>10, AskedFrom, AskedFacts DEF AdapterInv, Tagged
  <2>2. a.edition = 1 /\ a.kind = "data" /\ a.etag = 1 /\ a.modified = 0
    BY <1>1, <1>2, <1>10, AnswerFacts DEF AdapterInv
  <2>3. Http!Storable(r, a)
    BY <2>2, RequestFacts DEF AdapterInv, Http!Storable, Http!HasValidators
  <2>4. r.method = "GET" /\ FixtureKey[r.url] = url
    BY <1>10, <2>1, RequestFacts, UrlFacts, AskedFacts DEF AdapterInv, url
  <2>5. result.url = url /\ result.edition = 1 /\ result.kind = "data"
    BY <1>1, <2>1, <2>2, BodyFacts
  <2>6. cache' = [cache EXCEPT ![<<"GET", url>>] = Stored(url)]
    BY <1>1, <2>2, <2>3, <2>4, <2>5 DEF Stored
  <2>. QED
    BY <1>1, <1>4, <1>9, <1>10, <2>1, <2>6 DEF Ends
<1>11. CASE Asked \notin Tagged
  <2>1. cache' = cache
    BY <1>1, <1>2, <1>11, AnswerFacts DEF AdapterInv, Http!Storable, Http!HasValidators
  <2>2. url # "/stale-etag"
    BY <1>11, AskedFacts, MovedFacts DEF AdapterInv, PathOf, Queried, Tagged
  <2>. QED
    BY <1>1, <1>4, <1>9, <2>1, <2>2 DEF Ends
<1>. QED
  BY <1>10, <1>11

\* The same for the ends that store nothing.
LEMMA QuietEnds ==
  ASSUME AdapterInv, NEW code \in Http!Codes, NEW result \in Http!Results,
         Http!Finish(Runner, code, result), cache' = cache,
         Asked = "/slow" \/ Verdict(code, result), url = "/stale-etag" => code # "result"
  PROVE  Ends
<1>1. outcome[Runner]' = code
  BY Ending DEF AdapterInv
<1>. QED
  BY <1>1 DEF Ends

LEMMA FailEnds ==
  ASSUME AdapterInv, NEW code \in Http!Codes \ {"result"}, Http!Fail(Runner, code), cache' = cache,
         Asked = "/slow" \/ Verdict(code, Http!NoResult)
  PROVE  Ends
BY QuietEnds DEF Http!Fail, Http!Results

LEMMA BodyRejectedEnds ==
  ASSUME AdapterInv, Http!BodyRejected(Runner) PROVE Ends
<1> DEFINE fault == Http!ValidateBody(request[Runner], Http!Body(Runner))
<1>1. /\ place = "classify" /\ response[Runner].status = "ok"
      /\ fault # "valid" /\ Http!Fail(Runner, fault) /\ cache' = cache
  BY DEF Http!BodyRejected, place
<1>2. fault \in Http!Codes \ {"result"} /\ (Asked = "/slow" \/ fault = CodeOf(url))
  BY <1>1, BodyFacts
<1>3. CodeOf(url) # "result" => url # "/stale-etag"
  BY MovedFacts DEF CodeOf
<1>4. Asked = "/slow" \/ Verdict(fault, Http!NoResult)
  BY <1>2, <1>3 DEF Verdict
<1>. QED
  BY <1>1, <1>2, <1>4, FailEnds

LEMMA RefusedEnds ==
  ASSUME AdapterInv, Http!Refused(Runner) PROVE Ends
<1> DEFINE a    == response[Runner]
           code == Http!Refusal(a.status)
<1>1. /\ place = "classify" /\ Http!Fail(Runner, code) /\ cache' = cache
      /\ a.status \in {"forbidden", "rate_limited", "server_error", "client_error"}
  BY DEF Http!Refused, place
<1>2. place \in Answering
  BY <1>1 DEF Answering
<1>3. Asked \notin DOMAIN Moved \cup Tagged
  BY <1>1, <1>2, AnswerFacts DEF AdapterInv
<1>4. PICK hit \in {1, 2} : a = Send(Status(Asked), Content(Asked, hit))
  BY <1>2, <1>3, AnswerFacts DEF AdapterInv
<1>5. a.status = Status(Asked)
  BY <1>4 DEF Send
<1>6. /\ Asked \in {"/forbidden", "/rate-limited", "/server-error", "/unknown"}
      /\ code = CodeOf(Asked)
  BY <1>1, <1>5 DEF Status, Http!Refusal, CodeOf
<1>7. url = Asked
  BY <1>6, AskedFrom DEF AdapterInv
<1>8. code \in Http!Codes \ {"result"}
  BY <1>1 DEF Http!Refusal, Http!Codes
<1>9. Verdict(code, Http!NoResult)
  BY <1>6, <1>7, <1>8 DEF Verdict
<1>. QED
  BY <1>1, <1>8, <1>9, FailEnds

\* A 304 confirms what is stored, except that of /stale-etag.
LEMMA RevalidateEnds ==
  ASSUME AdapterInv, Http!Revalidate(Runner) PROVE Ends
<1> DEFINE a == response[Runner]
           result == Http!CachedResult(cached[Runner], "revalidated", Len(chain[Runner]))
<1>1. /\ place = "classify" /\ a.status = "not_modified" /\ cache' = cache
  BY DEF Http!Revalidate, place
<1>2. place \in Answering /\ place \in Asking
  BY <1>1 DEF Answering, Asking
<1>3. Asked \in Tagged /\ cached[Runner] # Http!NoEntry
  BY <1>1, <1>2, AnswerFacts DEF AdapterInv
<1>4. url = Asked /\ url \in FixtureUrls /\ cached[Runner] = Stored(url) /\ Len(chain[Runner]) = 0
  BY <1>2, <1>3, AskedFrom, AskedFacts, TagFacts, RequestFacts DEF AdapterInv, Tagged
<1>5. CASE Http!Conflicts(Http!Confirmed(Runner), a)
  <2>1. Http!Fail(Runner, "stale_etag_cache")
    BY <1>1, <1>5 DEF Http!Revalidate
  <2>2. CASE url = "/stale-etag"
    <3>1. Verdict("stale_etag_cache", Http!NoResult)
      BY <1>3, <2>2 DEF Verdict
    <3>. QED
      BY <1>1, <2>1, <3>1, FailEnds DEF Http!Codes
  <2>3. CASE url = "/etag"
    <3>1. ~a.stale /\ a.etag = 1
      <4>1. Http!IfNoneMatch(Runner) = 1
        BY <1>2, <1>3, TagFacts DEF AdapterInv
      <4>2. PICK hit \in {1, 2} : a = Dispatch("/etag", hit, 1)
        BY <1>2, <1>4, <2>3, <4>1 DEF AdapterInv, Answers, FromFixture
      <4>3. a = SendTagged("not_modified", 1, FALSE)
        BY <4>2, MovedFacts DEF Dispatch
      <4>. QED
        BY <4>3, TaggedAnswer, FALSE \in BOOLEAN, Zenon
    <3>. QED
      BY <1>4, <1>5, <3>1 DEF Http!Conflicts, Http!Confirmed, Stored
  <2>. QED
    BY <1>3, <1>4, <2>2, <2>3 DEF Tagged
<1>6. CASE ~Http!Conflicts(Http!Confirmed(Runner), a)
  <2>1. Http!Finish(Runner, "result", result)
    BY <1>1, <1>3, <1>6 DEF Http!Revalidate, Http!Confirmed
  <2>2. url # "/stale-etag"
    BY <1>2, <1>3, <1>4, <1>6, AnswerFacts DEF AdapterInv, Http!Conflicts
  <2>3. url = "/etag"
    BY <1>3, <1>4, <2>2 DEF Tagged
  <2>4. result = [source |-> "revalidated", url |-> url, edition |-> 1, kind |-> "data", redirects |-> 0]
    BY <1>4 DEF Http!CachedResult, Stored
  <2>5. result \in Http!Results /\ "result" \in Http!Codes
    BY <1>4, <2>4, HttpConstants DEF Http!Results, Http!AllKinds, Http!Codes
  <2>6. Verdict("result", result)
    BY <2>3, MovedFacts DEF Verdict, CodeOf
  <2>. QED
    BY <1>1, <2>1, <2>2, <2>5, <2>6, QuietEnds
<1>. QED
  BY <1>5, <1>6

\* A redirect is followed once; then it is a loop.
LEMMA RedirectMoves ==
  ASSUME AdapterInv, Http!Redirect(Runner)
  PROVE  \/ Ends
         \/ /\ place = "classify" /\ Http!Goto(Runner, "check") /\ url \in DOMAIN Moved
            /\ chain' = [chain EXCEPT ![Runner] = <<Moved[url]>>]
            /\ UNCHANGED <<cache, cached, response, chunks>>
<1> DEFINE target   == response[Runner].location
           followed == Append(chain[Runner], target)
<1>1. place = "classify" /\ response[Runner].status = "redirect" /\ cache' = cache
  BY DEF Http!Redirect, place
<1>2. place \in Answering
  BY <1>1 DEF Answering
<1>3. Asked \in DOMAIN Moved /\ target = Moved[Asked]
  BY <1>1, <1>2, AnswerFacts DEF AdapterInv
<1>4. url \in DOMAIN Moved
  BY <1>3, AskedFrom DEF AdapterInv
<1>5. /\ target \in Paths /\ FixtureKey[target] = target /\ url \in Paths /\ FixtureKey[url] = url
      /\ PathOf(url) = url
  BY <1>3, <1>4, MovedFacts, UrlFacts DEF FixtureUrls
<1>6. target # "none" /\ FixtureKey[target] \notin Http!Invalid
  BY <1>3, <1>5, MovedFacts DEF Http!Invalid
<1>7. CASE chain[Runner] = <<>>
  <2>1. Asked = url
    BY <1>5, <1>7, AskedFacts DEF AdapterInv
  <2>2. Http!Visited(Runner) = {url}
    BY <1>5, <1>7 DEF Http!Visited, url
  <2>3. FixtureKey[target] \notin Http!Visited(Runner)
    BY <1>3, <1>4, <1>5, <2>1, <2>2, MovedFacts
  <2>4. followed = <<target>> /\ ~Http!TooMany(followed)
    BY <1>7 DEF Http!TooMany
  <2>5. /\ chain' = [chain EXCEPT ![Runner] = followed] /\ Http!Goto(Runner, "check")
        /\ UNCHANGED <<cached, response, chunks>>
    BY <1>6, <2>3, <2>4 DEF Http!Redirect
  <2>. QED
    BY <1>1, <1>3, <1>4, <2>1, <2>4, <2>5
<1>8. CASE chain[Runner] # <<>>
  <2>1. Asked = Moved[url]
    BY <1>8, AskedFacts DEF AdapterInv
  <2>2. url \in {"/redirect-loop-a", "/redirect-loop-b"} /\ target = url
    BY <1>3, <1>4, <2>1, MovedFacts
  <2>3. FixtureKey[target] \in Http!Visited(Runner)
    BY <2>2 DEF Http!Visited, url
  <2>4. Http!Fail(Runner, "redirect_loop")
    BY <1>6, <2>3 DEF Http!Redirect
  <2>5. Verdict("redirect_loop", Http!NoResult)
    BY <2>2 DEF Verdict, CodeOf
  <2>. QED
    BY <1>1, <2>4, <2>5, FailEnds DEF Http!Codes
<1>. QED
  BY <1>7, <1>8

\* The adapter's own steps: on to the next place, or to the end.
GoesOn ==
  /\ UNCHANGED <<cache, response, chunks>>
  /\ \/ place = "start" /\ Http!Goto(Runner, "lookup") /\ UNCHANGED <<chain, cached>>
     \/ /\ place = "lookup" /\ Http!Goto(Runner, "check") /\ UNCHANGED chain
        /\ cached' = [cached EXCEPT ![Runner] = cache[<<"GET", FixtureKey[url]>>]]
     \/ place = "check" /\ Http!Goto(Runner, "open") /\ UNCHANGED <<chain, cached>>
     \/ place = "read_check" /\ Http!Goto(Runner, "read") /\ UNCHANGED <<chain, cached>>
     \/ /\ place = "read" /\ Http!Goto(Runner, "classify") /\ UNCHANGED <<chain, cached>>
        /\ response[Runner].kind # "cut"
     \/ /\ place = "classify" /\ Http!Goto(Runner, "check") /\ UNCHANGED cached
        /\ url \in DOMAIN Moved /\ chain' = [chain EXCEPT ![Runner] = <<Moved[url]>>]

LEMMA ThinkFacts ==
  ASSUME AdapterInv, cancelled[Runner] = FALSE, Http!Local(Runner)
  PROVE  /\ UNCHANGED <<request, cancelled, late>>
         /\ GoesOn \/ (place = "classify" /\ Ends)
<1>1. CASE Http!Start(Runner)
  <2>1. url \in FixtureUrls /\ FixtureKey[url] \notin {"relative", "malformed"}
    BY RequestFacts, UrlFacts DEF AdapterInv
  <2>2. /\ place = "start" /\ Http!Goto(Runner, "lookup") /\ UNCHANGED Http!local
        /\ UNCHANGED <<cache, request, cancelled, late>>
    BY <1>1, <2>1 DEF Http!Start, place, url
  <2>. QED
    BY <2>2 DEF GoesOn, Http!local
<1>2. CASE Http!Lookup(Runner)
  <2> DEFINE entry == cache[<<"GET", FixtureKey[url]>>]
  <2>1. /\ request[Runner].method = "GET" /\ request[Runner].use_cache
        /\ request[Runner].max_age = 0 /\ request[Runner].url = url
    BY RequestFacts DEF AdapterInv, url
  <2>2. ~Http!IsFresh(entry, request[Runner].max_age)
    BY <2>1 DEF Http!IsFresh
  <2>3. /\ place = "lookup" /\ Http!Goto(Runner, "check")
        /\ cached' = [cached EXCEPT ![Runner] = entry]
        /\ UNCHANGED <<chain, response, chunks, cache, request, cancelled, late>>
    BY <1>2, <2>1, <2>2 DEF Http!Lookup, place
  <2>. QED
    BY <2>3 DEF GoesOn
<1>3. CASE Http!Check(Runner)
  <2>1. /\ place \in {"check", "read_check"} /\ UNCHANGED Http!local
        /\ Http!Goto(Runner, IF place = "check" THEN "open" ELSE "read")
        /\ UNCHANGED <<cache, request, cancelled, late>>
    BY <1>3 DEF Http!Check, Http!SeesCancellation, place
  <2>2. CASE place = "check"
    BY <2>1, <2>2 DEF GoesOn, Http!local
  <2>3. CASE place = "read_check"
    BY <2>1, <2>3 DEF GoesOn, Http!local
  <2>. QED
    BY <2>1, <2>2, <2>3
<1>4. CASE Http!Redirect(Runner)
  BY <1>4, RedirectMoves DEF Http!Redirect, GoesOn, place
<1>5. CASE Http!Revalidate(Runner)
  BY <1>5, RevalidateEnds DEF Http!Revalidate, place
<1>6. CASE Http!Refused(Runner)
  BY <1>6, RefusedEnds DEF Http!Refused, place
<1>7. CASE Http!BodyRejected(Runner)
  BY <1>7, BodyRejectedEnds DEF Http!BodyRejected, place
<1>8. CASE Http!BodyAccepted(Runner)
  BY <1>8, BodyAcceptedEnds DEF Http!BodyAccepted, place
<1>. QED
  BY <1>1, <1>2, <1>3, <1>4, <1>5, <1>6, <1>7, <1>8 DEF Http!Local
-----------------------------------------------------------------------------
(* The steps of the adapter keep the invariant.                            *)

\* What no step of the client disturbs.
LEMMA ClientKeeps ==
  ASSUME IInv, ServerInv', place \notin {"idle", "done"}, place' # "idle",
         UNCHANGED <<owner, lifecycle, counts, request, cancelled>>,
         Http!TypeOK', sent' \in BOOLEAN, sent' => place' = "open",
         disturbed' \in BOOLEAN, disturbed => disturbed', faults' \in 0..MaxFaults,
         connections' \in Seq(Connection), reply' \in {NoReply} \cup Http!Response
  PROVE  /\ TypeOK' /\ Followed' /\ Placed' /\ FailuresHaveCauses'
         /\ phase = "asking" /\ phase' = "asking" /\ url' = url /\ op' = op /\ (Clean' => Clean)
<1>1. UNCHANGED <<program, at, phase, runs, before, records, listening, loops>>
  BY DEF owner, suite, lifecycle
<1>2. phase = "asking"
  BY DEF IInv, SuiteInv, Placed
<1>3. TypeOK'
  BY <1>1 DEF IInv, SuiteInv, TypeOK, ServerInv
<1>4. Followed' /\ FailuresHaveCauses'
  BY <1>1 DEF IInv, SuiteInv, Followed, FailuresHaveCauses, Hosted
<1>5. url' = url /\ op' = op /\ Script(op)' = Script(op)
  BY <1>1 DEF url, op, Script
<1>6. Placed'
  BY <1>1, <1>2, <1>5 DEF IInv, SuiteInv, Placed, Ended, ScriptDone, Ok, Shares, NextUrl
<1>7. Clean' => Clean
  BY <1>1, <1>5 DEF Clean, Hosted
<1>. QED
  BY <1>1, <1>2, <1>3, <1>4, <1>5, <1>6, <1>7

LEMMA AskedFrame ==
  ASSUME UNCHANGED <<chain, request, cached>>
  PROVE  /\ Asked' = Asked /\ Http!IfNoneMatch(Runner)' = Http!IfNoneMatch(Runner)
         /\ \A a : FromFixture(a)' <=> FromFixture(a)
<1>1. Asked' = Asked /\ Http!IfNoneMatch(Runner)' = Http!IfNoneMatch(Runner)
  BY DEF Asked, PathOf, Http!Current, Http!IfNoneMatch
<1>. QED
  BY <1>1 DEF FromFixture, Dispatch, Content, Phase

\* What a run gives depends on the first, when it is the second.
LEMMA GivesFrame ==
  ASSUME UNCHANGED <<program, at>>, NEW i, NEW run, runs'[1] = runs[1] \/ i = 1
  PROVE  Gives(i, run)' <=> Gives(i, run)
<1>1. op' = op /\ (AskedBefore' <=> AskedBefore)
  BY DEF op, AskedBefore
<1>. QED
  BY <1>1 DEF Gives, Ok, Kind

\* What the run that is under way asks for.
LEMMA UrlOfRun ==
  ASSUME TypeOK, Placed, phase = "asking", op \in Scenarios
  PROVE  /\ Len(runs) \in Nat
         /\ \/ op \in DOMAIN ErrorScenario /\ Len(runs) = 0 /\ url = ErrorScenario[op][1]
            \/ op = "redirect" /\ Len(runs) = 0 /\ url = "/redirect"
            \/ op = "content-type-switch" /\ Len(runs) \in {0, 1} /\ url = "/content-switch"
            \/ op = "stale-etag-cache" /\ Len(runs) \in {0, 1} /\ url = "/stale-etag"
            \/ /\ op = "duplicate-urls" /\ Len(runs) \in {0, 1, 3}
               /\ Len(runs) = 0 => url = "/duplicate-urls"
               /\ Len(runs) = 1 => url = "/ok?b=2&a=1"
               /\ Len(runs) = 3 => url = "/ok?a=1&b=3"
            \/ op = "moved-canonical-url" /\ Len(runs) = 0 /\ url = "/moved"
            \/ /\ op = "partial-batch-failure" /\ Len(runs) \in {0, 1, 2, 3}
               /\ Len(runs) = 0 => url = "/partial-batch"
               /\ Len(runs) = 1 => url = "/ok"
               /\ Len(runs) = 2 => url = "/server-error"
               /\ Len(runs) = 3 => url = "/pdf"
<1>1. runs \in Seq([code : Http!Codes, result : Http!Results]) /\ Len(runs) \in Nat
  BY DEF TypeOK
<1>2. /\ Len(runs) <= Len(Script(op)) /\ Len(runs) # Len(Script(op))
      /\ url = Script(op)[Len(runs) + 1]
      /\ ~\E i \in DOMAIN runs : Shares(i)
  BY DEF Placed, ScriptDone, NextUrl, url, RequestTo
<1>5. /\ Len(runs) = 0 => url = Script(op)[1]
      /\ Len(runs) = 1 => url = Script(op)[2]
      /\ Len(runs) = 2 => url = Script(op)[3]
      /\ Len(runs) = 3 => url = Script(op)[4]
      /\ Len(Script(op)) = 4 => Len(runs) \in {0, 1, 2, 3}
      /\ Len(Script(op)) = 2 => Len(runs) \in {0, 1}
  <2>1. ASSUME NEW s, NEW n \in Nat, url = s[n + 1]
        PROVE  /\ n = 0 => url = s[1]
               /\ n = 1 => url = s[2]
               /\ n = 2 => url = s[3]
               /\ n = 3 => url = s[4]
    BY <2>1
  <2>2. ASSUME NEW m \in Nat, NEW n \in Nat, n <= m, n # m
        PROVE  (m = 4 => n \in {0, 1, 2, 3}) /\ (m = 2 => n \in {0, 1})
    BY <2>2
  <2>3. Len(runs) = 0 => url = Script(op)[1]
    BY <1>1, <1>2, <2>1
  <2>4. Len(runs) = 1 => url = Script(op)[2]
    BY <1>1, <1>2, <2>1
  <2>5. Len(runs) = 2 => url = Script(op)[3]
    BY <1>1, <1>2, <2>1
  <2>6. Len(runs) = 3 => url = Script(op)[4]
    BY <1>1, <1>2, <2>1
  <2>7. Len(Script(op)) \in Nat
    BY ScriptFacts DEF Scenarios
  <2>. QED
    BY <1>1, <1>2, <2>2, <2>3, <2>4, <2>5, <2>6, <2>7
<1>3. CASE op \in DOMAIN ErrorScenario
  BY <1>1, <1>2, <1>3 DEF Script
<1>4. CASE op \in DOMAIN LongScenario
  <2>1. Script(op) = LongScenario[op]
    BY <1>4 DEF Script, LongScenario, ErrorScenario
  <2>2. CASE op = "duplicate-urls"
    <3>1. Script(op) = <<"/duplicate-urls", "/ok?b=2&a=1", "/ok?a=1&b=2#display-only", "/ok?a=1&b=3">>
      BY <2>1, <2>2 DEF LongScenario
    <3>2. Len(runs) # 2
      <4>1. SUFFICES ASSUME Len(runs) = 2 PROVE FALSE
        OBVIOUS
      <4>2. 2 \in DOMAIN runs
        BY <1>1, <4>1
      <4>3. Shares(2)
        BY <2>2, <3>1, <4>1 DEF Shares, Manifests, NextUrl, FixtureKey, FixtureUrls, Queried
      <4>. QED
        BY <1>2, <4>2, <4>3
    <3>3. /\ Len(Script(op)) = 4 /\ Script(op)[1] = "/duplicate-urls"
          /\ Script(op)[2] = "/ok?b=2&a=1" /\ Script(op)[4] = "/ok?a=1&b=3"
      BY <3>1
    <3>. QED
      BY <1>1, <1>5, <2>2, <3>2, <3>3
  <2>3. CASE op = "partial-batch-failure"
    <3>1. Script(op) = <<"/partial-batch", "/ok", "/server-error", "/pdf">>
      BY <2>1, <2>3 DEF LongScenario
    <3>2. /\ Len(Script(op)) = 4 /\ Script(op)[1] = "/partial-batch" /\ Script(op)[2] = "/ok"
          /\ Script(op)[3] = "/server-error" /\ Script(op)[4] = "/pdf"
      BY <3>1
    <3>. QED
      BY <1>1, <1>5, <2>3, <3>2
  <2>4. CASE op = "content-type-switch"
    <3>1. Script(op) = <<"/content-switch", "/content-switch">>
      BY <2>1, <2>4 DEF LongScenario
    <3>2. Len(Script(op)) = 2 /\ Script(op)[1] = "/content-switch" /\ Script(op)[2] = "/content-switch"
      BY <3>1
    <3>. QED
      BY <1>1, <1>5, <2>4, <3>2
  <2>5. CASE op = "stale-etag-cache"
    <3>1. Script(op) = <<"/stale-etag", "/stale-etag">>
      BY <2>1, <2>5 DEF LongScenario
    <3>2. Len(Script(op)) = 2 /\ Script(op)[1] = "/stale-etag" /\ Script(op)[2] = "/stale-etag"
      BY <3>1
    <3>. QED
      BY <1>1, <1>5, <2>5, <3>2
  <2>6. CASE op = "redirect"
    <3>1. Script(op) = <<"/redirect">>
      BY <2>1, <2>6 DEF LongScenario
    <3>. QED
      BY <1>1, <1>2, <2>6, <3>1
  <2>7. CASE op = "moved-canonical-url"
    <3>1. Script(op) = <<"/moved">>
      BY <2>1, <2>7 DEF LongScenario
    <3>. QED
      BY <1>1, <1>2, <2>7, <3>1
  <2>. QED
    BY <1>4, <2>2, <2>3, <2>4, <2>5, <2>6, <2>7 DEF LongScenario
<1>. QED
  BY <1>3, <1>4 DEF Scenarios

\* The steps that go on.
LEMMA GoesOnKeeps ==
  ASSUME IInv, ServerInv', GoesOn,
         UNCHANGED <<server, owner, sent, disturbed, faults, request, cancelled>>,
         late' \in [{Runner} -> Nat]
  PROVE  SuiteInv'
<1> USE DEF IInv, SuiteInv
<1>1. Http!TypeOK
  BY DEF TypeOK
<1>2. /\ place \in {"start", "lookup", "check", "read_check", "read", "classify"}
      /\ UNCHANGED <<cache, response, chunks>>
  BY DEF GoesOn
<1>3. PICK p \in {"lookup", "check", "open", "read", "classify"} : Http!Goto(Runner, p)
  BY DEF GoesOn
<1>4. place' = p /\ pc' \in [{Runner} -> Places] /\ UNCHANGED <<outcome, delivered>>
  BY <1>1, <1>3, Going DEF Places
<1>5. ~sent /\ reply = NoReply /\ \A i \in DOMAIN connections : ~connections[i].waiting
  BY <1>2 DEF Placed, Answers, Awaited
<1>6. url' = url /\ url \in FixtureUrls
  BY <1>1, RequestFacts DEF url
<1>7. \/ place = "start" /\ p = "lookup" /\ UNCHANGED <<chain, cached>>
      \/ /\ place = "lookup" /\ p = "check" /\ UNCHANGED chain
         /\ cached' = [cached EXCEPT ![Runner] = cache[<<"GET", FixtureKey[url]>>]]
      \/ place = "check" /\ p = "open" /\ UNCHANGED <<chain, cached>>
      \/ place = "read_check" /\ p = "read" /\ UNCHANGED <<chain, cached>>
      \/ /\ place = "read" /\ p = "classify" /\ UNCHANGED <<chain, cached>>
         /\ response[Runner].kind # "cut"
      \/ /\ place = "classify" /\ p = "check" /\ UNCHANGED cached
         /\ url \in DOMAIN Moved /\ chain' = [chain EXCEPT ![Runner] = <<Moved[url]>>]
  <2>1. \A q \in Places : Http!Goto(Runner, q) => place' = q
    BY <1>1, Going
  <2>. QED
    BY <1>4, <2>1 DEF GoesOn, Places
<1>8. cached' \in [{Runner} -> {Http!NoEntry} \cup Http!Entry] /\ (place = "lookup" => cached[Runner]' = cache[<<"GET", FixtureKey[url]>>])
  BY <1>1, <1>7, EntryFacts, AdapterTyped
<1>9. /\ chain' \in [{Runner} -> Seq(FixtureUrls)]
      /\ place = "classify" => chain[Runner]' = <<Moved[url]>> /\ url \in DOMAIN Moved
      /\ place # "classify" => chain' = chain
  <2>1. chain \in [{Runner} -> Seq(FixtureUrls)]
    BY <1>1, AdapterTyped
  <2>2. CASE place = "classify"
    <3>1. url \in DOMAIN Moved /\ chain' = [chain EXCEPT ![Runner] = <<Moved[url]>>]
      BY <1>7, <2>2
    <3>2. <<Moved[url]>> \in Seq(FixtureUrls)
      BY <3>1, MovedFacts DEF FixtureUrls
    <3>. QED
      BY <2>1, <2>2, <3>1, <3>2
  <2>3. CASE place # "classify"
    BY <1>7, <2>1, <2>3
  <2>. QED
    BY <2>2, <2>3
<1>10. Http!TypeOK'
  BY <1>1, <1>2, <1>4, <1>8, <1>9, AdapterTypes, AdapterTyped
<1>11. UNCHANGED <<connections, reply, counts, lifecycle>>
  BY DEF server, traffic
<1>12. /\ TypeOK' /\ Followed' /\ Placed' /\ FailuresHaveCauses'
       /\ phase = "asking" /\ phase' = "asking" /\ op' = op /\ (Clean' => Clean)
  BY <1>2, <1>4, <1>5, <1>10, <1>11, ClientKeeps DEF TypeOK
<1>13. CacheHolds' /\ LookedUp'
  <2>1. CacheHolds'
    BY <1>2 DEF CacheHolds
  <2>2. LookedUp'
    BY <1>2, <1>4, <1>6, <1>7, <1>8 DEF LookedUp, Asking
  <2>. QED
    BY <2>1, <2>2
<1>14. Redirected'
  BY <1>4, <1>6, <1>7, <1>9 DEF Redirected, Asking
<1>15. Answers'
  <2>1. CASE p \in {"read", "classify"}
    BY <1>2, <1>4, <1>5, <1>7, <1>11, <2>1, AskedFrame DEF Answers, Answering
  <2>2. CASE p \notin {"read", "classify"}
    BY <1>4, <1>5, <1>11, <2>2 DEF Answers, Answering
  <2>. QED
    BY <2>1, <2>2
<1>16. Awaited'
  BY <1>5, <1>11 DEF Awaited
<1>17. url \notin DOMAIN Moved => (Counted' = Counted) /\ (place' \in Answering => place \in Answering)
  BY <1>4, <1>5, <1>7, <1>11, <1>12 DEF Counted, Answering
<1>18. UNCHANGED <<program, at, runs, before>>
  BY DEF owner, suite
<1>19. op \in {"content-type-switch", "duplicate-urls"} => url \notin DOMAIN Moved
  BY <1>12, UrlOfRun, MovedFacts DEF Scenarios, LongScenario, ErrorScenario
<1>20. SwitchCounted' /\ OkCounted'
  BY <1>2, <1>4, <1>5, <1>11, <1>12, <1>17, <1>18, <1>19 DEF SwitchCounted, OkCounted
<1>21. StaleStored'
  BY <1>2, <1>4, <1>12, <1>18 DEF StaleStored, AskedBefore, Ok
<1>22. RunsGive'
  <2>1. \A i \in DOMAIN runs : Gives(i, runs[i])' <=> Gives(i, runs[i])
    BY <1>18, GivesFrame
  <2>2. place' \in Answering => place \in Answering /\ Asked' = Asked
    BY <1>4, <1>7, AskedFrame DEF Answering
  <2>. QED
    BY <1>4, <1>12, <1>18, <2>1, <2>2 DEF RunsGive
<1>. QED
  BY <1>12, <1>13, <1>14, <1>15, <1>16, <1>20, <1>21, <1>22

\* An end that is as its URL has it gives what the scenario looks for.
LEMMA EndGives ==
  ASSUME IInv, Clean, phase = "asking", place \in Asking,
         NEW code, NEW result, Verdict(code, result),
         place \in Answering \/ url \in {"/slow", "/slow?delay=0.20", "/network-exception"}
  PROVE  Gives(Len(runs) + 1, [code |-> code, result |-> result])
<1> DEFINE run == [code |-> code, result |-> result]
<1>1. op \in Scenarios /\ TypeOK /\ Placed
  BY DEF Clean, IInv, SuiteInv
<1>2. CASE op \in DOMAIN ErrorScenario
  <2>1. url = ErrorScenario[op][1]
    BY <1>1, <1>2, UrlOfRun DEF LongScenario, ErrorScenario
  <2>2. code = ErrorScenario[op][2]
    BY <1>2, <2>1 DEF Verdict, CodeOf, ErrorScenario
  <2>. QED
    BY <1>2, <2>2 DEF Gives, ErrorScenario
<1>3. CASE op = "redirect"
  <2>1. url = "/redirect"
    BY <1>1, <1>3, UrlOfRun DEF ErrorScenario
  <2>2. code = "result" /\ result.redirects = 1
    BY <2>1, MovedFacts DEF Verdict, CodeOf
  <2>. QED
    BY <1>3, <2>2 DEF Gives, Ok, ErrorScenario
<1>4. CASE op = "moved-canonical-url"
  <2>1. url = "/moved"
    BY <1>1, <1>4, UrlOfRun DEF ErrorScenario
  <2>2. code = "result" /\ result.redirects = 1 /\ result.url = "/canonical"
    BY <2>1, MovedFacts DEF Verdict, CodeOf
  <2>. QED
    BY <1>4, <2>2 DEF Gives, Ok, ErrorScenario
<1>5. CASE op = "content-type-switch"
  <2>1. url = "/content-switch"
    BY <1>1, <1>5, UrlOfRun DEF ErrorScenario
  <2>2. code = "result" /\ result.kind = response[Runner].kind
    BY <2>1 DEF Verdict, CodeOf
  <2>3. response[Runner].kind = Phase(Len(runs) + 1)
    BY <1>5, <2>1 DEF IInv, SuiteInv, SwitchCounted
  <2>. QED
    BY <1>5, <2>2, <2>3 DEF Gives, Kind, Ok, ErrorScenario
<1>6. CASE op = "stale-etag-cache"
  <2>1. url = "/stale-etag" /\ Len(runs) \in {0, 1} /\ runs \in Seq([code : Http!Codes, result : Http!Results])
    BY <1>1, <1>6, UrlOfRun DEF ErrorScenario, TypeOK
  <2>2. cached[Runner] = cache[Stale]
    <3>1. FixtureKey["/stale-etag"] = "/stale-etag"
      BY UrlFacts DEF FixtureUrls, Paths
    <3>. QED
      BY <2>1, <3>1 DEF IInv, SuiteInv, LookedUp, Stale
  <2>3. place # "done"
    BY DEF Asking
  <2>4. Len(runs) = 0 => (code = "result" \/ AskedBefore)
    <3>1. Len(runs) = 0 => runs = <<>>
      BY <2>1
    <3>2. cached[Runner] = Http!NoEntry => code = "result"
      BY <2>1 DEF Verdict, CodeOf
    <3>. QED
      BY <2>2, <2>3, <3>1, <3>2 DEF IInv, SuiteInv, StaleStored
  <2>5. Len(runs) = 1 /\ Ok(runs[1]) => code = "stale_etag_cache"
    <3>1. Len(runs) = 1 => runs # <<>>
      BY <2>1
    <3>2. cached[Runner] # Http!NoEntry => code = "stale_etag_cache"
      BY <2>1 DEF Verdict
    <3>. QED
      BY <1>6, <2>2, <3>1, <3>2 DEF IInv, SuiteInv, StaleStored
  <2>. QED
    BY <1>6, <2>1, <2>4, <2>5 DEF Gives, Ok, ErrorScenario
<1>7. CASE op = "duplicate-urls"
  <2>1. url \in {"/duplicate-urls", "/ok?b=2&a=1", "/ok?a=1&b=3"}
    BY <1>1, <1>7, UrlOfRun DEF ErrorScenario
  <2>2. code = "result"
    BY <2>1 DEF Verdict, CodeOf
  <2>. QED
    BY <1>7, <2>2 DEF Gives, Ok, ErrorScenario
<1>8. CASE op = "partial-batch-failure"
  <2>1. /\ Len(runs) \in {0, 1, 2, 3}
        /\ Len(runs) = 2 => url = "/server-error"
        /\ Len(runs) # 2 => url \in {"/partial-batch", "/ok", "/pdf"}
    BY <1>1, <1>8, UrlOfRun DEF ErrorScenario
  <2>2. CASE Len(runs) = 2
    <3>1. code # "result"
      BY <2>1, <2>2 DEF Verdict, CodeOf
    <3>. QED
      BY <1>8, <2>2, <3>1 DEF Gives, Ok, ErrorScenario
  <2>3. CASE Len(runs) # 2
    <3>1. code = "result"
      BY <2>1, <2>3 DEF Verdict, CodeOf
    <3>2. Len(runs) + 1 \in {1, 2, 4}
      <4>1. ASSUME NEW n \in {0, 1, 3} PROVE n + 1 \in {1, 2, 4}
        BY <4>1
      <4>. QED
        BY <2>1, <2>3, <4>1
    <3>3. Ok(run)
      BY <3>1 DEF Ok
    <3>. QED
      BY <1>8, <3>2, <3>3 DEF Gives, ErrorScenario
  <2>. QED
    BY <2>2, <2>3
<1>. QED
  BY <1>1, <1>2, <1>3, <1>4, <1>5, <1>6, <1>7, <1>8 DEF Scenarios, LongScenario

\* The steps that end an acquisition; with the adapter at rest no connection waits.
LEMMA EndKeeps ==
  ASSUME IInv, ServerInv', place \in Asking,
         NEW code \in Http!Codes, NEW result \in Http!Results, Http!Finish(Runner, code, result),
         UNCHANGED <<owner, lifecycle, counts, request, cancelled>>, late' \in [{Runner} -> Nat],
         connections' \in Seq(Connection),
         \A i \in DOMAIN connections' : ~connections'[i].waiting,
         reply' = NoReply, sent' = FALSE,
         disturbed' \in BOOLEAN, disturbed => disturbed', faults' \in 0..MaxFaults,
         \/ cache' = cache /\ (url = "/stale-etag" => code # "result")
         \/ url \in Tagged /\ cache' = [cache EXCEPT ![<<"GET", url>>] = Stored(url)],
         Clean' => /\ Verdict(code, result)
                   /\ \/ place \in Answering
                      \/ url \in {"/slow", "/slow?delay=0.20", "/network-exception"}
  PROVE  SuiteInv'
<1> USE DEF IInv, SuiteInv
<1>1. Http!TypeOK
  BY DEF TypeOK
<1>2. place \notin {"idle", "done"}
  BY DEF Asking
<1>3. /\ place' = "done" /\ chain[Runner]' = <<>> /\ cached[Runner]' = Http!NoEntry
      /\ outcome[Runner]' = code /\ delivered[Runner]' = result
  BY <1>1, Ending
<1>4. url' = url /\ url \in FixtureUrls /\ (url \in Tagged => FixtureKey[url] = url)
  BY <1>1, RequestFacts, UrlFacts DEF url, Tagged, Paths
<1>5. /\ url \in Tagged => <<"GET", url>> \in Http!CacheKeys /\ Stored(url) \in Http!Entry
      /\ Stale \in Http!CacheKeys
  BY <1>4, HttpConstants DEF Stored, Http!Entry, Http!Editions, Http!AllKinds
<1>6. cache' \in [Http!CacheKeys -> {Http!NoEntry} \cup Http!Entry]
  BY <1>1, <1>5, AdapterTyped
<1>7. Http!TypeOK'
  <2>1. /\ pc' \in [{Runner} -> Places]
        /\ outcome' \in [{Runner} -> Http!Codes] /\ delivered' \in [{Runner} -> Http!Results]
        /\ cached' \in [{Runner} -> {Http!NoEntry} \cup Http!Entry]
        /\ chain' \in [{Runner} -> Seq(FixtureUrls)]
        /\ response' \in [{Runner} -> Http!Response] /\ chunks' \in [{Runner} -> 0..0]
    BY <1>1, Ending
  <2>2. request' \in [{Runner} -> FixtureRequests] /\ cancelled' \in [{Runner} -> BOOLEAN]
    BY <1>1, AdapterTyped
  <2>. QED
    BY <1>1, <1>6, <2>1, <2>2, AdapterTypes
<1>8. /\ TypeOK' /\ Followed' /\ Placed' /\ FailuresHaveCauses'
      /\ phase = "asking" /\ phase' = "asking" /\ op' = op /\ (Clean' => Clean)
  BY <1>2, <1>3, <1>7, ClientKeeps
<1>9. UNCHANGED <<program, at, runs, before>>
  BY DEF owner, suite
<1>10. CacheHolds'
  <2>1. \A k \in Http!CacheKeys : cache'[k] = cache[k] \/ (k[2] \in Tagged /\ cache'[k] = Stored(k[2]))
    <3>1. cache \in [Http!CacheKeys -> {Http!NoEntry} \cup Http!Entry]
      BY <1>1, AdapterTyped
    <3>2. CASE cache' = cache
      BY <3>2
    <3>3. CASE url \in Tagged /\ cache' = [cache EXCEPT ![<<"GET", url>>] = Stored(url)]
      <4>1. SUFFICES ASSUME NEW k \in Http!CacheKeys, k = <<"GET", url>>
                     PROVE  k[2] \in Tagged /\ cache'[k] = Stored(k[2])
        BY <3>1, <3>3
      <4>. QED
        BY <3>1, <3>3, <4>1
    <3>. QED
      BY <3>2, <3>3
  <2>. QED
    BY <2>1 DEF CacheHolds
<1>11. Redirected' /\ LookedUp' /\ Answers' /\ Awaited'
  BY <1>3 DEF Redirected, LookedUp, Answers, Awaited, Asking, Answering
<1>12. Counted' = 1
  BY <1>3, <1>8 DEF Counted
<1>13. SwitchCounted'
  <2>1. SUFFICES ASSUME Clean', op = "content-type-switch"
                 PROVE  counts["/content-switch"] = Len(runs) + 1
    BY <1>3, <1>8, <1>9, <1>12 DEF SwitchCounted, Answering
  <2>2. url = "/content-switch"
    BY <1>8, <2>1, UrlOfRun DEF Clean, ErrorScenario
  <2>3. Counted = 1
    BY <1>8, <2>1, <2>2 DEF Counted
  <2>. QED
    BY <1>8, <2>1, <2>3 DEF SwitchCounted
<1>14. OkCounted'
  <2>1. SUFFICES ASSUME Clean', op = "duplicate-urls" PROVE Counted = 1
    BY <1>8, <1>9, <1>12 DEF OkCounted
  <2>2. url \in {"/duplicate-urls", "/ok?b=2&a=1", "/ok?a=1&b=3"}
    BY <1>8, <2>1, UrlOfRun DEF Clean, ErrorScenario
  <2>. QED
    BY <1>8, <2>1, <2>2 DEF Counted
<1>15. StaleStored'
  <2>1. AskedBefore' <=> AskedBefore
    BY <1>9 DEF AskedBefore
  <2>2. cache[Stale] # Http!NoEntry => cache'[Stale] # Http!NoEntry
    <3>1. Stored(url).url = url /\ Http!NoEntry.url = "none" /\ "none" \notin Tagged
      BY DEF Stored, Http!NoEntry, Tagged
    <3>2. url \in Tagged => Stored(url) # Http!NoEntry
      BY <3>1
    <3>. QED
      BY <1>1, <1>5, <3>2, AdapterTyped
  <2>3. cache'[Stale] # cache[Stale] => url = "/stale-etag"
    BY <1>1, <1>5, AdapterTyped DEF Stale
  <2>4. url = "/stale-etag" /\ code = "result" => cache'[Stale] # Http!NoEntry
    BY <1>1, <1>5, AdapterTyped DEF Stale, Stored, Http!NoEntry
  <2>5. url = "/stale-etag" => AsksFor(op, "/stale-etag")
    <3>1. /\ op \in Scenarios \cup FixtureUrls /\ Len(runs) <= Len(Script(op))
          /\ Len(runs) # Len(Script(op)) /\ url = Script(op)[Len(runs) + 1]
      BY <1>8 DEF Placed, ScriptDone, NextUrl, RequestTo, url
    <3>2. Len(runs) \in Nat /\ Script(op) \in Seq(FixtureUrls)
      BY <3>1, ScriptFacts DEF TypeOK
    <3>3. Len(runs) + 1 \in DOMAIN Script(op)
      BY <3>1, <3>2
    <3>. QED
      BY <3>1, <3>3 DEF AsksFor
  <2>6. cache'[Stale] # Http!NoEntry =>
          \/ AskedBefore
          \/ AsksFor(op, "/stale-etag")
    BY <2>3, <2>5 DEF StaleStored
  <2>7. AsksFor(op, "/stale-etag")' <=> AsksFor(op, "/stale-etag")
    BY <1>8 DEF AsksFor, Script
  <2>. QED
    BY <1>3, <1>4, <1>8, <1>9, <2>1, <2>2, <2>4, <2>6, <2>7 DEF StaleStored, Ok
<1>16. RunsGive'
  <2>1. \A i \in DOMAIN runs : Gives(i, runs[i])' <=> Gives(i, runs[i])
    BY <1>9, GivesFrame
  <2>2. Clean' => Gives(Len(runs) + 1, [code |-> code, result |-> result])
    BY <1>8, EndGives
  <2>3. Gives(Len(runs) + 1, [code |-> code, result |-> result])' <=>
          Gives(Len(runs) + 1, [code |-> code, result |-> result])
    BY <1>9 DEF Gives, op, AskedBefore, Ok, Kind
  <2>. QED
    BY <1>3, <1>8, <1>9, <2>1, <2>2, <2>3 DEF RunsGive, Answering
<1>. QED
  BY <1>8, <1>10, <1>11, <1>13, <1>14, <1>15, <1>16

LEMMA ThinkKeeps == ASSUME IInv, ServerInv', Think PROVE SuiteInv'
<1> USE DEF IInv, SuiteInv
<1>1. Http!TypeOK /\ AdapterInv /\ cancelled[Runner] = FALSE
  BY DEF TypeOK, AdapterInv, Placed
<1>2. UNCHANGED <<server, owner, sent, disturbed, faults, request, cancelled, late>>
  BY <1>1, ThinkFacts DEF Think
<1>3. late' \in [{Runner} -> Nat]
  BY <1>1, <1>2, AdapterTyped
<1>4. CASE GoesOn
  BY <1>2, <1>3, <1>4, GoesOnKeeps
<1>5. CASE place = "classify" /\ Ends
  <2>1. PICK code \in Http!Codes, result \in Http!Results :
          Http!Finish(Runner, code, result) /\ (Asked = "/slow" \/ Verdict(code, result))
    BY <1>5 DEF Ends
  <2>2. outcome[Runner]' = code
    BY <1>1, <2>1, Ending
  <2>3. \/ cache' = cache /\ (url = "/stale-etag" => code # "result")
        \/ url \in Tagged /\ cache' = [cache EXCEPT ![<<"GET", url>>] = Stored(url)]
    BY <1>5, <2>2 DEF Ends
  <2>4. /\ UNCHANGED <<program, at, phase, connections, reply, lifecycle, counts>>
        /\ ~sent /\ reply = NoReply /\ phase = "asking" /\ place \in Answering /\ place \in Asking
        /\ \A i \in DOMAIN connections : ~connections[i].waiting
    BY <1>2, <1>5 DEF owner, server, traffic, Placed, Answers, Awaited, Answering, Asking
  <2>5. Clean' => Verdict(code, result)
    <3>1. Clean' => Clean
      BY <1>2, <2>4 DEF Clean, op, Hosted
    <3>2. Clean => Asked # "/slow"
      BY <2>4 DEF RunsGive
    <3>. QED
      BY <2>1, <3>1, <3>2
  <2>6. /\ connections' \in Seq(Connection) /\ disturbed' \in BOOLEAN /\ faults' \in 0..MaxFaults
        /\ reply' = NoReply /\ sent' = FALSE
        /\ \A i \in DOMAIN connections' : ~connections'[i].waiting
    BY <1>2, <2>4 DEF TypeOK
  <2>. QED
    BY <1>2, <1>3, <2>1, <2>3, <2>4, <2>5, <2>6, EndKeeps
<1>. QED
  BY <1>1, <1>4, <1>5, ThinkFacts DEF Think

\* A network operation is over.
LEMMA OperatedFacts ==
  ASSUME Http!TypeOK, Http!Operated(Runner), cancelled[Runner] = FALSE
  PROVE  late' \in [{Runner} -> Nat]
BY AdapterTyped DEF Http!Operated

LEMMA ReadBodyKeeps == ASSUME IInv, ServerInv', ReadBody PROVE SuiteInv'
<1> USE DEF IInv, SuiteInv
<1>1. Http!TypeOK /\ AdapterInv /\ cancelled[Runner] = FALSE
  BY DEF TypeOK, AdapterInv, Placed
<1>2. /\ place = "read" /\ Http!Operated(Runner)
      /\ UNCHANGED <<cache, request, cancelled, server, owner, sent, disturbed, faults>>
  BY DEF ReadBody, Http!ReadEnd, place
<1>3. late' \in [{Runner} -> Nat]
  BY <1>1, <1>2, OperatedFacts
<1>4. CASE response[Runner].kind = "cut"
  <2>1. Http!Finish(Runner, "truncated_body", Http!NoResult)
    BY <1>4 DEF ReadBody, Http!ReadEnd, Http!Fail
  <2>2. place \in Answering /\ place \in Asking
    BY <1>2 DEF Answering, Asking
  <2>3. url = "/truncated"
    BY <1>1, <1>4, <2>2, AnswerFacts, AskedFrom
  <2>4. Verdict("truncated_body", Http!NoResult)
    BY <2>3 DEF Verdict, CodeOf
  <2>5. /\ UNCHANGED <<connections, reply, lifecycle, counts>>
        /\ ~sent /\ reply = NoReply
        /\ \A i \in DOMAIN connections : ~connections[i].waiting
    BY <1>2 DEF server, traffic, Placed, Answers, Awaited
  <2>6. /\ connections' \in Seq(Connection) /\ disturbed' \in BOOLEAN /\ faults' \in 0..MaxFaults
        /\ reply' = NoReply /\ sent' = FALSE
        /\ \A i \in DOMAIN connections' : ~connections'[i].waiting
    BY <1>2, <2>5 DEF TypeOK
  <2>7. "truncated_body" \in Http!Codes /\ Http!NoResult \in Http!Results /\ "truncated_body" # "result"
    BY DEF Http!Codes, Http!Results
  <2>. QED
    BY <1>2, <1>3, <2>1, <2>2, <2>4, <2>5, <2>6, <2>7, EndKeeps
<1>5. CASE response[Runner].kind # "cut"
  <2>1. Http!Goto(Runner, "classify") /\ UNCHANGED <<chain, cached, response, chunks>>
    BY <1>5 DEF ReadBody, Http!ReadEnd, Http!local
  <2>2. GoesOn
    BY <1>2, <1>5, <2>1 DEF GoesOn
  <2>. QED
    BY <1>2, <1>3, <2>2, GoesOnKeeps
<1>. QED
  BY <1>4, <1>5

\* The scenario is hosted: its server was started and still listens.
LEMMA HostedServes ==
  ASSUME IInv, Clean PROVE listening /\ loops # <<>>
<1>1. PICK j \in 1..at : program[j] = "start"
  BY DEF Clean, Hosted
<1>2. \A i \in 1..at : program[i] # "stop"
  BY DEF Clean, Hosted
<1>3. op # "start"
  BY DEF Clean, Scenarios, ErrorScenario, LongScenario
<1>4. at \in Nat /\ j \in 1..at - 1
  BY <1>1, <1>3 DEF op, IInv, SuiteInv, TypeOK
<1>. QED
  BY <1>1, <1>2, <1>4 DEF IInv, SuiteInv, Followed

\* An attempt that gives up: nobody waits for an answer any more.
LEMMA GiveUpKeeps ==
  ASSUME IInv, ServerInv', NEW code \in Http!Codes \ {"result"}, Http!FaultWith(Runner, code),
         UNCHANGED <<owner, lifecycle, counts>>, connections' \in Seq(Connection),
         \A i \in DOMAIN connections' : ~connections'[i].waiting,
         reply' = NoReply, sent' = FALSE,
         disturbed' \in BOOLEAN, disturbed => disturbed', faults' \in 0..MaxFaults,
         Clean' => /\ code = CodeOf(url)
                   /\ url \in {"/slow", "/slow?delay=0.20", "/network-exception"}
  PROVE  SuiteInv'
<1>1. Http!TypeOK /\ cancelled[Runner] = FALSE
  BY DEF IInv, SuiteInv, TypeOK, Placed
<1>2. /\ place \in Asking /\ Http!Operated(Runner) /\ Http!Finish(Runner, code, Http!NoResult)
      /\ UNCHANGED <<cache, request, cancelled>>
  BY DEF Http!FaultWith, Http!Interruptible, Http!Fail, Asking, place
<1>3. late' \in [{Runner} -> Nat]
  BY <1>1, <1>2, OperatedFacts
<1>4. Clean' => Verdict(code, Http!NoResult)
  BY DEF Verdict
<1>5. Http!NoResult \in Http!Results
  BY DEF Http!Results
<1>. QED
  BY <1>2, <1>3, <1>4, <1>5, EndKeeps

\* What is left of the connections after the client has hung up.
LEMMA HangUpFacts ==
  ASSUME connections \in Seq(Connection), HangUp
  PROVE  /\ connections' \in Seq(Connection) /\ reply' = NoReply
         /\ \A i \in DOMAIN connections' : ~connections'[i].waiting
         /\ UNCHANGED <<counts, lifecycle>>
<1>1. \A i \in DOMAIN connections : connections[i] \in Connection
  OBVIOUS
<1>2. \A i \in DOMAIN connections :
        /\ [connections[i] EXCEPT !.waiting = FALSE] \in Connection
        /\ ~[connections[i] EXCEPT !.waiting = FALSE].waiting
  BY <1>1 DEF Connection
<1>3. connections' = [i \in 1..Len(connections) |-> [connections[i] EXCEPT !.waiting = FALSE]]
  BY DEF HangUp
<1>4. connections' \in [1..Len(connections) -> Connection]
  BY <1>2, <1>3
<1>5. connections' \in Seq(Connection) /\ DOMAIN connections' = DOMAIN connections
  BY <1>4, SeqDef
<1>. QED
  BY <1>2, <1>3, <1>5 DEF HangUp

LEMMA ExpectedTimeOutKeeps == ASSUME IInv, ServerInv', ExpectedTimeOut PROVE SuiteInv'
<1> USE DEF IInv, SuiteInv
<1>1. /\ place = "open" /\ (Asked = "/slow" \/ loops = <<>>) /\ UNCHANGED <<owner, disturbed, faults>>
      /\ Http!FaultWith(Runner, "slow_response_timeout") /\ HangUp /\ sent' = FALSE
  BY DEF ExpectedTimeOut, TimeOut, place
<1>2. UNCHANGED <<program, at, phase>>
  BY <1>1 DEF owner
<1>3. Clean' => Clean
  BY <1>1, <1>2 DEF Clean, op, Hosted
<1>4. Clean => url \in {"/slow", "/slow?delay=0.20"}
  BY <1>1, HostedServes, AskedFrom DEF TypeOK
<1>5. url \in {"/slow", "/slow?delay=0.20"} => CodeOf(url) = "slow_response_timeout"
  BY DEF CodeOf
<1>6. "slow_response_timeout" \in Http!Codes \ {"result"}
  BY DEF Http!Codes
<1>7. disturbed' \in BOOLEAN /\ faults' \in 0..MaxFaults /\ connections \in Seq(Connection)
  BY <1>1 DEF TypeOK
<1>. QED
  BY <1>1, <1>3, <1>4, <1>5, <1>6, <1>7, HangUpFacts, GiveUpKeeps

LEMMA UnexpectedTimeOutKeeps == ASSUME IInv, ServerInv', UnexpectedTimeOut PROVE SuiteInv'
<1> USE DEF IInv, SuiteInv
<1>1. /\ disturbed' = TRUE /\ faults < MaxFaults /\ faults' = faults + 1 /\ UNCHANGED owner
      /\ Http!FaultWith(Runner, "slow_response_timeout") /\ HangUp /\ sent' = FALSE
  BY DEF UnexpectedTimeOut, Fault, TimeOut
<1>2. ~Clean'
  BY <1>1 DEF Clean
<1>3. "slow_response_timeout" \in Http!Codes \ {"result"}
  BY DEF Http!Codes
<1>4. faults' \in 0..MaxFaults /\ connections \in Seq(Connection) /\ disturbed' \in BOOLEAN
  BY <1>1, ProgramsAssumption DEF TypeOK
<1>. QED
  BY <1>1, <1>2, <1>3, <1>4, HangUpFacts, GiveUpKeeps

LEMMA RemoteDisconnectedKeeps == ASSUME IInv, ServerInv', RemoteDisconnected PROVE SuiteInv'
<1> USE DEF IInv, SuiteInv
<1>1. /\ sent /\ reply = NoReply /\ \A i \in DOMAIN connections : ~connections[i].waiting
      /\ Http!FaultWith(Runner, "network_exception") /\ sent' = FALSE
      /\ UNCHANGED <<server, owner, disturbed, faults>>
  BY DEF RemoteDisconnected
<1>2. UNCHANGED <<connections, reply, counts, lifecycle>>
  BY <1>1 DEF server, traffic
<1>3. url = "/network-exception"
  BY <1>1, AskedFrom DEF Awaited, TypeOK
<1>4. CodeOf(url) = "network_exception" /\ "network_exception" \in Http!Codes \ {"result"}
  BY <1>3 DEF CodeOf, Http!Codes
<1>5. /\ connections' \in Seq(Connection) /\ disturbed' \in BOOLEAN /\ faults' \in 0..MaxFaults
      /\ reply' = NoReply /\ \A i \in DOMAIN connections' : ~connections'[i].waiting
  BY <1>1, <1>2 DEF TypeOK
<1>. QED
  BY <1>1, <1>2, <1>3, <1>4, <1>5, GiveUpKeeps

\* The adapter's variables as they were, and the places with them.
LEMMA AdapterFramed ==
  ASSUME Http!TypeOK, UNCHANGED adapter
  PROVE  /\ Http!TypeOK' /\ UNCHANGED <<place, url, cache, pc, request, cancelled, cached, chain, response>>
         /\ Asked' = Asked /\ Http!IfNoneMatch(Runner)' = Http!IfNoneMatch(Runner)
         /\ \A a : FromFixture(a)' <=> FromFixture(a)
         /\ (CacheHolds' <=> CacheHolds) /\ (Redirected' <=> Redirected) /\ (LookedUp' <=> LookedUp)
         /\ outcome' = outcome /\ delivered' = delivered
<1>1. UNCHANGED <<cache, pc, request, cancelled, cached, chain, response, chunks, outcome, delivered, late>>
  BY DEF adapter
<1>2. Http!TypeOK'
  BY <1>1, AdapterTypes, AdapterTyped
<1>3. UNCHANGED <<place, url>>
  BY <1>1 DEF place, url
<1>. QED
  BY <1>1, <1>2, <1>3, AskedFrame DEF CacheHolds, Redirected, LookedUp

LEMMA SendRequestKeeps == ASSUME IInv, ServerInv', SendRequest PROVE SuiteInv'
<1> USE DEF IInv, SuiteInv
<1>1. place = "open" /\ ~sent /\ UNCHANGED <<owner, disturbed, faults>> /\ place \in Asking
  BY DEF SendRequest, place, Asking
<1>2. /\ reply = NoReply /\ \A i \in DOMAIN connections : ~connections[i].waiting
      /\ disturbed' \in BOOLEAN /\ faults' \in 0..MaxFaults /\ Http!TypeOK
      /\ connections \in Seq(Connection) /\ phase = "asking"
  BY <1>1 DEF Answers, Awaited, TypeOK, Placed
<1>3. CASE ~listening /\ Http!FaultWith(Runner, "network_exception") /\ UNCHANGED <<server, sent>>
  <2>1. UNCHANGED <<connections, reply, counts, lifecycle>>
    BY <1>3 DEF server, traffic
  <2>2. ~Clean'
    <3>1. Clean' => Clean
      BY <1>1 DEF Clean, op, Hosted, owner
    <3>. QED
      BY <1>3, <3>1, HostedServes
  <2>3. "network_exception" \in Http!Codes \ {"result"}
    BY DEF Http!Codes
  <2>4. /\ connections' \in Seq(Connection) /\ reply' = NoReply /\ sent' = FALSE
        /\ \A i \in DOMAIN connections' : ~connections'[i].waiting
    BY <1>1, <1>2, <1>3, <2>1 DEF TypeOK
  <2>. QED
    BY <1>1, <1>2, <1>3, <2>1, <2>2, <2>3, <2>4, GiveUpKeeps
<1>4. CASE Connect(Asked, Http!IfNoneMatch(Runner)) /\ sent' = TRUE /\ UNCHANGED adapter
  <2> DEFINE new == [path |-> Asked, etag |-> Http!IfNoneMatch(Runner), accepted |-> FALSE, waiting |-> TRUE]
             n   == Len(connections)
  <2>1. connections' = Append(connections, new) /\ UNCHANGED <<counts, reply, lifecycle>>
    BY <1>4 DEF Connect
  <2>2. new \in Connection
    BY <1>1, <1>2, AskedFacts, TagFacts DEF Connection
  <2>3. /\ connections' \in Seq(Connection) /\ DOMAIN connections' = 1..n + 1 /\ n \in Nat
        /\ DOMAIN connections = 1..n
        /\ connections'[n + 1] = new /\ \A i \in 1..n : connections'[i] = connections[i]
    BY <1>2, <2>1, <2>2, AppendProperties
  <2>4. /\ Http!TypeOK' /\ UNCHANGED <<place, url, cache, pc, request, cancelled, response, outcome, delivered>>
        /\ Asked' = Asked /\ Http!IfNoneMatch(Runner)' = Http!IfNoneMatch(Runner)
        /\ CacheHolds' /\ Redirected' /\ LookedUp'
    BY <1>2, <1>4, AdapterFramed
  <2>5. sent' \in BOOLEAN /\ reply' \in {NoReply} \cup Http!Response
    BY <1>2, <1>4, <2>1
  <2>6. /\ TypeOK' /\ Followed' /\ Placed' /\ FailuresHaveCauses'
        /\ phase = "asking" /\ phase' = "asking" /\ op' = op /\ (Clean' => Clean)
    BY <1>1, <1>2, <1>4, <2>1, <2>3, <2>4, <2>5, ClientKeeps
  <2>7. Answers'
    BY <1>1, <1>2, <2>1, <2>4 DEF Answers, Answering
  <2>8. Awaited'
    <3>1. \A i \in DOMAIN connections' : connections'[i].waiting <=> i = n + 1
      BY <1>2, <2>3
    <3>. QED
      BY <1>2, <1>4, <2>1, <2>3, <2>4, <3>1 DEF Awaited
  <2>9. UNCHANGED <<program, at, runs, before>>
    BY <1>1 DEF owner, suite
  <2>10. Counted' = Counted
    BY <2>1, <2>4, <2>6 DEF Counted
  <2>11. SwitchCounted' /\ OkCounted'
    BY <2>1, <2>4, <2>6, <2>9, <2>10 DEF SwitchCounted, OkCounted
  <2>12. StaleStored'
    BY <1>1, <2>4, <2>6, <2>9 DEF StaleStored, AskedBefore, Ok
  <2>13. RunsGive'
    <3>1. \A i \in DOMAIN runs : Gives(i, runs[i])' <=> Gives(i, runs[i])
      BY <2>9, GivesFrame
    <3>. QED
      BY <1>1, <2>4, <2>6, <2>9, <3>1 DEF RunsGive, Answering
  <2>. QED
    BY <2>4, <2>6, <2>7, <2>8, <2>11, <2>12, <2>13
<1>. QED
  BY <1>3, <1>4 DEF SendRequest

\* An answer that comes in time, or against all odds.
LEMMA ReceiveKeeps ==
  ASSUME IInv, ServerInv', Answered, Http!Receive(Runner, reply), TakeReply, sent' = FALSE,
         UNCHANGED owner, disturbed' \in BOOLEAN, disturbed => disturbed', faults' \in 0..MaxFaults,
         Asked # "/slow" \/ disturbed'
  PROVE  SuiteInv'
<1> USE DEF IInv, SuiteInv
<1>1. /\ place = "open" /\ place \in Asking /\ reply # NoReply /\ sent
      /\ reply' = NoReply /\ UNCHANGED <<counts, connections, lifecycle>>
      /\ response' = [response EXCEPT ![Runner] = reply]
      /\ chunks' = [chunks EXCEPT ![Runner] = 0] /\ Http!Operated(Runner)
      /\ UNCHANGED <<cache, request, cancelled, cached, chain>>
  BY DEF Answered, Http!Receive, TakeReply, place, Asking
<1>2. Http!TypeOK /\ cancelled[Runner] = FALSE /\ phase = "asking" /\ reply \in Http!Response
      /\ connections \in Seq(Connection)
  BY <1>1 DEF TypeOK, Placed
<1>3. PICK p \in {"classify", "read_check"} :
        Http!Goto(Runner, p) /\ (p = "classify" <=> reply.status = "not_modified")
  <2>1. request[Runner].method = "GET"
    BY <1>2, RequestFacts
  <2>. QED
    BY <2>1 DEF Http!Receive
<1>4. place' = p /\ pc' \in [{Runner} -> Places] /\ UNCHANGED <<outcome, delivered>> /\ place' \in Answering
  BY <1>2, <1>3, Going DEF Places, Answering
<1>5. response[Runner]' = reply /\ response' \in [{Runner} -> Http!Response] /\ chunks' \in [{Runner} -> 0..0]
  BY <1>1, <1>2, AdapterTyped
<1>6. late' \in [{Runner} -> Nat]
  BY <1>1, <1>2, OperatedFacts
<1>7. Http!TypeOK'
  BY <1>1, <1>2, <1>4, <1>5, <1>6, AdapterTypes, AdapterTyped
<1>8. /\ TypeOK' /\ Followed' /\ Placed' /\ FailuresHaveCauses'
      /\ phase' = "asking" /\ url' = url /\ op' = op /\ (Clean' => Clean)
  BY <1>1, <1>2, <1>4, <1>7, ClientKeeps
<1>9. UNCHANGED <<program, at, runs, before>>
  BY DEF owner, suite
<1>10. Asked' = Asked /\ FromFixture(reply)
  <2>1. UNCHANGED <<chain, request, cached>>
    BY <1>1
  <2>2. FromFixture(reply)
    BY <1>1 DEF Answers
  <2>. QED
    BY <2>1, <2>2, AskedFrame
<1>11. CacheHolds' /\ Redirected' /\ LookedUp'
  BY <1>1, <1>4, <1>8 DEF CacheHolds, Redirected, LookedUp, Asking, Answering
<1>12. Answers'
  <2>1. FromFixture(response[Runner])'
    <3>1. PICK hit \in {1, 2} : reply = Dispatch(Asked, hit, Http!IfNoneMatch(Runner))
      BY <1>10 DEF FromFixture
    <3>2. Http!IfNoneMatch(Runner)' = Http!IfNoneMatch(Runner)
      BY <1>1, AskedFrame
    <3>3. response[Runner]' = Dispatch(Asked, hit, Http!IfNoneMatch(Runner))'
      BY <1>5, <1>10, <3>1, <3>2 DEF Dispatch, Content, Phase
    <3>. QED
      BY <1>10, <3>3 DEF FromFixture
  <2>2. reply.status = "not_modified" => reply.kind # "cut"
    <3>1. PICK hit \in {1, 2} : reply = Dispatch(Asked, hit, Http!IfNoneMatch(Runner))
      BY <1>10 DEF FromFixture
    <3>2. Asked \in Paths /\ hit \in Nat /\ Http!IfNoneMatch(Runner) \in Nat
      BY <1>1, <1>2, AskedFacts, TagFacts
    <3>. QED
      BY <3>1, <3>2, DispatchFacts DEF Tagged
  <2>. QED
    BY <1>1, <1>3, <1>4, <1>5, <2>1, <2>2 DEF Answers
<1>13. Awaited'
  BY <1>1 DEF Awaited
<1>14. Counted' = 1 /\ Counted = 1
  BY <1>1, <1>2, <1>4, <1>8 DEF Counted
<1>15. SwitchCounted' /\ OkCounted'
  <2>1. SwitchCounted'
    <3>1. SUFFICES ASSUME Clean', op = "content-type-switch"
                   PROVE  /\ counts["/content-switch"] = Len(runs) + 1
                          /\ reply.kind = Phase(Len(runs) + 1)
      BY <1>1, <1>5, <1>8, <1>9, <1>14 DEF SwitchCounted
    <3>2. Clean
      BY <1>8, <3>1
    <3>3. reply.kind = Phase(Len(runs) + 1)
      BY <1>1, <3>1, <3>2, Zenon DEF SwitchCounted
    <3>4. Counted = 1
      BY <1>14
    <3>5. counts["/content-switch"] = Len(runs) + 1
      BY <3>1, <3>2, <3>4 DEF SwitchCounted
    <3>. QED
      BY <3>3, <3>5
  <2>2. OkCounted'
    BY <1>1, <1>8, <1>9, <1>14 DEF OkCounted
  <2>. QED
    BY <2>1, <2>2
<1>16. StaleStored'
  <2>1. place # "done" /\ place' # "done"
    BY <1>1, <1>4
  <2>. QED
    BY <1>1, <1>2, <1>8, <1>9, <2>1 DEF StaleStored, AskedBefore, Ok
<1>17. RunsGive'
  <2>1. \A i \in DOMAIN runs : Gives(i, runs[i])' <=> Gives(i, runs[i])
    BY <1>9, GivesFrame
  <2>2. Clean' => Asked' # "/slow"
    BY <1>10 DEF Clean
  <2>. QED
    BY <1>4, <1>8, <1>9, <2>1, <2>2 DEF RunsGive
<1>. QED
  BY <1>8, <1>11, <1>12, <1>13, <1>15, <1>16, <1>17

-----------------------------------------------------------------------------
(* The steps of the server keep it.                                        *)

\* The others stay, in their order.
LEMMA RemoveAtFacts ==
  ASSUME NEW S, NEW s \in Seq(S), NEW i \in DOMAIN s
  PROVE  /\ RemoveAt(s, i) \in Seq(S)
         /\ \A j \in DOMAIN RemoveAt(s, i) :
              \E k \in DOMAIN s \ {i} : RemoveAt(s, i)[j] = s[k] /\ k = IF j < i THEN j ELSE j + 1
         /\ \A k \in DOMAIN s \ {i} : \E j \in DOMAIN RemoveAt(s, i) : RemoveAt(s, i)[j] = s[k]
<1> DEFINE rest  == RemoveAt(s, i)
           of(j) == IF j < i THEN j ELSE j + 1
           front == SubSeq(s, 1, i - 1)
           back  == SubSeq(s, i + 1, Len(s))
<1>1. Len(s) \in Nat /\ i \in 1..Len(s) /\ DOMAIN s = 1..Len(s) /\ \A k \in 1..Len(s) : s[k] \in S
  OBVIOUS
<1>2. /\ front \in Seq(S) /\ Len(front) = i - 1
      /\ \A j \in 1..i - 1 : front[j] = s[j]
  BY <1>1, SubSeqProperties
<1>3. /\ back \in Seq(S) /\ Len(back) = Len(s) - i
      /\ \A j \in 1..Len(s) - i : back[j] = s[i + j]
  BY <1>1, SubSeqProperties
<1>4. rest = front \o back
  BY DEF RemoveAt
<1>5. /\ rest \in Seq(S) /\ Len(rest) = Len(s) - 1
      /\ \A j \in 1..Len(front) + Len(back) :
           rest[j] = IF j <= Len(front) THEN front[j] ELSE back[j - Len(front)]
  <2> HIDE DEF front, back
  <2>1. /\ rest \in Seq(S) /\ Len(rest) = Len(front) + Len(back)
        /\ \A j \in 1..Len(front) + Len(back) :
             rest[j] = IF j <= Len(front) THEN front[j] ELSE back[j - Len(front)]
    <3> HIDE DEF rest
    <3>. QED
      BY <1>2, <1>3, <1>4, ConcatProperties, Zenon
  <2>2. ASSUME NEW a \in Nat, NEW b \in 1..a PROVE (b - 1) + (a - b) = a - 1
    BY <2>2
  <2>3. Len(front) + Len(back) = (i - 1) + (Len(s) - i)
    BY <1>2, <1>3, Zenon
  <2>4. Len(front) + Len(back) = Len(s) - 1
    BY <1>1, <2>2, <2>3
  <2>. QED
    BY <2>1, <2>4
<1>6. \A j \in 1..Len(s) - 1 : rest[j] = s[of(j)]
  <2> HIDE DEF front, back, rest
  <2>1. SUFFICES ASSUME NEW j \in 1..Len(s) - 1 PROVE rest[j] = s[of(j)]
    OBVIOUS
  <2>2. CASE j < i
    <3>1. j \in 1..i - 1 /\ j \in 1..Len(front) + Len(back) /\ j <= Len(front)
      BY <1>1, <1>2, <1>3, <2>2
    <3>. QED
      BY <1>2, <1>5, <2>2, <3>1
  <2>3. CASE ~(j < i)
    <3>1. /\ j \in 1..Len(front) + Len(back) /\ ~(j <= Len(front))
          /\ j - Len(front) \in 1..Len(s) - i /\ i + (j - Len(front)) = j + 1
      BY <1>1, <1>2, <1>3, <2>3
    <3>2. rest[j] = back[j - Len(front)]
      BY <1>5, <3>1
    <3>. QED
      BY <1>3, <2>3, <3>1, <3>2
  <2>. QED
    BY <2>2, <2>3
<1>7. DOMAIN rest = 1..Len(s) - 1
  BY <1>5
<1>8. ASSUME NEW k \in DOMAIN s \ {i} PROVE \E j \in DOMAIN rest : rest[j] = s[k]
  <2>1. CASE k < i
    <3>1. k \in DOMAIN rest /\ of(k) = k
      BY <1>1, <1>7, <2>1
    <3>. QED
      BY <1>6, <1>7, <3>1
  <2>2. CASE k > i
    <3>1. k - 1 \in DOMAIN rest /\ of(k - 1) = k
      BY <1>1, <1>7, <2>2
    <3>. QED
      BY <1>6, <1>7, <3>1
  <2>. QED
    BY <1>1, <2>1, <2>2
<1>9. ASSUME NEW j \in DOMAIN rest
      PROVE  \E k \in DOMAIN s \ {i} : rest[j] = s[k] /\ k = IF j < i THEN j ELSE j + 1
  <2>1. of(j) \in DOMAIN s \ {i}
    BY <1>1, <1>7
  <2>2. rest[j] = s[of(j)]
    BY <1>6, <1>7
  <2>. QED
    BY <2>1, <2>2
<1>. QED
  BY <1>5, <1>8, <1>9

\* What goes on beside the adapter and the owner.
LEMMA BesideKeeps ==
  ASSUME IInv, ServerInv', UNCHANGED <<adapter, owner, sent, faults, listening>>,
         loops' = <<>> => loops = <<>>,
         counts' \in [Paths -> Nat], connections' \in Seq(Connection),
         reply' \in {NoReply} \cup Http!Response, disturbed' \in BOOLEAN, disturbed => disturbed'
  PROVE  /\ TypeOK' /\ Followed' /\ Placed' /\ CacheHolds' /\ Redirected' /\ LookedUp'
         /\ StaleStored' /\ RunsGive' /\ FailuresHaveCauses'
         /\ UNCHANGED <<program, at, phase, runs, before, place, url, response, op>>
         /\ Asked' = Asked /\ Http!IfNoneMatch(Runner)' = Http!IfNoneMatch(Runner)
         /\ (\A a : FromFixture(a)' <=> FromFixture(a)) /\ (Clean' => Clean)
<1> USE DEF IInv, SuiteInv
<1>1. UNCHANGED <<program, at, phase, runs, before, records>>
  BY DEF owner, suite
<1>2. /\ Http!TypeOK' /\ UNCHANGED <<place, url, cache, pc, request, cancelled, cached, chain, response>>
      /\ Asked' = Asked /\ Http!IfNoneMatch(Runner)' = Http!IfNoneMatch(Runner)
      /\ \A a : FromFixture(a)' <=> FromFixture(a)
      /\ CacheHolds' /\ Redirected' /\ LookedUp'
      /\ outcome' = outcome /\ delivered' = delivered
  BY AdapterFramed DEF TypeOK
<1>3. TypeOK'
  BY <1>1, <1>2 DEF TypeOK, ServerInv
<1>4. Followed' /\ FailuresHaveCauses'
  BY <1>1 DEF Followed, FailuresHaveCauses, Hosted
<1>5. op' = op /\ Script(op)' = Script(op)
  BY <1>1 DEF op, Script
<1>6. Placed'
  BY <1>1, <1>2, <1>5 DEF Placed, Ended, ScriptDone, Ok, Shares, NextUrl
<1>7. Clean' => Clean
  BY <1>1, <1>5 DEF Clean, Hosted
<1>8. StaleStored'
  BY <1>1, <1>2, <1>5 DEF StaleStored, AskedBefore, Ok
<1>9. RunsGive'
  <2>1. \A i \in DOMAIN runs : Gives(i, runs[i])' <=> Gives(i, runs[i])
    BY <1>1, GivesFrame
  <2>2. Gives(Len(runs) + 1, [code |-> outcome[Runner], result |-> delivered[Runner]])' <=>
          Gives(Len(runs) + 1, [code |-> outcome[Runner], result |-> delivered[Runner]])
    BY <1>1, <1>2, <1>5 DEF Gives, AskedBefore, Ok, Kind
  <2>. QED
    BY <1>1, <1>2, <1>7, <2>1, <2>2 DEF RunsGive
<1>. QED
  BY <1>1, <1>2, <1>3, <1>4, <1>5, <1>6, <1>7, <1>8, <1>9

\* The connection that is answered is the one that is waited for, or a stray.
LEMMA HandleRequestKeeps == ASSUME IInv, ServerInv', HandleRequest PROVE SuiteInv'
<1> USE DEF IInv, SuiteInv
<1>1. PICK i \in DOMAIN connections :
        /\ Handle(i)
        /\ disturbed' = \/ disturbed
                        \/ /\ ~Ended /\ ~connections[i].waiting
                           /\ connections[i].path \in Sensitive(op)
  BY DEF HandleRequest
<1> DEFINE c   == connections[i]
           hit == counts[c.path] + 1
<1>2. /\ counts' = [counts EXCEPT ![c.path] = hit]
      /\ reply' = IF c.waiting /\ c.path # "/network-exception"
                  THEN Dispatch(c.path, hit, c.etag) ELSE reply
      /\ connections' = RemoveAt(connections, i)
      /\ UNCHANGED lifecycle /\ UNCHANGED <<adapter, owner, sent, faults>>
  BY <1>1 DEF Handle, HandleRequest
<1>3. /\ Http!TypeOK /\ connections \in Seq(Connection) /\ counts \in [Paths -> Nat]
      /\ disturbed \in BOOLEAN /\ reply \in {NoReply} \cup Http!Response
  BY DEF TypeOK
<1>4. c \in Connection /\ c.path \in Paths /\ c.etag \in Nat /\ hit \in Nat
  <2>1. c \in Connection
    BY <1>3
  <2>2. c.path \in Paths /\ c.etag \in Nat
    BY <2>1 DEF Connection
  <2>3. counts[c.path] \in Nat
    BY <1>3, <2>2
  <2>. QED
    BY <2>1, <2>2, <2>3
<1>5. /\ connections' \in Seq(Connection)
      /\ \A j \in DOMAIN connections' :
           \E k \in DOMAIN connections \ {i} : connections'[j] = connections[k] /\ k = IF j < i THEN j ELSE j + 1
      /\ \A k \in DOMAIN connections \ {i} : \E j \in DOMAIN connections' : connections'[j] = connections[k]
  <2>1. RemoveAt(connections, i) \in Seq(Connection)
    BY <1>3, RemoveAtFacts
  <2>2. ASSUME NEW j \in DOMAIN RemoveAt(connections, i)
        PROVE  \E k \in DOMAIN connections \ {i} :
                 RemoveAt(connections, i)[j] = connections[k] /\ k = IF j < i THEN j ELSE j + 1
    BY <1>3, RemoveAtFacts
  <2>3. ASSUME NEW k \in DOMAIN connections \ {i}
        PROVE  \E j \in DOMAIN RemoveAt(connections, i) : RemoveAt(connections, i)[j] = connections[k]
    BY <1>3, RemoveAtFacts
  <2>. QED
    BY <1>2, <2>1, <2>2, <2>3
<1>6. reply' \in {NoReply} \cup Http!Response
  BY <1>2, <1>3, <1>4, DispatchFacts
<1>7. counts' \in [Paths -> Nat] /\ disturbed' \in BOOLEAN /\ (disturbed => disturbed')
  BY <1>1, <1>2, <1>3, <1>4
<1>8. listening' = listening /\ loops' = loops
  BY <1>2 DEF lifecycle
<1>9. /\ TypeOK' /\ Followed' /\ Placed' /\ CacheHolds' /\ Redirected' /\ LookedUp'
      /\ StaleStored' /\ RunsGive' /\ FailuresHaveCauses'
      /\ UNCHANGED <<program, at, phase, runs, before, place, url, response, op>>
      /\ Asked' = Asked /\ Http!IfNoneMatch(Runner)' = Http!IfNoneMatch(Runner)
      /\ (\A a : FromFixture(a)' <=> FromFixture(a)) /\ (Clean' => Clean)
  BY <1>2, <1>5, <1>6, <1>7, <1>8, BesideKeeps
<1>10. c.waiting =>
         /\ sent /\ reply = NoReply /\ place = "open" /\ phase = "asking"
         /\ c.path = Asked /\ c.etag = Http!IfNoneMatch(Runner)
         /\ \A k \in DOMAIN connections \ {i} : ~connections[k].waiting
  BY DEF Awaited, Placed
<1>11. CASE c.waiting /\ c.path # "/network-exception"
  <2>1. /\ reply' = Dispatch(c.path, hit, c.etag) /\ reply' # NoReply
        /\ c.path = "/content-switch" => reply'.kind = Phase(hit)
    BY <1>2, <1>4, <1>11, DispatchFacts, ParityCounts
  <2>2. FromFixture(Dispatch(c.path, hit, c.etag))
    BY <1>4, <1>10, <1>11, ParityCounts DEF FromFixture
  <2>3. Answers'
    <3>1. FromFixture(reply)'
      <4>1. PICK h \in {1, 2} : reply' = Dispatch(Asked, h, Http!IfNoneMatch(Runner))
        BY <2>1, <2>2 DEF FromFixture
      <4>2. reply' = Dispatch(Asked, h, Http!IfNoneMatch(Runner))'
        BY <1>9, <4>1 DEF Dispatch, Content, Phase
      <4>. QED
        BY <1>9, <1>10, <1>11, <4>2 DEF FromFixture
    <3>. QED
      BY <1>2, <1>9, <1>10, <1>11, <3>1 DEF Answers, Answering
  <2>4. Awaited'
    BY <1>5, <1>9, <1>10, <1>11, <2>1 DEF Awaited
  <2>5. Counted = 0 /\ Counted' = 1
    BY <1>9, <1>10, <1>11, <2>1 DEF Counted, Answering
  <2>6. SwitchCounted'
    <3>1. SUFFICES ASSUME Clean', op = "content-type-switch"
                   PROVE  counts'["/content-switch"] = Len(runs) + 1 /\ reply'.kind = Phase(Len(runs) + 1)
      BY <1>9, <1>10, <1>11, <2>5 DEF SwitchCounted, Answering
    <3>2. Clean
      BY <1>9, <3>1
    <3>3. url = "/content-switch" /\ Len(runs) \in Nat
      BY <1>10, <1>11, <3>1, <3>2, UrlOfRun DEF Clean, ErrorScenario
    <3>4. Asked = "/content-switch"
      BY <1>3, <3>3, AskedFacts, MovedFacts DEF PathOf, Queried
    <3>5. counts["/content-switch"] = Len(runs)
      BY <2>5, <3>1, <3>2, <3>3 DEF SwitchCounted
    <3>6. hit = Len(runs) + 1
      BY <1>10, <1>11, <3>4, <3>5
    <3>7. counts'["/content-switch"] = hit /\ reply'.kind = Phase(hit)
      BY <1>2, <1>3, <1>4, <1>10, <1>11, <2>1, <3>4
    <3>. QED
      BY <3>6, <3>7
  <2>7. OkCounted'
    <3>1. SUFFICES ASSUME Clean', op = "duplicate-urls"
                   PROVE  OkCounted'
      BY <1>9 DEF OkCounted
    <3>2. Clean
      BY <1>9, <3>1
    <3>3. \/ Len(runs) = 0 /\ url = "/duplicate-urls"
          \/ Len(runs) = 1 /\ url = "/ok?b=2&a=1"
          \/ Len(runs) = 3 /\ url = "/ok?a=1&b=3"
      BY <1>10, <1>11, <3>1, <3>2, UrlOfRun DEF Clean, ErrorScenario
    <3>4. /\ Len(runs) = 0 => Asked = "/duplicate-urls"
          /\ Len(runs) # 0 => Asked = "/ok"
      <4>1. url \notin DOMAIN Moved
        BY <3>3, MovedFacts
      <4>2. Asked = PathOf(url)
        BY <1>3, <1>10, <1>11, <4>1, AskedFacts DEF Asking
      <4>. QED
        BY <3>3, <4>2 DEF PathOf, Queried
    <3>5. counts'["/ok"] = IF Len(runs) = 0 THEN counts["/ok"] ELSE counts["/ok"] + 1
      <4>1. CASE Len(runs) = 0
        BY <1>2, <1>3, <1>4, <1>10, <1>11, <3>4, <4>1 DEF Paths
      <4>2. CASE Len(runs) # 0
        BY <1>2, <1>3, <1>4, <1>10, <1>11, <3>4, <4>2
      <4>. QED
        BY <4>1, <4>2
    <3>6. before = 0 /\ counts["/ok"] = IF Len(runs) = 3 THEN 1 ELSE 0
      <4>1. before = 0
        BY <3>1, <3>2, Zenon DEF OkCounted
      <4>2. counts["/ok"] = (IF Len(runs) <= 1 THEN 0 ELSE IF Len(runs) <= 3 THEN 1 ELSE 2)
                            + (IF Len(runs) \in {1, 3} THEN Counted ELSE 0)
        BY <3>1, <3>2, Zenon DEF OkCounted
      <4>3. ASSUME NEW a, NEW b, a = 0 \/ a = 1 \/ a = 3, b = 0
            PROVE  (IF a <= 1 THEN 0 ELSE IF a <= 3 THEN 1 ELSE 2) + (IF a \in {1, 3} THEN b ELSE 0)
                     = IF a = 3 THEN 1 ELSE 0
        BY <4>3
      <4>4. Len(runs) = 0 \/ Len(runs) = 1 \/ Len(runs) = 3
        BY <3>3
      <4>5. counts["/ok"] = IF Len(runs) = 3 THEN 1 ELSE 0
        <5>1. Counted = 0
          BY <2>5
        <5>. QED
          BY <4>2, <4>3, <4>4, <5>1, Zenon
      <4>. QED
        BY <4>1, <4>5
    <3>7. CASE Len(runs) = 0
      <4>1. counts'["/ok"] = 0
        BY <3>5, <3>6, <3>7
      <4>. QED
        BY <1>9, <3>6, <3>7, <4>1 DEF OkCounted
    <3>8. CASE Len(runs) = 1
      <4>1. counts'["/ok"] = 1
        BY <3>5, <3>6, <3>8
      <4>. QED
        BY <1>9, <2>5, <3>6, <3>8, <4>1 DEF OkCounted
    <3>9. CASE Len(runs) = 3
      <4>1. counts'["/ok"] = 2
        BY <3>5, <3>6, <3>9
      <4>. QED
        BY <1>9, <2>5, <3>6, <3>9, <4>1 DEF OkCounted
    <3>. QED
      BY <3>3, <3>7, <3>8, <3>9
  <2>. QED
    BY <1>9, <2>3, <2>4, <2>6, <2>7
<1>12. CASE ~(c.waiting /\ c.path # "/network-exception")
  <2>1. reply' = reply
    BY <1>2, <1>12
  <2>2. Answers'
    BY <1>2, <1>9, <2>1 DEF Answers
  <2>3. c.waiting => Asked = "/network-exception"
    BY <1>10, <1>12
  <2>4. Awaited'
    <3>1. ASSUME NEW j \in DOMAIN connections', connections'[j].waiting
          PROVE  /\ sent /\ reply = NoReply
                 /\ connections'[j].path = Asked /\ connections'[j].etag = Http!IfNoneMatch(Runner)
                 /\ \A l \in DOMAIN connections' : connections'[l].waiting => l = j
      <4>1. PICK k \in DOMAIN connections \ {i} :
              connections'[j] = connections[k] /\ k = IF j < i THEN j ELSE j + 1
        BY <1>5
      <4>2. /\ sent /\ reply = NoReply
            /\ connections[k].path = Asked /\ connections[k].etag = Http!IfNoneMatch(Runner)
            /\ \A m \in DOMAIN connections : connections[m].waiting => m = k
        BY <3>1, <4>1 DEF Awaited
      <4>3. ASSUME NEW l \in DOMAIN connections', connections'[l].waiting PROVE l = j
        <5>1. PICK m \in DOMAIN connections \ {i} :
                connections'[l] = connections[m] /\ m = IF l < i THEN l ELSE l + 1
          BY <1>5
        <5>2. m = k
          BY <4>2, <4>3, <5>1
        <5>3. i \in Nat /\ j \in Nat /\ l \in Nat
          <6>1. DOMAIN connections = 1..Len(connections) /\ Len(connections) \in Nat
            BY <1>3
          <6>2. DOMAIN connections' = 1..Len(connections') /\ Len(connections') \in Nat
            BY <1>5
          <6>. QED
            BY <3>1, <4>3, <6>1, <6>2
        <5>4. ASSUME NEW a \in Nat, NEW b \in Nat, NEW d \in Nat,
                     (IF a < d THEN a ELSE a + 1) = (IF b < d THEN b ELSE b + 1)
              PROVE  a = b
          BY <5>4
        <5>. QED
          BY <4>1, <5>1, <5>2, <5>3, <5>4
      <4>. QED
        BY <4>1, <4>2, <4>3
    <3>2. ASSUME sent, reply = NoReply, \A j \in DOMAIN connections' : ~connections'[j].waiting
          PROVE  Asked = "/network-exception"
      <4>1. \A k \in DOMAIN connections \ {i} : ~connections[k].waiting
        BY <1>5, <3>2
      <4>. QED
        BY <2>3, <3>2, <4>1 DEF Awaited
    <3>. QED
      BY <1>2, <1>9, <2>1, <3>1, <3>2 DEF Awaited
  <2>5. Counted' = Counted
    BY <1>9, <2>1 DEF Counted
  <2>6. SwitchCounted'
    <3>1. SUFFICES ASSUME Clean', op = "content-type-switch" PROVE c.path # "/content-switch"
      BY <1>2, <1>3, <1>4, <1>9, <2>1, <2>5 DEF SwitchCounted
    <3>2. Clean /\ ~disturbed' /\ ~Ended
      BY <1>9, <3>1 DEF Clean, Placed
    <3>3. CASE c.waiting
      BY <1>10, <1>12, <3>3
    <3>4. CASE ~c.waiting
      BY <1>1, <3>1, <3>2, <3>4 DEF Sensitive
    <3>. QED
      BY <3>3, <3>4
  <2>7. OkCounted'
    <3>1. SUFFICES ASSUME Clean', op = "duplicate-urls" PROVE c.path # "/ok"
      BY <1>2, <1>3, <1>4, <1>9, <2>1, <2>5 DEF OkCounted
    <3>2. Clean /\ ~disturbed' /\ ~Ended
      BY <1>9, <3>1 DEF Clean, Placed
    <3>3. CASE c.waiting
      BY <1>10, <1>12, <3>3
    <3>4. CASE ~c.waiting
      BY <1>1, <3>1, <3>2, <3>4 DEF Sensitive
    <3>. QED
      BY <3>3, <3>4
  <2>. QED
    BY <1>9, <2>2, <2>4, <2>6, <2>7
<1>. QED
  BY <1>11, <1>12


\* The loop only moves on, and takes what is next in its queue.
LEMMA ServeKeeps == ASSUME IInv, ServerInv', Serve PROVE SuiteInv'
<1> USE DEF IInv, SuiteInv
<1>1. PICK i \in DOMAIN loops : ServeForever(i)
  BY DEF Serve
<1>2. UNCHANGED <<adapter, owner, sent, faults, disturbed>>
  BY DEF Serve
<1>3. loops \in Seq(LoopStates) /\ connections \in Seq(Connection) /\ counts \in [Paths -> Nat]
      /\ disturbed \in BOOLEAN /\ reply \in {NoReply} \cup Http!Response
  BY DEF TypeOK, ServerTypes
<1>4. \E to : loops' = [loops EXCEPT ![i] = to]
  BY <1>1 DEF ServeForever, Clear, Register, Poll, Accept, Leave, Announce, At
<1>5. loops' # <<>>
  BY <1>3, <1>4
<1>6. UNCHANGED <<counts, reply, listening>>
  BY <1>1 DEF ServeForever, Clear, Register, Poll, Accept, Leave, Announce, traffic
<1>7. \/ connections' = connections
      \/ \E j \in DOMAIN connections : connections' = [connections EXCEPT ![j].accepted = TRUE]
  BY <1>1 DEF ServeForever, Clear, Register, Poll, Accept, Leave, Announce, traffic
<1>8. /\ connections' \in Seq(Connection) /\ DOMAIN connections' = DOMAIN connections
      /\ \A k \in DOMAIN connections :
           /\ connections'[k].waiting = connections[k].waiting
           /\ connections'[k].path = connections[k].path
           /\ connections'[k].etag = connections[k].etag
  <2>1. CASE connections' = connections
    BY <1>3, <2>1
  <2>2. ASSUME NEW j \in DOMAIN connections, connections' = [connections EXCEPT ![j].accepted = TRUE]
        PROVE  <1>8!:
    <3>1. connections[j] \in Connection
      BY <1>3
    <3>2. [connections[j] EXCEPT !.accepted = TRUE] \in Connection
      BY <3>1 DEF Connection
    <3>3. connections' \in Seq(Connection) /\ DOMAIN connections' = DOMAIN connections
      BY <1>3, <2>2, <3>2
    <3>4. ASSUME NEW k \in DOMAIN connections
          PROVE  /\ connections'[k].waiting = connections[k].waiting
                 /\ connections'[k].path = connections[k].path
                 /\ connections'[k].etag = connections[k].etag
      <4>1. connections[k] \in Connection
        BY <1>3
      <4>. QED
        BY <2>2, <4>1 DEF Connection
    <3>. QED
      BY <3>3, <3>4
  <2>. QED
    BY <1>7, <2>1, <2>2
<1>9. /\ TypeOK' /\ Followed' /\ Placed' /\ CacheHolds' /\ Redirected' /\ LookedUp'
      /\ StaleStored' /\ RunsGive' /\ FailuresHaveCauses'
      /\ UNCHANGED <<program, at, phase, runs, before, place, url, response, op>>
      /\ Asked' = Asked /\ Http!IfNoneMatch(Runner)' = Http!IfNoneMatch(Runner)
      /\ (\A a : FromFixture(a)' <=> FromFixture(a)) /\ (Clean' => Clean)
  BY <1>2, <1>3, <1>5, <1>6, <1>8, BesideKeeps
<1>10. sent' = sent /\ Counted' = Counted
  BY <1>2, <1>6, <1>9 DEF Counted
<1>11. Answers'
  BY <1>6, <1>9, <1>10 DEF Answers
<1>12. Awaited'
  BY <1>6, <1>8, <1>9, <1>10 DEF Awaited
<1>13. SwitchCounted' /\ OkCounted'
  BY <1>6, <1>9, <1>10 DEF SwitchCounted, OkCounted
<1>. QED
  BY <1>9, <1>11, <1>12, <1>13


-----------------------------------------------------------------------------
(* The steps of the owner keep it.                                         *)

LEMMA StepKinds ==
  ASSUME NEW step \in Scenarios \cup FixtureUrls
  PROVE  step \notin {"start", "stop", "wait"}
BY DEF Scenarios, ErrorScenario, LongScenario, FixtureUrls, Paths, Queried

LEMMA ProgramFacts ==
  ASSUME TypeOK
  PROVE  /\ program \in Seq(Steps) /\ Len(program) \in Nat /\ DOMAIN program = 1..Len(program)
         /\ at \in Nat
         /\ ~Ended => at \in 1..Len(program) /\ op \in Steps /\ at + 1 \in 1..Len(program) + 1
<1>1. program \in Seq(Steps) /\ at \in 1..Len(program) + 1
  BY ProgramsAssumption DEF TypeOK
<1>2. ASSUME NEW n \in Nat, NEW a \in 1..n + 1
      PROVE  a \in Nat /\ (~(a > n) => a \in 1..n /\ a + 1 \in 1..n + 1)
  OBVIOUS
<1>. QED
  BY <1>1, <1>2 DEF Ended, op

\* What was asked for stays asked for as the program goes on.
LEMMA AskedBeforeGrows ==
  ASSUME TypeOK, program' = program, at' = at \/ at' = at + 1
  PROVE  /\ AskedBefore => AskedBefore'
         /\ at' = at + 1 /\ AsksFor(op, "/stale-etag") => AskedBefore'
<1>1. at \in Nat \ {0}
  <2>1. at \in 1..Len(program) + 1 /\ Len(program) \in Nat
    BY ProgramFacts DEF TypeOK
  <2>. QED
    BY <2>1
<1>2. 1..at - 1 \subseteq 1..at' - 1
  BY <1>1
<1>3. at' = at + 1 => at \in 1..at' - 1
  BY <1>1
<1>. QED
  BY <1>2, <1>3 DEF AskedBefore, op, AsksFor, Script

\* The owner goes on between two scenarios, or from a scenario to the next step.
LEMMA BetweenKeeps ==
  ASSUME IInv, ServerInv', phase # "asking", phase' = "ready",
         UNCHANGED <<adapter, program, sent, disturbed, faults, counts, reply>>,
         (phase = "ready" /\ at' = at) \/ (~Ended /\ at' = at + 1),
         Followed', runs' = runs \/ runs' = <<>>, before' = 0,
         records' \in Seq(Records), FailuresHaveCauses',
         connections' \in Seq(Connection),
         \A i \in DOMAIN connections' : i \in DOMAIN connections /\ connections'[i] = connections[i]
  PROVE  SuiteInv'
<1> USE DEF IInv, SuiteInv
<1>1. place \in {"idle", "done"} /\ ~sent /\ reply = NoReply
      /\ \A i \in DOMAIN connections : ~connections[i].waiting
  BY DEF Placed, Answers, Awaited
<1>2. /\ Http!TypeOK' /\ UNCHANGED <<place, url, cache, pc, request, cancelled, cached, chain, response>>
      /\ Asked' = Asked /\ CacheHolds' /\ Redirected' /\ LookedUp'
  BY AdapterFramed DEF TypeOK
<1>3. at' \in 1..Len(program') + 1
  BY ProgramFacts DEF TypeOK
<1>4. runs' \in Seq([code : Http!Codes, result : Http!Results]) /\ before' \in Nat
  <2>1. ASSUME NEW S PROVE <<>> \in Seq(S)
    OBVIOUS
  <2>2. runs \in Seq([code : Http!Codes, result : Http!Results])
    BY DEF TypeOK
  <2>. QED
    BY <2>1, <2>2
<1>5. TypeOK'
  BY <1>2, <1>3, <1>4 DEF TypeOK, ServerInv
<1>6. Placed'
  BY <1>1, <1>2 DEF Placed
<1>7. Answers' /\ Awaited'
  BY <1>1, <1>2 DEF Answers, Awaited, Answering
<1>8. SwitchCounted' /\ OkCounted' /\ RunsGive'
  BY DEF SwitchCounted, OkCounted, RunsGive, Clean
<1>9. StaleStored'
  <2>1. cache[Stale] # Http!NoEntry => AskedBefore \/ (phase # "ready" /\ AsksFor(op, "/stale-etag"))
    BY DEF StaleStored
  <2>2. cache[Stale] # Http!NoEntry => AskedBefore'
    BY <2>1, AskedBeforeGrows
  <2>. QED
    BY <1>2, <2>2 DEF StaleStored
<1>. QED
  BY <1>2, <1>5, <1>6, <1>7, <1>8, <1>9


\* A step that is no scenario.
LEMMA StepKeeps ==
  ASSUME IInv, ServerInv', ~Ended, op \in {"start", "stop", "wait"},
         UNCHANGED <<adapter, program, phase, sent, suite, disturbed, faults, counts, reply>>,
         at' = at \/ at' = at + 1, Followed', connections' \in Seq(Connection),
         \A i \in DOMAIN connections' : i \in DOMAIN connections /\ connections'[i] = connections[i]
  PROVE  SuiteInv'
<1> USE DEF IInv, SuiteInv
<1>1. phase = "ready" /\ before = 0
  <2>1. phase # "ready" => op \in Scenarios \cup FixtureUrls
    BY DEF Placed
  <2>2. phase = "ready"
    BY <2>1, StepKinds
  <2>. QED
    BY <2>2 DEF Placed
<1>2. UNCHANGED <<phase, runs, before, records>>
  BY DEF suite
<1>3. records' \in Seq(Records)
  BY <1>2 DEF TypeOK
<1>4. FailuresHaveCauses'
  BY <1>2 DEF FailuresHaveCauses, Hosted
<1>. QED
  BY <1>1, <1>2, <1>3, <1>4, BetweenKeeps

\* The steps of the program up to the next one.
LEMMA StepsSoFar ==
  ASSUME TypeOK, at' = at + 1 PROVE 1..at' - 1 = (1..at - 1) \cup {at}
<1>1. at \in Nat \ {0}
  <2>1. at \in 1..Len(program) + 1 /\ Len(program) \in Nat
    BY ProgramFacts DEF TypeOK
  <2>. QED
    BY <2>1
<1>. QED
  BY <1>1

LEMMA FollowedOn ==
  ASSUME TypeOK, Followed, program' = program,
         at' = at \/ (at' = at + 1 /\ (op = "start" => loops' # <<>>)),
         ~listening' => ~listening \/ (op = "stop" /\ at' = at + 1),
         loops' = <<>> => loops = <<>>
  PROVE  Followed'
<1>1. CASE at' = at
  BY <1>1, StepsSoFar DEF Followed
<1>2. CASE at' = at + 1
  BY <1>2, StepsSoFar DEF Followed, op
<1>. QED
  BY <1>1, <1>2

LEMMA StartServerKeeps == ASSUME IInv, ServerInv', StartServer PROVE SuiteInv'
<1> USE DEF IInv, SuiteInv
<1>1. /\ ~Ended /\ op = "start" /\ at' = at + 1 /\ Start
      /\ UNCHANGED <<adapter, program, phase, sent, suite, disturbed, faults>>
  BY DEF StartServer, Advance
<1>2. UNCHANGED <<listening, counts, connections, reply>>
  BY <1>1 DEF Start, traffic
<1>3. loops \in Seq(LoopStates) /\ thread \in 0..Len(loops) /\ connections \in Seq(Connection)
  BY DEF TypeOK, ServerTypes
<1>4. loops' # <<>>
  <2>1. CASE StartsThread
    <3>1. loops' = Append(loops, "new")
      BY <1>1, <2>1 DEF Start
    <3>2. Len(loops') = Len(loops) + 1 /\ Len(loops) \in Nat
      BY <1>3, <3>1
    <3>. QED
      BY <3>2
  <2>2. CASE ~StartsThread
    <3>1. loops' = loops /\ thread # 0
      BY <1>1, <2>2 DEF Start, StartsThread
    <3>. QED
      BY <1>3, <3>1
  <2>. QED
    BY <2>1, <2>2
<1>5. Followed'
  BY <1>1, <1>2, <1>4, FollowedOn
<1>. QED
  BY <1>1, <1>2, <1>3, <1>5, StepKeeps

LEMMA StopServerKeeps == ASSUME IInv, ServerInv', StopServer PROVE SuiteInv'
<1> USE DEF IInv, SuiteInv
<1>1. /\ ~Ended /\ op = "stop"
      /\ UNCHANGED <<adapter, program, phase, sent, suite, disturbed, faults>>
      /\ \/ (Stop \/ Stopping) /\ at' = at
         \/ Close /\ at' = at + 1
  BY DEF StopServer, Advance
<1>2. connections \in Seq(Connection)
  BY DEF TypeOK
<1>3. CASE (Stop \/ Stopping) /\ at' = at
  <2>1. UNCHANGED <<listening, loops, counts, connections, reply>>
    BY <1>3 DEF Stop, Stopping, ShutDown, Join, traffic
  <2>2. Followed'
    BY <1>1, <1>3, <2>1, FollowedOn
  <2>. QED
    BY <1>1, <1>2, <1>3, <2>1, <2>2, StepKeeps
<1>4. CASE Close /\ at' = at + 1
  <2>1. UNCHANGED <<loops, counts, reply>> /\ listening' = FALSE
    BY <1>4 DEF Close, SocketAfterClose
  <2>2. PICK n \in 0..Len(connections) : connections' = SubSeq(connections, 1, n)
    BY <1>4 DEF Close
  <2>3. /\ connections' \in Seq(Connection)
        /\ \A i \in DOMAIN connections' : i \in DOMAIN connections /\ connections'[i] = connections[i]
    <3>1. Len(connections) \in Nat /\ DOMAIN connections = 1..Len(connections)
      BY <1>2
    <3>2. /\ connections' \in Seq(Connection) /\ DOMAIN connections' = 1..n
          /\ \A i \in 1..n : connections'[i] = connections[i]
      BY <1>2, <2>2, <3>1, SubSeqProperties
    <3>3. ASSUME NEW l \in Nat, NEW m \in 0..l PROVE 1..m \subseteq 1..l
      OBVIOUS
    <3>4. 1..n \subseteq DOMAIN connections
      BY <3>1, <3>3, Zenon
    <3>. QED
      BY <3>2, <3>4
  <2>4. Followed'
    BY <1>1, <1>4, <2>1, FollowedOn
  <2>. QED
    BY <1>1, <1>4, <2>1, <2>3, <2>4, StepKeeps
<1>. QED
  BY <1>1, <1>3, <1>4

LEMMA WaitKeeps == ASSUME IInv, ServerInv', ThreadDead \/ KeyboardInterrupt PROVE SuiteInv'
<1> USE DEF IInv, SuiteInv
<1>1. /\ ~Ended /\ op = "wait" /\ at' = at + 1
      /\ UNCHANGED <<server, adapter, program, phase, sent, suite, disturbed, faults>>
  BY DEF ThreadDead, KeyboardInterrupt, Advance
<1>2. UNCHANGED <<listening, loops, counts, connections, reply>> /\ connections \in Seq(Connection)
  BY <1>1 DEF server, lifecycle, traffic, TypeOK
<1>3. Followed'
  BY <1>1, <1>2, FollowedOn
<1>. QED
  BY <1>1, <1>2, <1>3, StepKeeps


LEMMA BeginScenarioKeeps == ASSUME IInv, ServerInv', BeginScenario PROVE SuiteInv'
<1> USE DEF IInv, SuiteInv
<1>1. /\ ~Ended /\ op \in Scenarios \cup FixtureUrls /\ phase = "ready" /\ phase' = "running"
      /\ runs' = <<>> /\ disturbed' = FALSE
      /\ UNCHANGED <<lifecycle, connections, reply, adapter, program, at, sent, before, records, faults>>
  BY DEF BeginScenario
<1>2. /\ counts' \in [Paths -> Nat]
      /\ op \in Scenarios => counts'["/ok"] = 0 /\ counts'["/content-switch"] = 0
  <2>1. CASE op \in Scenarios
    <3>1. counts' = [p \in Paths |-> 0]
      BY <2>1 DEF BeginScenario, Reset
    <3>2. "/ok" \in Paths /\ "/content-switch" \in Paths
      BY DEF Paths
    <3>. QED
      BY <3>1, <3>2
  <2>2. CASE op \notin Scenarios
    BY <2>2 DEF BeginScenario, TypeOK
  <2>. QED
    BY <2>1, <2>2
<1>3. place \in {"idle", "done"} /\ before = 0 /\ ~sent /\ reply = NoReply
  BY <1>1 DEF Placed, Answers
<1>4. /\ Http!TypeOK' /\ UNCHANGED <<place, url, cache, pc, request, cancelled, cached, chain, response>>
      /\ Asked' = Asked /\ Http!IfNoneMatch(Runner)' = Http!IfNoneMatch(Runner)
      /\ CacheHolds' /\ Redirected' /\ LookedUp'
  BY <1>1, AdapterFramed DEF TypeOK
<1>5. op' = op /\ Script(op)' = Script(op) /\ (Ended' <=> Ended) /\ (AskedBefore' <=> AskedBefore)
  BY <1>1 DEF op, Script, Ended, AskedBefore
<1>6. Len(runs') = 0 /\ DOMAIN runs' = {}
  BY <1>1
<1>7. TypeOK'
  <2>1. ASSUME NEW S PROVE <<>> \in Seq(S)
    OBVIOUS
  <2>. QED
    BY <1>1, <1>2, <1>4, <2>1 DEF TypeOK, ServerInv
<1>8. Followed' /\ FailuresHaveCauses'
  BY <1>1 DEF Followed, FailuresHaveCauses, Hosted, lifecycle
<1>9. Placed'
  <2>1. Len(Script(op)) \in Nat
    BY <1>1, ScriptFacts
  <2>2. Len(runs') <= Len(Script(op)')
    BY <1>5, <1>6, <2>1
  <2>. QED
    BY <1>1, <1>3, <1>4, <1>5, <2>2 DEF Placed
<1>10. Answers' /\ Awaited'
  BY <1>1, <1>3, <1>4 DEF Answers, Awaited, Answering
<1>11. Counted' = 0
  BY <1>1 DEF Counted
<1>12. SwitchCounted'
  <2>1. Clean' /\ op' = "content-type-switch" => counts'["/content-switch"] = 0
    BY <1>2, <1>5 DEF Clean
  <2>2. Len(runs') + Counted' = 0
    BY <1>6, <1>11
  <2>. QED
    BY <1>1, <1>3, <1>4, <2>1, <2>2 DEF SwitchCounted, Answering
<1>13. OkCounted'
  <2>1. Clean' /\ op' = "duplicate-urls" => counts'["/ok"] = 0
    BY <1>2, <1>5 DEF Clean
  <2>2. (IF Len(runs') <= 1 THEN 0 ELSE IF Len(runs') <= 3 THEN 1 ELSE 2)
        + (IF Len(runs') \in {1, 3} THEN Counted' ELSE 0) = 0
    BY <1>6
  <2>. QED
    BY <1>1, <1>3, <2>1, <2>2 DEF OkCounted
<1>14. StaleStored'
  <2>1. cache[Stale] # Http!NoEntry => AskedBefore
    BY <1>1 DEF StaleStored
  <2>. QED
    BY <1>1, <1>4, <1>5, <2>1 DEF StaleStored
<1>15. RunsGive'
  BY <1>1, <1>6 DEF RunsGive
<1>. QED
  BY <1>4, <1>7, <1>8, <1>9, <1>10, <1>12, <1>13, <1>14, <1>15


\* Within a scenario the owner leaves the server alone.
LEMMA WithinKeeps ==
  ASSUME IInv, ServerInv', phase # "ready", phase' \in {"running", "asking"},
         UNCHANGED <<server, program, at, sent, records, disturbed, faults>>, Http!TypeOK',
         runs' \in Seq([code : Http!Codes, result : Http!Results]), before' \in Nat
  PROVE  /\ TypeOK' /\ Followed' /\ FailuresHaveCauses'
         /\ op' = op /\ Script(op)' = Script(op) /\ (Ended' <=> Ended) /\ (Clean' <=> Clean)
         /\ (AskedBefore' <=> AskedBefore) /\ UNCHANGED <<counts, connections, reply>>
<1> USE DEF IInv, SuiteInv
<1>1. UNCHANGED <<counts, connections, reply, listening, loops>>
  BY DEF server, lifecycle, traffic
<1>2. op' = op /\ Script(op)' = Script(op) /\ (Ended' <=> Ended) /\ (AskedBefore' <=> AskedBefore)
  BY DEF op, Script, Ended, AskedBefore
<1>3. TypeOK'
  BY <1>1 DEF TypeOK, ServerInv
<1>4. Followed' /\ FailuresHaveCauses' /\ (Clean' <=> Clean)
  BY <1>1, <1>2 DEF Followed, FailuresHaveCauses, Hosted, Clean
<1>. QED
  BY <1>1, <1>2, <1>3, <1>4

\* Where the scenario is in its script.
LEMMA NextFacts ==
  ASSUME TypeOK, Placed, phase # "ready", ~ScriptDone
  PROVE  /\ op \in Scenarios \cup FixtureUrls /\ ~Ended
         /\ Len(runs) \in Nat /\ DOMAIN runs = 1..Len(runs)
         /\ Len(Script(op)) \in Nat /\ Len(runs) + 1 \in 1..Len(Script(op))
         /\ NextUrl \in FixtureUrls
         /\ op = "redirect" => NextUrl = "/redirect"
<1>1. op \in Scenarios \cup FixtureUrls /\ ~Ended /\ Len(runs) <= Len(Script(op))
  BY DEF Placed
<1>2. Len(runs) \in Nat /\ DOMAIN runs = 1..Len(runs)
  BY DEF TypeOK
<1>3. Script(op) \in Seq(FixtureUrls) /\ Len(Script(op)) \in Nat
  BY <1>1, ScriptFacts
<1>4. Len(runs) + 1 \in 1..Len(Script(op))
  <2>1. ASSUME NEW n \in Nat, NEW m \in Nat, n <= m, n # m PROVE n + 1 \in 1..m
    BY <2>1
  <2>2. Len(runs) # Len(Script(op))
    BY DEF ScriptDone
  <2>. QED
    BY <1>1, <1>2, <1>3, <2>1, <2>2
<1>5. NextUrl \in FixtureUrls
  BY <1>3, <1>4 DEF NextUrl
<1>6. op = "redirect" => NextUrl = "/redirect"
  <2>1. SUFFICES ASSUME op = "redirect" PROVE NextUrl = "/redirect"
    OBVIOUS
  <2>2. Script(op) = <<"/redirect">>
    BY <2>1 DEF Script, ErrorScenario, LongScenario
  <2>3. Len(Script(op)) = 1 /\ Script(op)[1] = "/redirect"
    BY <2>2
  <2>4. ASSUME NEW n \in Nat, n + 1 \in 1..1 PROVE n + 1 = 1
    BY <2>4
  <2>. QED
    BY <1>2, <1>4, <2>3, <2>4 DEF NextUrl
<1>. QED
  BY <1>1, <1>2, <1>3, <1>4, <1>5, <1>6

LEMMA AskKeeps == ASSUME IInv, ServerInv', Ask PROVE SuiteInv'
<1> USE DEF IInv, SuiteInv
<1> DEFINE asked == RequestTo(NextUrl, IF op = "redirect" THEN {"data"} ELSE {})
<1>1. /\ phase = "running" /\ ~ScriptDone /\ ~\E i \in DOMAIN runs : Shares(i)
      /\ Http!BeginWith(Runner, asked) /\ phase' = "asking"
      /\ UNCHANGED <<server, program, at, sent, runs, before, records, disturbed, faults>>
  BY DEF Ask, suite
<1>2. Http!TypeOK /\ Placed /\ TypeOK
  BY DEF TypeOK
<1>3. place \in {"idle", "done"} /\ ~sent /\ reply = NoReply /\ chain[Runner] = <<>>
      /\ \A i \in DOMAIN connections : ~connections[i].waiting
  BY <1>1 DEF Placed, Answers, Awaited, Redirected, Asking
<1>4. asked \in FixtureRequests
  BY <1>1, <1>2, NextFacts DEF FixtureRequests
<1>5. /\ request' = [request EXCEPT ![Runner] = asked] /\ pc' = [pc EXCEPT ![Runner] = "start"]
      /\ cancelled' = [cancelled EXCEPT ![Runner] = FALSE]
      /\ outcome' = [outcome EXCEPT ![Runner] = "none"]
      /\ delivered' = [delivered EXCEPT ![Runner] = Http!NoResult]
      /\ late' = [late EXCEPT ![Runner] = 0]
      /\ UNCHANGED <<cache, cached, chain, response, chunks>>
  BY <1>1 DEF Http!BeginWith, Http!local
<1>6. Http!TypeOK'
  <2>1. "start" \in Places /\ "none" \in Http!Codes /\ Http!NoResult \in Http!Results
    BY DEF Places, Http!Codes, Http!Results
  <2>. QED
    BY <1>2, <1>4, <1>5, <2>1, AdapterTyped, AdapterTypes
<1>7. place' = "start" /\ request'[Runner] = asked /\ cancelled'[Runner] = FALSE
  BY <1>2, <1>5, AdapterTyped DEF place
<1>8. runs' \in Seq([code : Http!Codes, result : Http!Results]) /\ before' \in Nat
  BY <1>1, <1>2 DEF TypeOK
<1>9. /\ TypeOK' /\ Followed' /\ FailuresHaveCauses'
      /\ op' = op /\ Script(op)' = Script(op) /\ (Ended' <=> Ended) /\ (Clean' <=> Clean)
      /\ (AskedBefore' <=> AskedBefore) /\ UNCHANGED <<counts, connections, reply>>
  BY <1>1, <1>6, <1>8, WithinKeeps
<1>10. Placed'
  <2>1. NextUrl' = NextUrl /\ (ScriptDone' <=> ScriptDone) /\ (\A i : Shares(i)' <=> Shares(i))
    BY <1>1, <1>9 DEF NextUrl, ScriptDone, Shares, Ok
  <2>. QED
    BY <1>1, <1>2, <1>3, <1>7, <1>9, <2>1 DEF Placed
<1>11. CacheHolds' /\ Redirected' /\ LookedUp'
  BY <1>3, <1>5, <1>7 DEF CacheHolds, Redirected, LookedUp, Asking
<1>12. Answers' /\ Awaited'
  BY <1>1, <1>3, <1>7, <1>9 DEF Answers, Awaited, Answering
<1>13. Counted' = 0 /\ Counted = 0
  BY <1>1, <1>3, <1>7, <1>9 DEF Counted, Answering
<1>14. SwitchCounted' /\ OkCounted'
  BY <1>1, <1>3, <1>7, <1>9, <1>13 DEF SwitchCounted, OkCounted, Answering
<1>15. StaleStored'
  BY <1>1, <1>5, <1>7, <1>9 DEF StaleStored, Ok
<1>16. RunsGive'
  <2>1. \A i \in DOMAIN runs : Gives(i, runs[i])' <=> Gives(i, runs[i])
    BY <1>1, GivesFrame
  <2>. QED
    BY <1>1, <1>7, <1>9, <2>1 DEF RunsGive, Answering
<1>. QED
  BY <1>9, <1>10, <1>11, <1>12, <1>14, <1>15, <1>16


\* Only duplicate-urls asks twice for one resource in one batch.
LEMMA ShareFacts ==
  ASSUME TypeOK, Placed, phase = "running", ~ScriptDone, NEW i \in DOMAIN runs, Shares(i)
  PROVE  op = "duplicate-urls" /\ Len(runs) = 2 /\ i = 2
<1>1. /\ Len(runs) \in Nat /\ DOMAIN runs = 1..Len(runs)
      /\ Len(Script(op)) \in Nat /\ Len(runs) + 1 \in 1..Len(Script(op))
  BY NextFacts
<1>2. i > 1 /\ op \in Manifests /\ FixtureKey[Script(op)[i]] = FixtureKey[Script(op)[Len(runs) + 1]]
  BY DEF Shares, NextUrl
<1>3. ASSUME NEW n \in Nat, NEW j \in 1..n, j > 1, n + 1 \in 1..4
      PROVE  (n = 2 /\ j = 2) \/ (n = 3 /\ j \in {2, 3})
  BY <1>3
<1>4. CASE op = "duplicate-urls"
  <2>1. Script(op) = <<"/duplicate-urls", "/ok?b=2&a=1", "/ok?a=1&b=2#display-only", "/ok?a=1&b=3">>
    BY <1>4 DEF Script, ErrorScenario, LongScenario
  <2>2. /\ Len(Script(op)) = 4 /\ Script(op)[2] = "/ok?b=2&a=1"
        /\ Script(op)[3] = "/ok?a=1&b=2#display-only" /\ Script(op)[4] = "/ok?a=1&b=3"
    BY <2>1
  <2>3. (Len(runs) = 2 /\ i = 2) \/ (Len(runs) = 3 /\ i \in {2, 3})
    BY <1>1, <1>2, <1>3, <2>2
  <2>4. ~(Len(runs) = 3 /\ i \in {2, 3})
    <3>1. ASSUME Len(runs) = 3 PROVE Script(op)[Len(runs) + 1] = "/ok?a=1&b=3"
      BY <2>2, <3>1
    <3>. QED
      BY <1>2, <2>2, <3>1 DEF FixtureKey, FixtureUrls, Queried
  <2>. QED
    BY <1>4, <2>3, <2>4
<1>5. CASE op = "partial-batch-failure"
  <2>1. Script(op) = <<"/partial-batch", "/ok", "/server-error", "/pdf">>
    BY <1>5 DEF Script, ErrorScenario, LongScenario
  <2>2. /\ Len(Script(op)) = 4 /\ Script(op)[2] = "/ok"
        /\ Script(op)[3] = "/server-error" /\ Script(op)[4] = "/pdf"
    BY <2>1
  <2>3. (Len(runs) = 2 /\ i = 2) \/ (Len(runs) = 3 /\ i \in {2, 3})
    BY <1>1, <1>2, <1>3, <2>2
  <2>4. /\ Len(runs) = 2 => Script(op)[Len(runs) + 1] = "/server-error"
        /\ Len(runs) = 3 => Script(op)[Len(runs) + 1] = "/pdf"
    <3>1. ASSUME Len(runs) = 2 PROVE Script(op)[Len(runs) + 1] = "/server-error"
      BY <2>2, <3>1
    <3>2. ASSUME Len(runs) = 3 PROVE Script(op)[Len(runs) + 1] = "/pdf"
      BY <2>2, <3>2
    <3>. QED
      BY <3>1, <3>2
  <2>. QED
    BY <1>2, <2>2, <2>3, <2>4 DEF FixtureKey, FixtureUrls, Paths
<1>. QED
  BY <1>2, <1>4, <1>5 DEF Manifests

\* A run is added to those of the scenario.
LEMMA AddedRun ==
  ASSUME TypeOK, NEW run \in [code : Http!Codes, result : Http!Results], runs' = Append(runs, run)
  PROVE  /\ runs' \in Seq([code : Http!Codes, result : Http!Results])
         /\ Len(runs) \in Nat /\ Len(runs') = Len(runs) + 1 /\ runs' # <<>>
         /\ DOMAIN runs = 1..Len(runs) /\ DOMAIN runs' = 1..Len(runs) + 1
         /\ \A i \in DOMAIN runs : runs'[i] = runs[i]
         /\ runs'[Len(runs) + 1] = run
         /\ runs # <<>> => runs'[1] = runs[1]
         /\ runs = <<>> => Len(runs) = 0 /\ runs'[1] = run
<1> DEFINE S == [code : Http!Codes, result : Http!Results]
<1>1. ASSUME NEW T, NEW s \in Seq(T), NEW x \in T, NEW t, t = Append(s, x)
      PROVE  /\ t \in Seq(T) /\ Len(s) \in Nat /\ Len(t) = Len(s) + 1 /\ t # <<>>
             /\ DOMAIN s = 1..Len(s) /\ DOMAIN t = 1..Len(s) + 1
             /\ \A i \in DOMAIN s : t[i] = s[i]
             /\ t[Len(s) + 1] = x
             /\ s # <<>> => t[1] = s[1]
             /\ s = <<>> => Len(s) = 0 /\ t[1] = x
  <2>1. /\ t \in Seq(T) /\ Len(s) \in Nat /\ Len(t) = Len(s) + 1 /\ t # <<>>
        /\ DOMAIN s = 1..Len(s) /\ DOMAIN t = 1..Len(s) + 1
        /\ \A i \in DOMAIN s : t[i] = s[i]
        /\ t[Len(s) + 1] = x
    BY <1>1, AppendProperties
  <2>2. s # <<>> => 1 \in DOMAIN s
    BY <2>1
  <2>3. s = <<>> => Len(s) = 0 /\ t = <<x>>
    BY <1>1
  <2>. QED
    BY <2>1, <2>2, <2>3
<1>2. runs \in Seq(S) /\ run \in S
  BY DEF TypeOK
<1> HIDE DEF S
<1>3. /\ runs' \in Seq(S) /\ Len(runs) \in Nat /\ Len(runs') = Len(runs) + 1 /\ runs' # <<>>
      /\ DOMAIN runs = 1..Len(runs) /\ DOMAIN runs' = 1..Len(runs) + 1
      /\ \A i \in DOMAIN runs : runs'[i] = runs[i]
      /\ runs'[Len(runs) + 1] = run
      /\ runs # <<>> => runs'[1] = runs[1]
      /\ runs = <<>> => Len(runs) = 0 /\ runs'[1] = run
  BY <1>1, <1>2
<1>. QED
  BY <1>3, Zenon DEF S

LEMMA ShareKeeps == ASSUME IInv, ServerInv', Share PROVE SuiteInv'
<1> USE DEF IInv, SuiteInv
<1>1. /\ phase = "running" /\ phase' = "running" /\ ~ScriptDone
      /\ UNCHANGED <<server, adapter, program, at, sent, before, records, disturbed, faults>>
  BY DEF Share
<1>2. PICK i \in DOMAIN runs : Shares(i) /\ runs' = Append(runs, runs[i])
  BY DEF Share
<1>3. op = "duplicate-urls" /\ Len(runs) = 2 /\ i = 2 /\ op \in Scenarios
  BY <1>1, <1>2, ShareFacts DEF Scenarios, LongScenario
<1>4. runs[2] \in [code : Http!Codes, result : Http!Results]
  <2>1. runs \in Seq([code : Http!Codes, result : Http!Results]) /\ 2 \in DOMAIN runs
    BY <1>2, <1>3 DEF TypeOK
  <2>2. ASSUME NEW S, NEW s \in Seq(S), NEW j \in DOMAIN s PROVE s[j] \in S
    OBVIOUS
  <2>. QED
    BY <2>1, <2>2, Zenon
<1>5. /\ runs' \in Seq([code : Http!Codes, result : Http!Results])
      /\ Len(runs') = Len(runs) + 1 /\ runs' # <<>>
      /\ DOMAIN runs = 1..Len(runs) /\ DOMAIN runs' = 1..Len(runs) + 1
      /\ \A j \in DOMAIN runs : runs'[j] = runs[j]
      /\ runs'[Len(runs) + 1] = runs[2]
  BY <1>2, <1>3, <1>4, AddedRun
<1>6. Len(runs') = 3 /\ \A j \in DOMAIN runs' : \E k \in DOMAIN runs : runs'[j] = runs[k]
  <2>1. DOMAIN runs' = DOMAIN runs \cup {Len(runs) + 1} /\ 2 \in DOMAIN runs
    BY <1>3, <1>5
  <2>. QED
    BY <1>3, <1>5, <2>1
<1>7. /\ Http!TypeOK' /\ UNCHANGED <<place, url, cache, pc, request, cancelled, cached, chain, response>>
      /\ Asked' = Asked /\ Http!IfNoneMatch(Runner)' = Http!IfNoneMatch(Runner)
      /\ (\A a : FromFixture(a)' <=> FromFixture(a))
      /\ CacheHolds' /\ Redirected' /\ LookedUp'
  BY <1>1, AdapterFramed DEF TypeOK
<1>8. before' \in Nat
  BY <1>1 DEF TypeOK
<1>9. /\ TypeOK' /\ Followed' /\ FailuresHaveCauses'
      /\ op' = op /\ Script(op)' = Script(op) /\ (Ended' <=> Ended) /\ (Clean' <=> Clean)
      /\ (AskedBefore' <=> AskedBefore) /\ UNCHANGED <<counts, connections, reply>>
  BY <1>1, <1>5, <1>7, <1>8, WithinKeeps
<1>10. Placed'
  <2>1. Len(Script(op)) = 4
    <3>1. Script(op) = <<"/duplicate-urls", "/ok?b=2&a=1", "/ok?a=1&b=2#display-only", "/ok?a=1&b=3">>
      BY <1>3 DEF Script, ErrorScenario, LongScenario
    <3>. QED
      BY <3>1
  <2>2. Len(runs') <= Len(Script(op)')
    BY <1>6, <1>9, <2>1
  <2>. QED
    BY <1>1, <1>7, <1>9, <2>2 DEF Placed
<1>11. Answers' /\ Awaited'
  BY <1>1, <1>7, <1>9 DEF Answers, Awaited
<1>12. SwitchCounted'
  BY <1>3, <1>9 DEF SwitchCounted
<1>13. OkCounted'
  <2>1. Counted = 0 /\ Counted' = 0
    BY <1>1 DEF Counted
  <2>2. Clean => before = 0 /\ counts["/ok"] = 1
    BY <1>3, <2>1 DEF OkCounted
  <2>. QED
    BY <1>1, <1>6, <1>9, <2>1, <2>2 DEF OkCounted
<1>14. StaleStored'
  <2>1. runs # <<>>
    BY <1>3
  <2>. QED
    BY <1>1, <1>3, <1>5, <1>7, <1>9, <2>1 DEF StaleStored
<1>15. RunsGive'
  <2>1. ASSUME Clean, NEW j \in DOMAIN runs PROVE Ok(runs[j])
    <3>1. Gives(j, runs[j])
      BY <2>1 DEF RunsGive
    <3>. QED
      BY <1>3, <3>1 DEF Gives, ErrorScenario
  <2>2. ASSUME Clean, NEW j \in DOMAIN runs' PROVE Ok(runs'[j])
    BY <1>6, <2>1, <2>2
  <2>3. ASSUME Clean, NEW j \in DOMAIN runs' PROVE Gives(j, runs[j])'
    BY <1>3, <1>9, <2>2, <2>3 DEF Gives, ErrorScenario, Ok
  <2>. QED
    BY <1>1, <1>9, <2>3 DEF RunsGive
<1>. QED
  BY <1>7, <1>9, <1>10, <1>11, <1>12, <1>13, <1>14, <1>15


LEMMA CollectKeeps == ASSUME IInv, ServerInv', Collect PROVE SuiteInv'
<1> USE DEF IInv, SuiteInv
<1> DEFINE run == [code |-> outcome[Runner], result |-> delivered[Runner]]
<1>1. /\ phase = "asking" /\ place = "done" /\ phase' = "running" /\ runs' = Append(runs, run)
      /\ before' = IF op = "duplicate-urls" /\ runs = <<>> THEN counts["/ok"] ELSE before
      /\ UNCHANGED <<server, adapter, program, at, sent, records, disturbed, faults>>
  BY DEF Collect, place
<1>2. /\ Http!TypeOK /\ ~sent /\ reply = NoReply /\ ~ScriptDone
      /\ \A i \in DOMAIN connections : ~connections[i].waiting
  BY <1>1 DEF TypeOK, Placed, Answers, Awaited
<1>3. run \in [code : Http!Codes, result : Http!Results]
  <2>1. outcome[Runner] \in Http!Codes /\ delivered[Runner] \in Http!Results
    BY <1>2, AdapterTyped
  <2>. QED
    BY <2>1
<1>4. /\ runs' \in Seq([code : Http!Codes, result : Http!Results])
      /\ Len(runs) \in Nat /\ Len(runs') = Len(runs) + 1 /\ runs' # <<>>
      /\ DOMAIN runs = 1..Len(runs) /\ DOMAIN runs' = 1..Len(runs) + 1
      /\ \A i \in DOMAIN runs : runs'[i] = runs[i]
      /\ runs'[Len(runs) + 1] = run
      /\ runs # <<>> => runs'[1] = runs[1]
      /\ runs = <<>> => Len(runs) = 0 /\ runs'[1] = run
  <2> HIDE DEF run
  <2>. QED
    BY <1>1, <1>3, AddedRun
<1>5. /\ Http!TypeOK' /\ UNCHANGED <<place, url, cache, pc, request, cancelled, cached, chain, response>>
      /\ Asked' = Asked /\ Http!IfNoneMatch(Runner)' = Http!IfNoneMatch(Runner)
      /\ CacheHolds' /\ Redirected' /\ LookedUp'
  BY <1>1, AdapterFramed DEF TypeOK
<1>6. before' \in Nat
  BY <1>1 DEF TypeOK, Paths
<1>7. /\ TypeOK' /\ Followed' /\ FailuresHaveCauses'
      /\ op' = op /\ Script(op)' = Script(op) /\ (Ended' <=> Ended) /\ (Clean' <=> Clean)
      /\ (AskedBefore' <=> AskedBefore) /\ UNCHANGED <<counts, connections, reply>>
  BY <1>1, <1>4, <1>5, <1>6, WithinKeeps
<1>8. Placed'
  <2>1. Len(Script(op)) \in Nat /\ Len(runs) + 1 \in 1..Len(Script(op))
    BY <1>1, <1>2, NextFacts
  <2>2. ASSUME NEW n \in Nat, NEW m \in Nat, m + 1 \in 1..n PROVE m + 1 <= n
    BY <2>2
  <2>3. Len(runs') <= Len(Script(op)')
    BY <1>4, <1>7, <2>1, <2>2
  <2>. QED
    BY <1>1, <1>5, <1>7, <2>3 DEF Placed
<1>9. Answers' /\ Awaited'
  BY <1>1, <1>2, <1>5, <1>7 DEF Answers, Awaited, Answering
<1>10. Counted = 1 /\ Counted' = 0
  BY <1>1 DEF Counted
<1>11. SwitchCounted'
  <2>1. Clean /\ op = "content-type-switch" => counts["/content-switch"] = Len(runs) + Counted
    BY DEF SwitchCounted
  <2>2. Clean /\ op = "content-type-switch" => counts["/content-switch"] = Len(runs') + Counted'
    BY <1>4, <1>10, <2>1
  <2>. QED
    BY <1>1, <1>2, <1>5, <1>7, <2>2 DEF SwitchCounted, Answering
<1>12. OkCounted'
  <2>1. SUFFICES ASSUME Clean, op = "duplicate-urls"
                 PROVE  /\ before' = 0
                        /\ counts["/ok"] = (IF Len(runs') <= 1 THEN 0 ELSE IF Len(runs') <= 3 THEN 1 ELSE 2)
                                           + (IF Len(runs') \in {1, 3} THEN Counted' ELSE 0)
    BY <1>7 DEF OkCounted
  <2>2. Len(runs) = 0 \/ Len(runs) = 1 \/ Len(runs) = 3
    BY <1>1, <2>1, UrlOfRun DEF Clean, ErrorScenario
  <2>3. before = 0
    BY <2>1, Zenon DEF OkCounted
  <2>4. counts["/ok"] = (IF Len(runs) <= 1 THEN 0 ELSE IF Len(runs) <= 3 THEN 1 ELSE 2)
                        + (IF Len(runs) \in {1, 3} THEN Counted ELSE 0)
    BY <2>1, Zenon DEF OkCounted
  <2>5. ASSUME NEW n, NEW m, NEW now, n = 0 \/ n = 1 \/ n = 3, m = n + 1,
               now = (IF n <= 1 THEN 0 ELSE IF n <= 3 THEN 1 ELSE 2) + (IF n \in {1, 3} THEN 1 ELSE 0)
        PROVE  /\ now = (IF m <= 1 THEN 0 ELSE IF m <= 3 THEN 1 ELSE 2) + (IF m \in {1, 3} THEN 0 ELSE 0)
               /\ n = 0 => now = 0
    BY <2>5
  <2>6. runs = <<>> => counts["/ok"] = 0
    BY <1>4, <1>10, <2>2, <2>4, <2>5
  <2>7. before' = 0
    BY <1>1, <2>3, <2>6
  <2>. QED
    BY <1>4, <1>10, <2>2, <2>4, <2>5, <2>7
<1>13. StaleStored'
  <2>1. cache[Stale] # Http!NoEntry => AskedBefore \/ AsksFor(op, "/stale-etag")
    BY DEF StaleStored
  <2>2. ASSUME op = "stale-etag-cache", Ok(runs'[1]) PROVE cache[Stale] # Http!NoEntry
    <3>1. CASE runs # <<>>
      <4>1. Ok(runs[1])
        BY <1>4, <2>2, <3>1
      <4>. QED
        BY <1>1, <2>2, <3>1, <4>1 DEF StaleStored
    <3>2. CASE runs = <<>>
      <4>1. outcome[Runner] = "result"
        BY <1>4, <2>2, <3>2 DEF Ok
      <4>2. url = "/stale-etag"
        BY <1>1, <2>2, UrlOfRun DEF Scenarios, LongScenario, ErrorScenario
      <4>. QED
        BY <1>1, <4>1, <4>2 DEF StaleStored
    <3>. QED
      BY <3>1, <3>2
  <2>3. AsksFor(op, "/stale-etag")' <=> AsksFor(op, "/stale-etag")
    BY <1>7 DEF AsksFor
  <2>4. Ok(runs[1])' <=> Ok(runs'[1])
    BY DEF Ok
  <2>. QED
    BY <1>1, <1>4, <1>5, <1>7, <2>1, <2>2, <2>3, <2>4 DEF StaleStored
<1>14. RunsGive'
  <2>1. SUFFICES ASSUME Clean, NEW i \in DOMAIN runs' PROVE Gives(i, runs[i])'
    BY <1>1, <1>7 DEF RunsGive
  <2>2. CASE i \in DOMAIN runs
    <3>1. runs # <<>> /\ Gives(i, runs[i]) /\ runs'[i] = runs[i]
      BY <1>4, <2>1, <2>2 DEF RunsGive
    <3>2. Gives(i, runs[i])' <=> Gives(i, runs'[i])
      BY <1>1, <1>4, <3>1, <1>7 DEF Gives, Ok, Kind
    <3>. QED
      BY <3>1, <3>2
  <2>3. CASE i \notin DOMAIN runs
    <3>1. i = Len(runs) + 1 /\ runs'[i] = run
      BY <1>4, <2>1, <2>3
    <3>2. Gives(i, run)
      BY <1>1, <2>1, <3>1 DEF RunsGive
    <3>3. runs'[1] = runs[1] \/ i = 1
      BY <1>4, <3>1
    <3>4. Gives(i, runs[i])' <=> Gives(i, run)
      BY <1>1, <1>7, <3>1, <3>3 DEF Gives, Ok, Kind
    <3>. QED
      BY <3>2, <3>4
  <2>. QED
    BY <2>2, <2>3
<1>. QED
  BY <1>5, <1>7, <1>8, <1>9, <1>11, <1>12, <1>13, <1>14


LEMMA CardinalityOfFew ==
  /\ Cardinality({1, 2, 4}) = 3
  /\ Cardinality({1, 2, 3, 4}) = 4
<1>1. Cardinality({1}) = 1 /\ IsFiniteSet({1})
  BY FS_Singleton
<1>2. {1, 2} = {1} \cup {2} /\ {1, 2, 4} = {1, 2} \cup {4} /\ {1, 2, 3, 4} = {1, 2, 4} \cup {3}
  OBVIOUS
<1>3. Cardinality({1, 2}) = 2 /\ IsFiniteSet({1, 2})
  BY <1>1, <1>2, FS_AddElement
<1>4. Cardinality({1, 2, 4}) = 3 /\ IsFiniteSet({1, 2, 4})
  BY <1>2, <1>3, FS_AddElement
<1>5. Cardinality({1, 2, 3, 4}) = 4
  BY <1>2, <1>4, FS_AddElement
<1>. QED
  BY <1>4, <1>5

\* A scenario that nothing disturbs, and whose server serves, passes.
LEMMA CleanPasses ==
  ASSUME IInv, phase = "running", ScriptDone, Clean, op = "stale-etag-cache" => ~AskedBefore
  PROVE  Len(runs) = Len(Script(op)) /\ Passes(op)
<1> USE DEF IInv, SuiteInv
<1>1. /\ op \in Scenarios /\ Len(runs) \in Nat /\ DOMAIN runs = 1..Len(runs)
      /\ \A i \in DOMAIN runs : Gives(i, runs[i])
  BY DEF Clean, RunsGive, TypeOK
<1>2. Len(runs) = Len(Script(op))
  <2>1. SUFFICES ASSUME op \in Manifests, Len(runs) = 1 PROVE Ok(runs[1])
    BY DEF ScriptDone
  <2>2. Gives(1, runs[1])
    BY <1>1, <2>1
  <2>3. op \notin DOMAIN ErrorScenario /\ op \in {"duplicate-urls", "partial-batch-failure"}
    BY <2>1 DEF Manifests, ErrorScenario
  <2>4. CASE op = "duplicate-urls"
    BY <2>2, <2>3, <2>4 DEF Gives
  <2>5. CASE op = "partial-batch-failure"
    <3>1. Ok(runs[1]) <=> 1 # 3
      BY <2>2, <2>3, <2>5 DEF Gives
    <3>. QED
      BY <3>1
  <2>. QED
    BY <2>3, <2>4, <2>5
<1>3. CASE op \in DOMAIN ErrorScenario
  <2>1. Script(op) = <<ErrorScenario[op][1]>>
    BY <1>3 DEF Script
  <2>2. Len(Script(op)) = 1
    BY <2>1
  <2>3. Gives(1, runs[1])
    BY <1>1, <1>2, <2>2
  <2>4. op \notin {"redirect", "moved-canonical-url", "content-type-switch", "stale-etag-cache",
                   "duplicate-urls", "partial-batch-failure"}
    BY <1>3 DEF ErrorScenario
  <2>5. runs[1].code = ErrorScenario[op][2]
    BY <1>3, <2>3, <2>4 DEF Gives
  <2>. QED
    BY <1>2, <1>3, <2>4, <2>5 DEF Passes
<1>4. CASE op \in DOMAIN LongScenario
  <2>1. Script(op) = LongScenario[op] /\ op \notin DOMAIN ErrorScenario
    BY <1>4 DEF Script, LongScenario, ErrorScenario
  <2>2. CASE op \in {"redirect", "moved-canonical-url"}
    <3>1. Script(op) = <<"/redirect">> \/ Script(op) = <<"/moved">>
      BY <2>1, <2>2 DEF LongScenario
    <3>2. Len(Script(op)) = 1
      BY <3>1
    <3>3. Gives(1, runs[1])
      BY <1>1, <1>2, <3>2
    <3>4. CASE op = "redirect"
      <4>1. Ok(runs[1]) /\ runs[1].result.redirects = 1
        BY <2>1, <3>3, <3>4 DEF Gives
      <4>. QED
        BY <1>2, <2>1, <3>4, <4>1 DEF Passes
    <3>5. CASE op = "moved-canonical-url"
      <4>1. Ok(runs[1]) /\ runs[1].result.url = "/canonical" /\ runs[1].result.redirects # 0
        BY <2>1, <3>3, <3>5 DEF Gives
      <4>. QED
        BY <1>2, <2>1, <3>5, <4>1 DEF Passes
    <3>. QED
      BY <2>2, <3>4, <3>5
  <2>3. CASE op \in {"content-type-switch", "stale-etag-cache"}
    <3>1. \/ Script(op) = <<"/content-switch", "/content-switch">>
          \/ Script(op) = <<"/stale-etag", "/stale-etag">>
      BY <2>1, <2>3 DEF LongScenario
    <3>2. Len(Script(op)) = 2
      BY <3>1
    <3>3. Gives(1, runs[1]) /\ Gives(2, runs[2])
      BY <1>1, <1>2, <3>2
    <3>4. CASE op = "content-type-switch"
      <4>1. Kind(runs[1]) = Phase(1) /\ Kind(runs[2]) = Phase(2)
        BY <2>1, <3>3, <3>4 DEF Gives
      <4>2. Phase(1) = "html" /\ Phase(2) = "pdf"
        BY DEF Phase
      <4>. QED
        BY <1>2, <2>1, <3>4, <4>1, <4>2 DEF Passes
    <3>5. CASE op = "stale-etag-cache"
      <4>1. Ok(runs[1])
        BY <2>1, <3>3, <3>5 DEF Gives
      <4>2. runs[2].code = "stale_etag_cache"
        BY <2>1, <3>3, <3>5, <4>1 DEF Gives
      <4>. QED
        BY <1>2, <2>1, <3>5, <4>1, <4>2 DEF Passes
    <3>. QED
      BY <2>3, <3>4, <3>5
  <2>4. CASE op = "duplicate-urls"
    <3>1. Script(op) = <<"/duplicate-urls", "/ok?b=2&a=1", "/ok?a=1&b=2#display-only", "/ok?a=1&b=3">>
      BY <2>1, <2>4 DEF LongScenario
    <3>2. Len(runs) = 4 /\ DOMAIN runs = {1, 2, 3, 4}
      <4>1. Len(Script(op)) = 4
        BY <3>1
      <4>. QED
        BY <1>1, <1>2, <4>1
    <3>3. \A i \in DOMAIN runs : Ok(runs[i])
      BY <1>1, <2>1, <2>4 DEF Gives
    <3>4. {i \in DOMAIN runs : Ok(runs[i])} = {1, 2, 3, 4}
      BY <3>2, <3>3
    <3>5. before = 0 /\ counts["/ok"] = 2
      BY <2>4, <3>2 DEF OkCounted
    <3>6. Fetched = 2
      BY <3>5 DEF Fetched
    <3>. QED
      BY <1>2, <2>1, <2>4, <3>4, <3>6, CardinalityOfFew DEF Passes
  <2>5. CASE op = "partial-batch-failure"
    <3>1. Script(op) = <<"/partial-batch", "/ok", "/server-error", "/pdf">>
      BY <2>1, <2>5 DEF LongScenario
    <3>2. Len(runs) = 4 /\ DOMAIN runs = {1, 2, 3, 4}
      <4>1. Len(Script(op)) = 4
        BY <3>1
      <4>. QED
        BY <1>1, <1>2, <4>1
    <3>3. \A i \in DOMAIN runs : Ok(runs[i]) <=> i # 3
      BY <1>1, <2>1, <2>5 DEF Gives
    <3>4. {i \in DOMAIN runs : Ok(runs[i])} = {1, 2, 4}
      BY <3>2, <3>3
    <3>. QED
      BY <1>2, <2>1, <2>5, <3>2, <3>4, CardinalityOfFew DEF Passes
  <2>. QED
    BY <1>4, <2>2, <2>3, <2>4, <2>5 DEF LongScenario
<1>. QED
  BY <1>1, <1>3, <1>4 DEF Scenarios

LEMMA RecordKeeps == ASSUME IInv, ServerInv', Record PROVE SuiteInv'
<1> USE DEF IInv, SuiteInv
<1> DEFINE new == [name |-> op, step |-> at, disturbed |-> disturbed,
                   passed |-> Len(runs) = Len(Script(op)) /\ Passes(op)]
<1>1. /\ phase = "running" /\ ScriptDone /\ phase' = "ready" /\ at' = at + 1
      /\ records' = IF op \in Scenarios THEN Append(records, new) ELSE records
      /\ runs' = <<>> /\ before' = 0
      /\ UNCHANGED <<server, adapter, program, sent, disturbed, faults>>
  BY DEF Record, Advance
<1>2. ~Ended /\ op \in Scenarios \cup FixtureUrls /\ at \in Nat
  <2>1. at \in Nat
    BY ProgramFacts
  <2>2. ~Ended /\ op \in Scenarios \cup FixtureUrls
    BY <1>1 DEF Placed
  <2>. QED
    BY <2>1, <2>2
<1>3. UNCHANGED <<counts, connections, reply, listening, loops>> /\ connections \in Seq(Connection)
  BY <1>1 DEF server, lifecycle, traffic, TypeOK
<1>4. Followed'
  <2>1. op # "start"
    BY <1>2, StepKinds
  <2>. QED
    BY <1>1, <1>3, <2>1, FollowedOn
<1>5. records \in Seq(Records) /\ disturbed \in BOOLEAN
  BY DEF TypeOK
<1>6. op \in Scenarios => new \in Records
  <2>1. (Len(runs) = Len(Script(op)) /\ Passes(op)) \in BOOLEAN
    OBVIOUS
  <2>. QED
    BY <1>2, <1>5, <2>1 DEF Records
<1>7. op \in Scenarios =>
        \/ new.passed \/ new.disturbed \/ ~Hosted(new.step)
        \/ new.name = "stale-etag-cache" /\ \E j \in 1..new.step - 1 : AsksFor(program[j], "/stale-etag")
  <2>1. SUFFICES ASSUME op \in Scenarios, ~disturbed, Hosted(at),
                        op = "stale-etag-cache" => ~AskedBefore
                 PROVE  Len(runs) = Len(Script(op)) /\ Passes(op)
    BY DEF AskedBefore
  <2>2. Clean
    BY <1>1, <2>1 DEF Clean
  <2>. QED
    BY <1>1, <2>1, <2>2, CleanPasses
<1>8. records' \in Seq(Records) /\ FailuresHaveCauses'
  <2> HIDE DEF new
  <2>1. CASE op \notin Scenarios
    BY <1>1, <1>5, <2>1 DEF FailuresHaveCauses, Hosted
  <2>2. CASE op \in Scenarios
    <3>1. records' = Append(records, new) /\ new \in Records
      BY <1>1, <1>6, <2>2
    <3>2. /\ records' \in Seq(Records) /\ DOMAIN records' = DOMAIN records \cup {Len(records) + 1}
          /\ records'[Len(records) + 1] = new
          /\ \A i \in DOMAIN records : records'[i] = records[i]
      BY <1>5, <3>1, AppendProperties
    <3>3. \A i : Hosted(i)' <=> Hosted(i)
      BY <1>1 DEF Hosted
    <3>4. ASSUME NEW i \in DOMAIN records'
          PROVE  \/ records'[i].passed \/ records'[i].disturbed \/ ~Hosted(records'[i].step)
                 \/ /\ records'[i].name = "stale-etag-cache"
                    /\ \E j \in 1..records'[i].step - 1 : AsksFor(program[j], "/stale-etag")
      BY <1>7, <2>2, <3>2 DEF FailuresHaveCauses
    <3>. QED
      BY <1>1, <3>2, <3>3, <3>4 DEF FailuresHaveCauses, Hosted
  <2>. QED
    BY <2>1, <2>2
<1>. QED
  BY <1>1, <1>2, <1>3, <1>4, <1>8, BetweenKeeps


-----------------------------------------------------------------------------
(* The invariant holds.                                                    *)

LEMMA StutterKeeps == ASSUME IInv, ServerInv', UNCHANGED vars PROVE SuiteInv'
<1> USE DEF IInv, SuiteInv
<1>1. /\ UNCHANGED <<adapter, owner, sent, faults, disturbed, server>>
      /\ UNCHANGED <<counts, connections, reply, listening, loops>>
  BY DEF vars, owner, server, lifecycle, traffic
<1>2. /\ counts \in [Paths -> Nat] /\ connections \in Seq(Connection)
      /\ reply \in {NoReply} \cup Http!Response /\ disturbed \in BOOLEAN
  BY DEF TypeOK
<1>3. /\ TypeOK' /\ Followed' /\ Placed' /\ CacheHolds' /\ Redirected' /\ LookedUp'
      /\ StaleStored' /\ RunsGive' /\ FailuresHaveCauses'
      /\ UNCHANGED <<program, at, phase, runs, before, place, url, response, op>>
      /\ Asked' = Asked /\ Http!IfNoneMatch(Runner)' = Http!IfNoneMatch(Runner)
      /\ (\A a : FromFixture(a)' <=> FromFixture(a)) /\ (Clean' => Clean)
  BY <1>1, <1>2, BesideKeeps
<1>4. Counted' = Counted
  BY <1>1, <1>3 DEF Counted
<1>5. Answers' /\ Awaited'
  BY <1>1, <1>3 DEF Answers, Awaited
<1>6. SwitchCounted' /\ OkCounted'
  BY <1>1, <1>3, <1>4 DEF SwitchCounted, OkCounted
<1>. QED
  BY <1>3, <1>5, <1>6

LEMMA ReceiveReplyKeeps == ASSUME IInv, ServerInv', ReceiveReply PROVE SuiteInv'
<1>1. disturbed \in BOOLEAN /\ faults \in 0..MaxFaults
  BY DEF IInv, SuiteInv, TypeOK
<1>. QED
  BY <1>1, ReceiveKeeps DEF ReceiveReply

LEMMA UnexpectedReplyKeeps == ASSUME IInv, ServerInv', UnexpectedReply PROVE SuiteInv'
<1>1. faults' \in 0..MaxFaults
  <2>1. faults \in 0..MaxFaults /\ MaxFaults \in Nat /\ faults < MaxFaults /\ faults' = faults + 1
    BY ProgramsAssumption DEF IInv, SuiteInv, TypeOK, UnexpectedReply, Fault
  <2>. QED
    BY <2>1
<1>2. disturbed' = TRUE
  BY DEF UnexpectedReply, Fault
<1>. QED
  BY <1>1, <1>2, ReceiveKeeps DEF UnexpectedReply

LEMMA SuiteStep == ASSUME IInv, [Next]_vars PROVE IInv'
<1>1. ServerInv'
  BY ServerStep DEF IInv
<1>2. CASE Owner
  BY <1>1, <1>2, StartServerKeeps, StopServerKeeps, WaitKeeps, BeginScenarioKeeps, AskKeeps,
     ShareKeeps, CollectKeeps, RecordKeeps DEF Owner, IInv
<1>3. CASE KeyboardInterrupt
  BY <1>1, <1>3, WaitKeeps DEF IInv
<1>4. CASE Client
  BY <1>1, <1>4, ThinkKeeps, SendRequestKeeps, ReceiveReplyKeeps, RemoteDisconnectedKeeps,
     ReadBodyKeeps, ExpectedTimeOutKeeps DEF Client, IInv
<1>5. CASE UnexpectedTimeOut \/ UnexpectedReply
  BY <1>1, <1>5, UnexpectedTimeOutKeeps, UnexpectedReplyKeeps DEF IInv
<1>6. CASE Serve \/ HandleRequest
  BY <1>1, <1>6, ServeKeeps, HandleRequestKeeps DEF IInv
<1>7. CASE UNCHANGED vars
  BY <1>1, <1>7, StutterKeeps DEF IInv
<1>. QED
  BY <1>2, <1>3, <1>4, <1>5, <1>6, <1>7 DEF Next

LEMMA AdapterStarts == ASSUME Init PROVE Http!TypeOK
<1>1. /\ cache = [k \in Http!CacheKeys |-> Http!NoEntry]
      /\ pc = [c \in {Runner} |-> "idle"] /\ request = [c \in {Runner} |-> RequestTo("/ok", {})]
      /\ cancelled = [c \in {Runner} |-> FALSE] /\ cached = [c \in {Runner} |-> Http!NoEntry]
      /\ chain = [c \in {Runner} |-> <<>>] /\ response = [c \in {Runner} |-> Http!NoResponse]
      /\ chunks = [c \in {Runner} |-> 0] /\ outcome = [c \in {Runner} |-> "none"]
      /\ delivered = [c \in {Runner} |-> Http!NoResult] /\ late = [c \in {Runner} |-> 0]
  BY DEF Init
<1>2. /\ [k \in {FixtureKey[u] : u \in FixtureUrls} |-> [edition |-> 0, kind |-> "data"]]
           \in [Http!Resources -> [edition : 0..0, kind : Http!AllKinds]]
      /\ 0 \in 0..0 /\ 0 \in 0..0
  <2>1. [edition |-> 0, kind |-> "data"] \in [edition : 0..0, kind : Http!AllKinds]
    BY DEF Http!AllKinds
  <2>. QED
    BY <2>1, HttpConstants
<1>3. Http!NoResponse \in Http!Response
  BY DEF Http!NoResponse, Http!Response, Http!Statuses, Http!AllKinds
<1>4. RequestTo("/ok", {}) \in FixtureRequests
  <2>1. "/ok" \in FixtureUrls
    BY DEF FixtureUrls, Paths
  <2>. QED
    BY <2>1 DEF FixtureRequests
<1>5. "none" \in Http!Codes /\ Http!NoResult \in Http!Results
  BY DEF Http!Codes, Http!Results
<1>6. /\ cache \in [Http!CacheKeys -> {Http!NoEntry} \cup Http!Entry]
      /\ pc \in [{Runner} -> Places] /\ request \in [{Runner} -> FixtureRequests]
      /\ cancelled \in [{Runner} -> BOOLEAN] /\ cached \in [{Runner} -> {Http!NoEntry} \cup Http!Entry]
  BY <1>1, <1>4 DEF Places
<1>7. /\ chain \in [{Runner} -> Seq(Http!Urls)] /\ response \in [{Runner} -> Http!Response]
      /\ chunks \in [{Runner} -> 0..0] /\ outcome \in [{Runner} -> Http!Codes]
      /\ delivered \in [{Runner} -> Http!Results] /\ late \in [{Runner} -> Nat]
  <2>1. ASSUME NEW S PROVE <<>> \in Seq(S)
    OBVIOUS
  <2>. QED
    BY <1>1, <1>3, <1>5, <2>1
<1>. QED
  BY <1>2, <1>6, <1>7 DEF Http!TypeOK, Places

LEMMA SuiteStarts == ASSUME Init PROVE IInv
<1>1. ServerInv
  BY ServerStarts DEF Init
<1>2. /\ counts = [p \in Paths |-> 0] /\ connections = <<>> /\ reply = NoReply
      /\ loops = <<>> /\ listening = TRUE
  BY DEF Init, ServerInit
<1>3. /\ program \in Programs /\ at = 1 /\ phase = "ready" /\ sent = FALSE
      /\ runs = <<>> /\ before = 0 /\ records = <<>> /\ disturbed = FALSE /\ faults = 0
  BY DEF Init
<1>4. place = "idle" /\ cancelled[Runner] = FALSE /\ chain[Runner] = <<>>
      /\ \A k \in Http!CacheKeys : cache[k] = Http!NoEntry
  BY DEF Init, place
<1>5. TypeOK
  <2>1. ASSUME NEW S PROVE <<>> \in Seq(S)
    OBVIOUS
  <2>2. counts \in [Paths -> Nat]
    BY <1>2
  <2>3. program \in Programs /\ at \in 1..Len(program) + 1 /\ faults \in 0..MaxFaults
    BY <1>3, ProgramsAssumption
  <2>. QED
    BY <1>1, <1>2, <1>3, <2>1, <2>2, <2>3, AdapterStarts DEF TypeOK, ServerInv
<1>6. Followed /\ Placed
  BY <1>2, <1>3, <1>4 DEF Followed, Placed
<1>7. CacheHolds /\ Redirected /\ LookedUp /\ Answers /\ Awaited
  BY <1>2, <1>3, <1>4 DEF CacheHolds, Redirected, LookedUp, Answers, Awaited, Asking, Answering
<1>8. SwitchCounted /\ OkCounted /\ RunsGive
  BY <1>3 DEF SwitchCounted, OkCounted, RunsGive, Clean
<1>9. StaleStored
  BY <1>3, <1>4, HttpConstants DEF StaleStored
<1>10. FailuresHaveCauses
  BY <1>3 DEF FailuresHaveCauses
<1>. QED
  BY <1>1, <1>5, <1>6, <1>7, <1>8, <1>9, <1>10 DEF IInv, SuiteInv

\* What the adapter, the connections, the cache and the counters hold at every
\* step of a scenario, under every program, in whatever order the threads of
\* the server take their steps (scenarios.py:83-120, fixtures.py:82-195).
THEOREM SuiteInvariant == Spec => []SuiteInv
<1>1. Spec => []IInv
  BY SuiteStarts, SuiteStep, PTL DEF Spec
<1>2. IInv => SuiteInv
  BY DEF IInv
<1>. QED
  BY <1>1, <1>2, PTL

\* The programs, their scenarios and the adapter keep their types, whatever the
\* program and however many faults there are.
THEOREM ConformanceTypes == Spec => []TypeOK
<1>1. SuiteInv => TypeOK
  BY DEF SuiteInv
<1>. QED
  BY <1>1, SuiteInvariant, PTL

\* A scenario that fails was disturbed, had no server, or is stale-etag-cache on
\* an adapter that had been asked for its URL: neither the order of the
\* scenarios nor what others left behind makes one fail (scenarios.py:83-120).
THEOREM ScenariosFailForCauses == Spec => []FailuresHaveCauses
<1>1. SuiteInv => FailuresHaveCauses
  BY DEF SuiteInv
<1>. QED
  BY <1>1, SuiteInvariant, PTL
===============================================================================
