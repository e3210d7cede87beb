-------------------------- MODULE ConformanceInductive --------------------------
(***************************************************************************)
(* Why no scenario fails for the sake of another: the invariant that says  *)
(* what the adapter, the connections, the cache and the counters hold at   *)
(* every step of a scenario.                                               *)
(***************************************************************************)
EXTENDS Conformance

Asking    == {"check", "open", "read_check", "read", "classify"}
Answering == {"read_check", "read", "classify"}

place == pc[Runner]
url   == request[Runner].url

\* The server follows the program.
Followed ==
  /\ ~listening => \E j \in 1..at - 1 : program[j] = "stop"
  /\ loops = <<>> => \A j \in 1..at - 1 : program[j] # "start"

\* In a step that asks, the adapter has the request that is next; otherwise it
\* is at rest.
Placed ==
  /\ phase # "ready" => ~Ended /\ op \in Scenarios \cup FixtureUrls /\ Len(runs) <= Len(Script(op))
  /\ phase # "asking" => place \in {"idle", "done"}
  /\ phase = "asking" =>
       /\ place # "idle" /\ ~ScriptDone /\ ~\E i \in DOMAIN runs : Shares(i)
       /\ request[Runner] = RequestTo(NextUrl, IF op = "redirect" THEN {"data"} ELSE {})
  /\ phase = "ready" => before = 0
  /\ cancelled[Runner] = FALSE
  /\ sent => place = "open"

\* The fixtures that send an ETag, and what is stored of them.
Tagged == {"/etag", "/stale-etag"}

Stored(path) ==
  [url |-> path, edition |-> 1, kind |-> "data", etag |-> 1, modified |-> 0, stored_at |-> 0]

CacheHolds ==
  \A k \in Http!CacheKeys : cache[k] # Http!NoEntry => k[2] \in Tagged /\ cache[k] = Stored(k[2])

\* No fixture redirects twice.
Redirected ==
  /\ place \notin Asking => chain[Runner] = <<>>
  /\ chain[Runner] # <<>> => url \in DOMAIN Moved /\ chain[Runner] = <<Moved[url]>>

\* Nobody but this acquisition stores what it looks up.
LookedUp == place \in Asking => cached[Runner] = cache[<<"GET", FixtureKey[url]>>]

\* a is what the fixture asked has to say; of its counter only the parity counts.
FromFixture(a) ==
  /\ Asked # "/network-exception"
  /\ \E hit \in {1, 2} : a = Dispatch(Asked, hit, Http!IfNoneMatch(Runner))

Answers ==
  /\ place \in Answering => FromFixture(response[Runner])
  /\ place = "classify" => response[Runner].kind # "cut"
  /\ reply # NoReply => sent /\ FromFixture(reply)

\* The adapter waits on one connection at most, for what it asks now.
Awaited ==
  /\ \A i \in DOMAIN connections : connections[i].waiting =>
       /\ sent /\ reply = NoReply
       /\ connections[i].path = Asked /\ connections[i].etag = Http!IfNoneMatch(Runner)
       /\ \A j \in DOMAIN connections : connections[j].waiting => j = i
  /\ sent /\ reply = NoReply /\ (\A i \in DOMAIN connections : ~connections[i].waiting) =>
       Asked = "/network-exception"

\* A scenario is under way that nothing has disturbed, with its server.
Clean == phase # "ready" /\ op \in Scenarios /\ ~disturbed /\ Hosted(at)

\* The server has counted the request for the URL of this run.
Counted == IF phase = "asking" /\ (reply # NoReply \/ place \in Answering \cup {"done"}) THEN 1 ELSE 0

SwitchCounted ==
  Clean /\ op = "content-type-switch" =>
    /\ counts["/content-switch"] = Len(runs) + Counted
    /\ reply # NoReply => reply.kind = Phase(Len(runs) + 1)
    /\ place \in Answering => response[Runner].kind = Phase(Len(runs) + 1)

OkCounted ==
  Clean /\ op = "duplicate-urls" =>
    /\ before = 0
    /\ counts["/ok"] = (IF Len(runs) <= 1 THEN 0 ELSE IF Len(runs) <= 3 THEN 1 ELSE 2)
                       + (IF Len(runs) \in {1, 3} THEN Counted ELSE 0)

\* What the stale-etag-cache scenario finds in the cache, it put there, or the
\* adapter was asked before.
Stale == <<"GET", "/stale-etag">>
AskedBefore == \E j \in 1..at - 1 : AsksFor(program[j], "/stale-etag")

StaleStored ==
  /\ cache[Stale] # Http!NoEntry =>
       \/ AskedBefore
       \/ /\ phase # "ready" /\ AsksFor(op, "/stale-etag")
          /\ runs # <<>> \/ (phase = "asking" /\ place = "done")
  /\ phase # "ready" /\ op = "stale-etag-cache" /\ runs # <<>> /\ Ok(runs[1]) => cache[Stale] # Http!NoEntry
  /\ phase = "asking" /\ url = "/stale-etag" /\ place = "done" /\ outcome[Runner] = "result" =>
       cache[Stale] # Http!NoEntry

\* What the i-th run of a scenario that is not disturbed gives.
Gives(i, run) ==
  CASE op \in DOMAIN ErrorScenario -> run.code = ErrorScenario[op][2]
    [] op = "redirect" -> Ok(run) /\ run.result.redirects = 1
    [] op = "moved-canonical-url" ->
         Ok(run) /\ run.result.url = "/canonical" /\ run.result.redirects = 1
    [] op = "content-type-switch" -> Kind(run) = Phase(i)
    [] op = "stale-etag-cache" ->
         IF i = 1 THEN Ok(run) \/ AskedBefore ELSE Ok(runs[1]) => run.code = "stale_etag_cache"
    [] op = "duplicate-urls" -> Ok(run)
    [] op = "partial-batch-failure" -> Ok(run) <=> i # 3

RunsGive ==
  Clean =>
    /\ \A i \in DOMAIN runs : Gives(i, runs[i])
    /\ phase = "asking" /\ place \in Answering => Asked # "/slow"
    /\ phase = "asking" /\ place = "done" =>
         Gives(Len(runs) + 1, [code |-> outcome[Runner], result |-> delivered[Runner]])

SuiteInv ==
  /\ TypeOK /\ Followed /\ Placed
  /\ CacheHolds /\ Redirected /\ LookedUp /\ Answers /\ Awaited
  /\ SwitchCounted /\ OkCounted /\ StaleStored /\ RunsGive
  /\ FailuresHaveCauses
=============================================================================
