------------------------------ MODULE Conformance ------------------------------
(***************************************************************************)
(* Programs that own a FixtureServer: run_scenarios, serve-fixtures, and   *)
(* others that start and stop a server and acquire its URLs.  The owner    *)
(* takes one step after another; its one HttpAdapter, with one cache, asks *)
(* the server, whose loop and handlers go on beside it.  An attempt may    *)
(* time out at any moment, and what it asked is handled all the same.      *)
(***************************************************************************)
EXTENDS Fixtures, FiniteSets

CONSTANTS
  Programs,   \* the programs: "start", "stop", "wait", scenarios and URLs
  MaxFaults   \* bound: attempts that time out or come back against all odds

\* The URLs asked: the paths, and four with a query.
Queried == {"/ok?b=2&a=1", "/ok?a=1&b=2#display-only", "/ok?a=1&b=3", "/slow?delay=0.20"}
FixtureUrls == Paths \cup Queried

PathOf(url) ==
  CASE url = "/slow?delay=0.20" -> "/slow"
    [] url \in Queried \ {"/slow?delay=0.20"} -> "/ok"
    [] OTHER -> url

\* normalize_cache_key: the query is sorted, the fragment dropped.
FixtureKey == [u \in FixtureUrls |-> IF u = "/ok?a=1&b=2#display-only" THEN "/ok?b=2&a=1" ELSE u]

Runner == "runner"

RequestTo(url, expected) ==
  [url |-> url, method |-> "GET", expected |-> expected, checks |-> {"empty", "pdf", "shell"},
   use_cache |-> TRUE, max_age |-> 0, own |-> [etag |-> 0, modified |-> 0]]

\* What the scenarios ask for; only one of them expects a media type.
FixtureRequests == {RequestTo(u, {}) : u \in FixtureUrls} \cup {RequestTo("/redirect", {"data"})}

VARIABLES
  cache, pc, request, cancelled, cached, chain, response, chunks, outcome, delivered, late,
  program,    \* the program
  at,         \* the step it is at
  phase,      \* "ready", in a scenario "running", in a run of the engine "asking"
  sent,       \* the adapter's request has left
  runs,       \* the runs of the scenario: its code, and the result
  before,     \* what duplicate-urls saw on the counter of /ok
  records,    \* the ConformanceRecords; history: their step, and whether disturbed
  disturbed,  \* history: a fault, or a stray request on a counter that matters
  faults      \* faults so far

\* A fixture's body never changes under its ETag.
OnlyTags == [k \in {FixtureKey[u] : u \in FixtureUrls} |-> <<1>>]

Http == INSTANCE HttpAdapter WITH
  Clients <- {Runner}, Key <- FixtureKey, Requests <- FixtureRequests,
  Foreign <- {}, ETag <- OnlyTags, LastModified <- OnlyTags, Kinds <- {}, Offers <- {},
  Refusals <- {"forbidden", "rate_limited", "server_error", "client_error"},
  MaxRedirects <- 5, MaxEditions <- 1, MaxTime <- 0, MaxChunks <- 0,
  content <- [k \in {FixtureKey[u] : u \in FixtureUrls} |-> [edition |-> 0, kind |-> "data"]],
  editions <- 0, now <- 0

adapter == <<cache, pc, request, cancelled, cached, chain, response, chunks, outcome, delivered,
             late>>
suite   == <<runs, before, records>>
vars    == <<server, adapter, program, at, phase, sent, suite, disturbed, faults>>
-----------------------------------------------------------------------------
(* The scenarios.                                                          *)

\* Those that make one run and expect an error.
ErrorScenario ==
  [name \in {"empty-http-200", "redirect-loop", "http-403", "http-429-retry-after", "http-500",
             "slow-response", "malformed-pdf", "truncated-body", "javascript-empty-shell",
             "charset-problem", "network-exception"} |->
     CASE name = "empty-http-200"         -> <<"/empty-200", "empty_http_200">>
       [] name = "redirect-loop"          -> <<"/redirect-loop-a", "redirect_loop">>
       [] name = "http-403"               -> <<"/forbidden", "http_403">>
       [] name = "http-429-retry-after"   -> <<"/rate-limited", "http_429">>
       [] name = "http-500"               -> <<"/server-error", "http_server_error">>
       [] name = "slow-response"          -> <<"/slow?delay=0.20", "slow_response_timeout">>
       [] name = "malformed-pdf"          -> <<"/malformed-pdf", "malformed_pdf">>
       [] name = "truncated-body"         -> <<"/truncated", "truncated_body">>
       [] name = "javascript-empty-shell" -> <<"/javascript-shell", "javascript_empty_shell">>
       [] name = "charset-problem"        -> <<"/charset-problem", "charset_problem">>
       [] name = "network-exception"      -> <<"/network-exception", "network_exception">>]

\* The others, with the URLs they ask for; a manifest lists those of its batch.
LongScenario ==
  [name \in {"redirect", "content-type-switch", "stale-etag-cache", "duplicate-urls",
             "moved-canonical-url", "partial-batch-failure"} |->
     CASE name = "redirect"              -> <<"/redirect">>
       [] name = "content-type-switch"   -> <<"/content-switch", "/content-switch">>
       [] name = "stale-etag-cache"      -> <<"/stale-etag", "/stale-etag">>
       [] name = "duplicate-urls"        -> <<"/duplicate-urls", "/ok?b=2&a=1",
                                              "/ok?a=1&b=2#display-only", "/ok?a=1&b=3">>
       [] name = "moved-canonical-url"   -> <<"/moved">>
       [] name = "partial-batch-failure" -> <<"/partial-batch", "/ok", "/server-error", "/pdf">>]

Scenarios == DOMAIN ErrorScenario \cup DOMAIN LongScenario
Steps     == {"start", "stop", "wait"} \cup Scenarios \cup FixtureUrls

ASSUME ProgramsAssumption == Programs \subseteq Seq(Steps) /\ MaxFaults \in Nat

Manifests == {"duplicate-urls", "partial-batch-failure"}

\* Mutant: the code an error scenario expects is taken for its URL.
ScriptOfCodes(op) ==
  IF op \in DOMAIN ErrorScenario THEN <<ErrorScenario[op][2]>>
  ELSE IF op \in DOMAIN LongScenario THEN LongScenario[op]
  ELSE <<op>>

\* The URLs of a step of the program.
Script(op) ==
  IF op \in DOMAIN ErrorScenario THEN <<ErrorScenario[op][1]>>
  ELSE IF op \in DOMAIN LongScenario THEN LongScenario[op]
  ELSE <<op>>

AsksFor(step, url) == \E i \in DOMAIN Script(step) : Script(step)[i] = url

Ok(run) == run.code = "result"
Kind(run) == IF Ok(run) THEN run.result.kind ELSE "none"

Fetched == counts["/ok"] - before

\* _run_one: whether the scenario passes.
Passes(name) ==
  LET successes == Cardinality({i \in DOMAIN runs : Ok(runs[i])})
  IN  CASE name \in DOMAIN ErrorScenario -> runs[1].code = ErrorScenario[name][2]
        [] name = "redirect" -> Ok(runs[1]) /\ runs[1].result.redirects = 1
        [] name = "moved-canonical-url" ->
             Ok(runs[1]) /\ runs[1].result.url = "/canonical" /\ runs[1].result.redirects # 0
        [] name = "content-type-switch" -> Kind(runs[1]) = "html" /\ Kind(runs[2]) = "pdf"
        [] name = "stale-etag-cache" -> Ok(runs[1]) /\ runs[2].code = "stale_etag_cache"
        [] name = "duplicate-urls" -> successes = 4 /\ Fetched = 2
        [] name = "partial-batch-failure" -> successes = 3 /\ Len(runs) = 4

Init ==
  /\ ServerInit
  /\ cache = [k \in Http!CacheKeys |-> Http!NoEntry]
  /\ pc = [c \in {Runner} |-> "idle"]
  /\ request = [c \in {Runner} |-> RequestTo("/ok", {})]
  /\ cancelled = [c \in {Runner} |-> FALSE]
  /\ cached = [c \in {Runner} |-> Http!NoEntry]
  /\ chain = [c \in {Runner} |-> <<>>]
  /\ response = [c \in {Runner} |-> Http!NoResponse]
  /\ chunks = [c \in {Runner} |-> 0]
  /\ outcome = [c \in {Runner} |-> "none"]
  /\ delivered = [c \in {Runner} |-> Http!NoResult]
  /\ late = [c \in {Runner} |-> 0]
  /\ program \in Programs
  /\ at = 1
  /\ phase = "ready"
  /\ sent = FALSE
  /\ runs = <<>> /\ before = 0 /\ records = <<>>
  /\ disturbed = FALSE
  /\ faults = 0

Ended == at > Len(program)
op    == program[at]
-----------------------------------------------------------------------------
(* The owner.                                                              *)

Advance == at' = at + 1

StartServer ==
  /\ ~Ended /\ op = "start"
  /\ Start /\ Advance
  /\ UNCHANGED <<adapter, program, phase, sent, suite, disturbed, faults>>

StopServer ==
  /\ ~Ended /\ op = "stop"
  /\ \/ (Stop \/ Stopping) /\ UNCHANGED at
     \/ Close /\ Advance
  /\ UNCHANGED <<adapter, program, phase, sent, suite, disturbed, faults>>

\* _serve: the loop around join() sees that the thread is dead.
ThreadDead ==
  /\ ~Ended /\ op = "wait" /\ loops[thread] = "dead"
  /\ Advance
  /\ UNCHANGED <<server, adapter, program, phase, sent, suite, disturbed, faults>>

\* Or it is interrupted.
KeyboardInterrupt ==
  /\ ~Ended /\ op = "wait"
  /\ Advance
  /\ UNCHANGED <<server, adapter, program, phase, sent, suite, disturbed, faults>>

\* The head of the loop of run_scenarios; a program that just acquires a URL
\* does not touch the counters.
BeginScenario ==
  /\ ~Ended /\ op \in Scenarios \cup FixtureUrls /\ phase = "ready"
  /\ phase' = "running"
  /\ runs' = <<>> /\ disturbed' = FALSE
  /\ IF op \in Scenarios THEN Reset ELSE UNCHANGED counts
  /\ UNCHANGED <<lifecycle, connections, reply, adapter, program, at, sent, before, records, faults>>

\* A scenario ends early when its manifest is not there.
ScriptDone ==
  \/ Len(runs) = Len(Script(op))
  \/ op \in Manifests /\ Len(runs) = 1 /\ ~Ok(runs[1])

NextUrl == Script(op)[Len(runs) + 1]

\* Mutant: the memo of a batch goes by the URLs as they are written.
SharesByUrl(i) == i > 1 /\ op \in Manifests /\ Script(op)[i] = NextUrl

\* run_batch: the i-th run is for the same key in the same batch.
Shares(i) == i > 1 /\ op \in Manifests /\ FixtureKey[Script(op)[i]] = FixtureKey[NextUrl]

\* engine.run, with its one strategy: the adapter is called in this thread.
Ask ==
  /\ phase = "running" /\ ~ScriptDone
  /\ ~\E i \in DOMAIN runs : Shares(i)
  /\ Http!BeginWith(Runner, RequestTo(NextUrl, IF op = "redirect" THEN {"data"} ELSE {}))
  /\ phase' = "asking"
  /\ UNCHANGED <<server, program, at, sent, suite, disturbed, faults>>

\* The memo has the run.
Share ==
  /\ phase = "running" /\ ~ScriptDone
  /\ \E i \in DOMAIN runs :
       /\ Shares(i) /\ \A j \in 1..i - 1 : ~Shares(j)
       /\ runs' = Append(runs, runs[i])
  /\ UNCHANGED <<server, adapter, program, at, phase, sent, before, records, disturbed, faults>>

\* The run is over; after its manifest duplicate-urls looks at the counter.
Collect ==
  /\ phase = "asking" /\ pc[Runner] = "done"
  /\ phase' = "running"
  /\ runs' = Append(runs, [code |-> outcome[Runner], result |-> delivered[Runner]])
  /\ before' = IF op = "duplicate-urls" /\ runs = <<>> THEN counts["/ok"] ELSE before
  /\ UNCHANGED <<server, adapter, program, at, sent, records, disturbed, faults>>

Record ==
  /\ phase = "running" /\ ScriptDone
  /\ records' = IF op \in Scenarios
                THEN Append(records, [name |-> op, step |-> at, disturbed |-> disturbed,
                                      passed |-> Len(runs) = Len(Script(op)) /\ Passes(op)])
                ELSE records
  /\ phase' = "ready" /\ Advance
  /\ runs' = <<>> /\ before' = 0
  /\ UNCHANGED <<server, adapter, program, sent, disturbed, faults>>

Owner ==
  \/ StartServer \/ StopServer \/ ThreadDead
  \/ BeginScenario \/ Ask \/ Share \/ Collect \/ Record
-----------------------------------------------------------------------------
(* acquire() against the server.                                           *)

owner == <<program, at, phase, suite>>

Asked == PathOf(Http!Current(Runner))

Think ==
  /\ Http!Local(Runner)
  /\ UNCHANGED <<server, owner, sent, disturbed, faults>>

\* The connection is made, or refused.
SendRequest ==
  /\ pc[Runner] = "open" /\ ~sent
  /\ \/ /\ Connect(Asked, Http!IfNoneMatch(Runner))
        /\ sent' = TRUE
        /\ UNCHANGED adapter
     \/ /\ ~listening
        /\ Http!FaultWith(Runner, "network_exception")
        /\ UNCHANGED <<server, sent>>
  /\ UNCHANGED <<owner, disturbed, faults>>

Answered == sent /\ reply # NoReply

ReceiveReply ==
  /\ Answered /\ Asked # "/slow"
  /\ Http!Receive(Runner, reply) /\ TakeReply
  /\ sent' = FALSE
  /\ UNCHANGED <<owner, disturbed, faults>>

\* The connection was closed without an answer.
RemoteDisconnected ==
  /\ sent /\ reply = NoReply /\ ~\E i \in DOMAIN connections : connections[i].waiting
  /\ Http!FaultWith(Runner, "network_exception")
  /\ sent' = FALSE
  /\ UNCHANGED <<server, owner, disturbed, faults>>

ReadBody ==
  /\ Http!ReadEnd(Runner)
  /\ UNCHANGED <<server, owner, sent, disturbed, faults>>

TimeOut ==
  /\ Http!FaultWith(Runner, "slow_response_timeout") /\ HangUp
  /\ sent' = FALSE
  /\ UNCHANGED owner

\* Nothing comes from /slow in time, nor from a server that was not started.
ExpectedTimeOut ==
  /\ pc[Runner] = "open" /\ (Asked = "/slow" \/ loops = <<>>)
  /\ TimeOut
  /\ UNCHANGED <<disturbed, faults>>

Fault == faults < MaxFaults /\ faults' = faults + 1 /\ disturbed' = TRUE

\* Whatever holds up the server or the client: an answer is missed, or the one
\* that should be missed is not.
UnexpectedTimeOut == Fault /\ TimeOut /\ ~(pc[Runner] = "open" /\ Asked = "/slow")

UnexpectedReply ==
  /\ Fault
  /\ Answered /\ Asked = "/slow"
  /\ Http!Receive(Runner, reply) /\ TakeReply
  /\ sent' = FALSE
  /\ UNCHANGED owner

Client == Think \/ SendRequest \/ ReceiveReply \/ RemoteDisconnected \/ ReadBody \/ ExpectedTimeOut
-----------------------------------------------------------------------------
(* The server beside them.                                                 *)

Serve ==
  /\ \E i \in DOMAIN loops : ServeForever(i)
  /\ UNCHANGED <<adapter, owner, sent, disturbed, faults>>

\* The counter a scenario looks at, itself or through an answer.
Sensitive(name) ==
  CASE name = "content-type-switch" -> {"/content-switch"}
    [] name = "duplicate-urls"      -> {"/ok"}
    [] OTHER                        -> {}

\* A handler thread; what a client that hung up has asked for is a stray.
HandleRequest ==
  /\ \E i \in DOMAIN connections :
       /\ Handle(i)
       /\ disturbed' = \/ disturbed
                       \/ /\ ~Ended /\ ~connections[i].waiting
                          /\ connections[i].path \in Sensitive(op)
  /\ UNCHANGED <<adapter, owner, sent, faults>>

Next ==
  \/ Owner \/ KeyboardInterrupt \/ Client \/ UnexpectedTimeOut \/ UnexpectedReply
  \/ Serve \/ HandleRequest

\* Every thread goes on, except that nobody needs to press a key.
Spec == Init /\ [][Next]_vars /\ WF_vars(Owner) /\ WF_vars(Client) /\ WF_vars(Serve)
             /\ WF_vars(HandleRequest)
-----------------------------------------------------------------------------
(* Properties.                                                             *)

Records == [name : Scenarios, step : Nat, disturbed : BOOLEAN, passed : BOOLEAN]

TypeOK ==
  /\ counts \in [Paths -> Nat]
  /\ ServerTypes
  /\ connections \in Seq(Connection)
  /\ reply \in {NoReply} \cup Http!Response
  /\ Http!TypeOK
  /\ program \in Programs /\ at \in 1..Len(program) + 1
  /\ phase \in {"ready", "running", "asking"} /\ sent \in BOOLEAN
  /\ runs \in Seq([code : Http!Codes, result : Http!Results]) /\ before \in Nat
  /\ records \in Seq(Records)
  /\ disturbed \in BOOLEAN /\ faults \in 0..MaxFaults

\* The server was started before step i of the program, and not stopped.
Hosted(i) ==
  /\ \E j \in 1..i : program[j] = "start"
  /\ \A j \in 1..i : program[j] # "stop"

\* A scenario fails for a cause of its own only: a fault while it ran, a
\* request that an earlier scenario had given up and that the server counted
\* only now, after the counters were reset; or its server does not serve.  The
\* order of the scenarios and what they left in the cache is no cause, except
\* that stale-etag-cache fails on an adapter that was asked for its URL before,
\* as by another run of stale-etag-cache.
FailuresHaveCauses ==
  \A i \in DOMAIN records :
    \/ records[i].passed
    \/ records[i].disturbed
    \/ ~Hosted(records[i].step)
    \/ /\ records[i].name = "stale-etag-cache"
       /\ \E j \in 1..records[i].step - 1 : AsksFor(program[j], "/stale-etag")

Waiting == ~Ended /\ op = "wait"

\* A program ends, unless it waits for an interrupt: stop() returns however far
\* serve_forever has come, whether or not a thread was started, and every
\* attempt of every scenario ends.
ProgramEnds == ~Waiting ~> (Ended \/ Waiting)
=============================================================================
