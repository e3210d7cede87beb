# Verification of SourceAdapter-Fuzz

TLA+ models of the acquisition engine, the HTTP adapter with its cache, batch
execution, URL normalization, and the fixture server with the conformance
scenarios that run against it; the TLC configurations that check them on small
instances; and theorems about them that TLAPS proves for all instances. Paths below
are relative to `src/source_adapter_fuzz/` unless they start elsewhere.

## 1. The system

| Component | Code | State | Operations | Model |
|---|---|---|---|---|
| `AcquisitionEngine.run` | `engine.py`, `models.py`, `errors.py` | ordered strategies, `futures` dict, `next_index`, `last_launch`, cancellation event, receipts | order, sequential loop, staggered loop (launch, wait, apply, cancel), finish, shutdown | `Waterfall` |
| `AcquisitionEngine.run_batch` | `engine.py:88-119` | memo, items | reuse, run, partial failure | `Batch` |
| `HttpAdapter` | `adapters.py` | locals of `acquire`: cached entry, redirect chain, visited, response | look up, open, read, redirect, revalidate, refuse, validate, store | `HttpAdapter` |
| `MemoryCache`, `CacheEntry` | `cache.py:118-168` | entries | get, put, delete, clear, is_fresh | `HttpAdapter` (shared variable `cache`) |
| URL normalization, `deduplicate_urls` | `cache.py:13-115` | segments walked, keys seen | normalize, keep the first spelling | `Urls` |
| Fixture server | `fixtures.py` | hit counters, `thread`, the socket; the flag and the event of `BaseServer` | answer, reset, start, stop | `Fixtures` |
| Conformance scenarios | `scenarios.py` | one adapter, its cache and one fixture server per suite; the records | run the named scenarios in order | `Conformance` |
| Command line | `cli.py` | none of its own | `_serve`; argument parsing, output | `_serve` in `Conformance` |
| Reporting, examples | `reporting.py`, `examples/` | none of their own | formatting | not modelled |

How they interact. `run` orders the strategies by score and calls their
adapters, in its own thread or, when `stagger_ms > 0` and there are several, on
a `ThreadPoolExecutor`; the calling thread (the *coordinator*) and the workers
share the futures and one cancellation event. The adapters may be one
`HttpAdapter` object, which serves several threads at a time and keeps nothing
between calls but its `MemoryCache`. `acquire` talks to an origin and looks at
the event between operations. `run_batch` calls `run` for one request after
another. Batch, adapter and receipts all rely on `normalize_cache_key`.

`run_scenarios` owns a `FixtureServer` and one adapter. The server runs
`serve_forever` in a thread, which gives each connection to a handler thread; the
handlers share the hit counters with `run_scenarios`, which resets and reads them.
`stop()` raises a flag for the loop and waits for an event the loop sets.

What is hard about it:

- **Interleaving.** Workers finish, and queued work items start, while the
  coordinator applies a batch of finished futures, cancels or shuts down.
- **Time.** The stagger interval can end just as a future finishes; adapters
  hang; an HTTP operation may time out at any point of a redirect chain.
- **Stale state.** `acquire` reads the cache once and uses the entry after any
  number of requests, while other threads store newer entries, entries are
  evicted and the origin publishes. Its validators go along every redirect, and
  neither an ETag nor a date need belong to one resource or one edition only.
- **Long sequences.** Outcome, selection reason, accounting and result of a
  receipt are put together in different places over a whole run.
- **Threads that outlive their purpose.** A handler goes on when its client has
  hung up and when its server was stopped, and counts its hit at any later moment.
- **Boundaries.** Equal scores, the redirect limit, empty batches and engines,
  empty path segments.

`PROJECT.json` lists each hazard at its line, with the properties that cover it.

What makes each component correct:

- *run*: the receipt is consistent with the result and with itself; a terminal
  error stops everything; failure without one means that every strategy was
  called and failed; nothing goes on unsignalled after the call; a hanging
  adapter holds nothing up.
- *run_batch*: one run per method and normalized URL, an item for each input,
  `PartialBatchFailure` exactly for complete mixed batches.
- *HttpAdapter*: redirects are bounded and never come back; a result confirmed
  by a `304` is what the origin has, as far as the validators can tell, and without a cache age nothing is served that
  was outdated when it was asked for; only validated bodies are cached;
  cancellation is noticed before the next operation; every acquisition ends.
- *URLs*: keys tell resources apart, no more and no less; the first spelling of
  each is kept.
- *Fixture server*: a started server serves until it is stopped, a stopped one
  never again; `stop()` always returns.
- *Scenarios*: a scenario fails for a cause of its own, not for what stands before
  it in the suite.

## 2. Modules

| Module | What it is |
|---|---|
| `Waterfall` | `run` with its workers and clock: the detailed model |
| `WaterfallContract` | what `run` promises its caller; no threads, futures or clock |
| `WaterfallInductive` | the inductive invariant `IInv` of `Waterfall` |
| `WaterfallProofs`, `WaterfallRefinement` | proofs of the safety properties, and that `Waterfall` implements `WaterfallContract` |
| `WaterfallDocs` | claims of messages and docs about a run that the code does not keep |
| `MCWaterfall` | instances for TLC |
| `HttpAdapter` | `acquire` in several threads, with the cache they share and the origin |
| `HttpInductive`, `HttpProofs` | the inductive invariant of `HttpAdapter`, proofs of its safety properties |
| `HttpFreshness`, `HttpFreshnessProofs` | `HttpAdapter` with what the origin held when each acquisition began; the proof that this is the least it returns |
| `HttpDocs`, `MCHttpAdapter`, `MCHttpFreshness` | documented claims not kept, instances |
| `Batch`, `BatchProofs`, `MCBatch` | `run_batch`, proofs, instances |
| `Urls`, `UrlsProofs` | `deduplicate_urls` and `normalize_cache_key`, proofs |
| `UrlsReference` | the equivalence of URLs defined without the code's loops, the properties that use it, and the inductive invariant `DedupInv` |
| `UrlsDocs`, `MCUrls` | a documented claim not kept, instances |
| `Fixtures` | `FixtureServer`: owner's calls, `serve_forever` loops, handlers, answers |
| `Conformance` | programs that own a server and ask it through an `HttpAdapter`: scenarios, `serve-fixtures` |
| `ConformanceProofs` | proofs about the server under any program |
| `ConformanceInductive`, `SuiteProofs` | the inductive invariant of the scenarios, the proof that they fail for causes of their own |
| `MCConformance` | instances |

`HttpDocs` and `UrlsDocs` extend the instance module of their component,
`WaterfallDocs` extends `Waterfall`. `Conformance` extends `Fixtures` and takes
`HttpAdapter` by `INSTANCE`. `HttpFreshness` extends `HttpInductive` with one
history variable, `began`, and changes nothing else of `HttpAdapter`.

### Waterfall

One action is what a thread does from one access to shared state to the next.

| Code | Model |
|---|---|
| `ordered_strategies` | `Init`: `order`, by `Precedes` |
| `_run_sequential` | `pc` `seq_loop`, `seq_call`; `SequentialLaunch` and the other `Sequential...` actions |
| `launch()` | `Launch` inside the actions that call it |
| `wait(...)` returning with or without futures | `WaitWoken`, `WaitTimedOut`; `batch` is the done set |
| `for future in sorted(done, ...)` | one `Apply...` action per future, the lowest rank first |
| a result or terminal error in it | `ApplyResult`, `ApplyTerminal`: `Decided`, with `_cancel_inflight` and `_finish` |
| after the batch | `PostLaunch` and the actions beside it (`FallbackDue`) |
| `executor.shutdown` in `finally` | queued work is dropped in the step that decides; `join` waits when an exception escapes |
| `executor.submit` failing to start a thread | `SubmitFails`: the item is queued, no future is kept; `SubmitRaises`: from `launch(0)` at once, else through `finally` |
| a worker thread | `WorkerStart`, `WorkerFinish` with any of `Behaviours` |
| `time.monotonic() - last_launch` | `age`, counted up to the interval by `Tick` |

Adapters are external: a call may return a result, something else, raise any
kind of error, or hang. What `_invoke` makes of it is `Invoke`. A receipt keeps
the states, error classes, flags and counts; texts, durations, hashes and URLs
are left out because no property is about them.

### HttpAdapter

Each of several `Clients` is a thread inside `acquire`. A step ends where the
code reads the cache, the event or the network: `Start`, `Lookup`, `Check`,
`Open`, `ReadChunk`, `ReadEnd`, `Redirect`, `Revalidate`, `Refused`,
`BodyRejected`, `BodyAccepted`, `NetworkFault`, `NoStatus`. The origin is
external: it holds an edition of each resource, may `Publish` another at any
moment, and answers a request with what it has, a redirect anywhere, a refusal,
a true `304`, or a `304` whose ETag or stale marker contradicts the entry, like
the `/stale-etag` fixture. `Evict` stands for the methods of `MemoryCache` that
other owners of the cache may call.

An edition is bytes, no header tells it, and the adapter never compares it. What
the adapter sees are the validators, from two tables: `ETag` and `LastModified`
say which ETag and which date a resource has for each edition. They are arbitrary, so two
resources may use one ETag, a weak ETag may stand for several editions, and
editions may come within one second or with the date set back. The origin compares
what it is sent with what it has as HTTP says (`Matches`), the adapter compares the
ETag of a `304` with the entry's (`Conflicts`).

`Foreign` are the URLs that have a key but no HTTP: `acquire` refuses them only as
the first URL, follows redirects to them, and `int(response.getcode())` then raises
`TypeError` (`NoStatus`).

`Key` gives the normalized URL of each spelling; what normalization does is the
subject of `Urls`.

### Batch

`Reuse`, `Run`, `RunRaises` and `Finish` are the branches of the loop and its
end. A run is atomic here and known by the index of the request it was made for.

### Urls

`Take` splits a URL or raises; `WalkUp` and `WalkOn` are an iteration of the
loop of `_remove_dot_segments`; `Keep` puts the key together and looks it up.
Paths are sequences of segments and segments sequences of symbols, so that a dot
segment can be hidden in escapes. User-info (kept verbatim), a `%` that starts no
escape and IDNA beyond lower case and rejection are left out. `sorted()` is stated by
counting (`Sorted`): of the k-th component it says how many others are not after it.

### Fixtures and Conformance

`Fixtures` holds the server. `Dispatch` is what `_dispatch` sends, in the form in
which `HttpAdapter` receives it; `Handle` counts the hit and answers. The owner's
side is `Start`, `Stop`, `ShutDown`, `Join`, `Close`; `serve_forever` and the flag
and event it shares with `shutdown()` belong to the standard library and are modelled
step by step (`Clear` to `Announce`), because `stop()` rests on their order. A
connection waits in the queue of the socket until a loop accepts it, and is lost when
the socket is closed before.

`Conformance` is a program: a sequence of `"start"`, `"stop"`, `"wait"` (the loop of
`_serve`), names of scenarios, and URLs that are just acquired.

| Code | Model |
|---|---|
| the loop of `run_scenarios`: reset, `_run_one`, append | `BeginScenario`, ..., `Record` |
| the URLs a scenario asks for, those of its manifest included | `ErrorScenario`, `LongScenario`, `Script` |
| what `_run_one` and `_expect_error` test | `Passes` |
| `engine.run` with the one strategy | `Ask`, the steps of `HttpAdapter`, `Collect` |
| an item that `run_batch` has a run for | `Share` |
| the two readings of the counter of `/ok` | `before`, `Fetched` |
| `stop()`, `KeyboardInterrupt` in `_serve` | `StopServer`, `KeyboardInterrupt` |

The adapter is `HttpAdapter` itself, with one client: its local steps are taken as
they are, and in place of the origin that answers anything, its operations are joined
with the server's. `SendRequest` connects, `ReceiveReply` takes what `Dispatch`
answered, `RemoteDisconnected` and `TimeOut` are the faults. `/slow` is late for the
deadline of `slow-response`, whatever else happens (`ExpectedTimeOut`); any other
timeout, or an answer of `/slow` in time, is a fault, and `MaxFaults` bounds them.
What a client has given up stays at the server and is handled at any later moment.

Two variables are history: `disturbed` says that a fault happened in the scenario or
that a stray request reached a counter it looks at; `step`, in a record, is where in
the program it was made.

## 3. What is checked

| Run | Instance | What it shows |
|---|---|---|
| `waterfall_safety` | up to 3 strategies, 2 scores, sequential and a stagger of 2 ticks | types, `IInv`, the receipt's consistency, terminal stop, exhaustive fallback, accounting, order, nothing started or left unsignalled after return; `FallbackWaits`; refinement of the contract |
| `waterfall_progress` | the same with one score | under fairness: hung adapters are overtaken, a valid result is returned, the run ends if the calls do |
| `http_faults` | 1 client, 7 URLs: two spellings of a resource, two more resources, one that is no HTTP, two without key; 7 requests, all contents and validators, a limit of 1 redirect, 1 edition, 1 tick, 1 chunk | types, `IInv`, bounded redirects, cache contents, cancellation; every acquisition ends, in a bounded number of steps |
| `http_sharing` | 2 clients, 2 resources, 2 editions, 1 redirect; an ETag that two resources and two editions use, a date that two editions have, one set back | `RevalidatedIsCurrent`; `NeverOutdated`: unless the validators coincide, whoever stores last, the older body is not served to a request with a cache age of 0 that comes later |
| `batch` | every batch of up to 4 requests over 5 | sharing of runs, partial failure |
| `conformance` | all pairs of the 17 scenarios, all triples of 5 that leave or meet state, 5 other paths, `serve-fixtures`, every order of up to 4 calls of `start()` and `stop()`, requests to a stopped server; 1 fault | types, `SuiteInv`; `FailuresHaveCauses`: the order of a suite, the shared cache and late handlers break no scenario, with one exception; a stopped server is silent and a started one serves; every program ends |
| `urls` | about 15,000 lists: all pairs that differ in path, query or authority, long paths, triples | `DedupInv`; keys against RFC 3986, first spellings |

Why the bounds are enough. Three strategies give one that is done, one that runs
and one that waits, which is what each test in the staggered loop can tell apart,
and a done set of two in front of a running loser. Two scores give ties and strict
order. Two ticks let a call end before, at and after the interval. With one
redirect allowed, a third resource is one too many, and the second spelling of the
first is a loop. For revalidation the
conflict needs an entry, a newer edition and a second client that stores or is
answered in between: two editions, two clients. With the tables of `http_sharing`
entry and answer have the same validator in each way there is: by ETag and by date, of
two resources and of two editions of one. Batches of four hold two pairs of
duplicates, or a duplicate, a different method and an invalid URL. Paths of up to
six segments let two `..` meet two names and two empty segments in every order.
A scenario leaves entries in the cache and a request at the server, and both are met
by the next scenario that looks: pairs show each, and triples put a scenario between
them. Beyond one fault a scenario is disturbed anyhow. Four calls of `start()` and
`stop()` give a second thread on the closed socket and a second `stop()` for it.
The bounds (`MaxStrategies`, `MaxRedirects`, `MaxEditions`, `MaxTime`, `MaxChunks`,
`MaxBatch`, `Lists`, `Programs`, `MaxFaults`) and the tables `Key`, `Foreign`, `ETag`
and `LastModified` are constants; what is proved does not depend on their values.

`http_sharing` counts states through `VIEW SharedView`: the two clients are
interchangeable, so a set holds them, and what no later step reads is left out (the
result of an acquisition that is over, an answer dealt with, the count of late
operations). Both of its properties are about single steps, which TLC checks on
every transition, also into a state it has seen; it checks no liveness. `CHECK_DEADLOCK FALSE` is set where the system may stop: when
the origin has nothing and nobody asks (`HttpAdapter` under its bounds), when
`deduplicate_urls` has returned or raised, and when a program has ended.

`RedirectsBounded` is an upper bound: a limit that refused the last permitted
redirect would keep it.

Each property of a passing run has a mutant: a definition of the model changed
as a plausible bug would change it, for which TLC finds that property violated.
The mutated forms stand in front of the definitions they replace.

### Fairness

- `Waterfall!FairSpec`: the coordinator and the clock go on, and a queued work
  item gets its thread, because the pool has a thread for every strategy
  (`max_workers=len(ordered)`). Adapters and failures to start a thread get no fairness; `RunCompletes` states
  "if every call ends" as a premise of its own.
- `HttpAdapter!FairSpec`: the adapter's local steps are taken, and an operation
  that waits for the network for ever times out, since every request passes
  `timeout` to the opener. The origin gets no fairness, and bodies are bounded by
  `MaxChunks`: an origin that sends small chunks for ever is outside the instance,
  because the timeout is one of each socket operation.
- `Conformance!Spec`: the owner, the adapter, the loops and the handlers are threads
  that go on (handlers as a group: which is next is open). Interrupts and faults get no
  fairness, so `ProgramEnds` stops at a `"wait"`.

### Where code and documentation disagree

Each is a run that TLC finds violated.

| Run | Claim | What happens |
|---|---|---|
| `snipe_reason` | the message "A later strategy supplied the selected result." (`engine.py:286`) | it is also written when an earlier strategy wins after its fallback was launched |
| `only_inflight_sniped` | "In-flight losers ... are marked as `snipe_aborted`" (`README.md:127`) | an attempt that had already failed by itself, in the same done set, is overwritten |
| `forbidden_body` | "a 403 does not inspect or interpret its body" (`docs/fault-model.md:58`) | a cut body turns the 403 into `truncated_body`, a continuation |
| `expected_type` | "enforce expected media types, if any" (`docs/fault-model.md:51`) | results out of the cache are not held against them |
| `rfc_paths` | "RFC 3986 dot-segment removal without collapsing meaningful `//`" (`cache.py:30`) | empty segments are dropped or taken along by `..`, so different resources share a key |

Two more are in the model, and have no run of their own. `README.md:143` says that a
conflicting validator becomes `stale_etag_cache`; `docs/fault-model.md:87` names the ETag
only, and so does the code (`adapters.py:185`, `Conflicts`): the date of a `304` is never
compared. The docstring of `SourceAdapter` (`adapters.py:44`) says that adapters return a
result "or raise a typed `AcquisitionError`"; `acquire` ends with `ValueError` on some
malformed URLs and with `TypeError` on redirects to `file:` or `ftp:` (`Start`,
`InvalidTarget`, `NoStatus`), which the engine turns into `AdapterContractError`.

## 4. What is proved

For every number of strategies, all scores and every stagger (`WaterfallProofs`):
`TypeOK`, `SelectionConsistent`, `TerminalStops`, `FallbackExhaustive`,
`AccountingBalances`, `PreferredLaunchedFirst`, `NoCallAfterReturn`,
`LosersSignalled` and the action property `FallbackWaits`. The assumptions are
`ConfigAssumption`: the bounds are naturals and the scores integers.

The properties speak of the moment `run` returns, and none is inductive. `IInv`
says what leads there:

- `LaunchedInOrder`: ranks below `next` have been launched, the others are
  untouched, so "every strategy was called" can be read off `next_index`;
- `Undecided`: until the end there is no result, and as long as the loop goes on each
  launched attempt is in flight or came back with a continuation error that its
  receipt holds;
- `PoolState`: as long as the loop goes on, the `futures` dict is exactly the set of
  running attempts, and a done set is part of it and finished, which is why `_cancel_inflight`, which walks
  the dict, leaves no running attempt behind;
- `SequentialState`: without a pool only the last launched attempt can be running;
- `Sorted`, `OutcomeWhenFinished` and `Concluded` tie the order, the workers and
  the accounting to the receipt.

`IInv` is checked by `waterfall_safety` as well. The proof has one step per group
of actions; accounting is a lemma about the partition of the ranks by state, with
the cardinality theorems of the library.

`WaterfallRefinement` proves `Spec => ImplementsContract` with the mapping
`state <- AttemptState, verdict <- Verdict, winner <- result`: each step of the
coordinator, the workers and the clock is one step of the contract or changes
nothing it sees. `IInv` supplies that a decision finds exactly the running attempts.

`BatchProofs`: `TypeOK`, `DuplicatesShareRun` and `PartialOnlyWhenComplete` for
batches of any size. The invariant adds what the memo holds at each index: the first
run of its key among the requests before it.

`UrlsProofs`: `TypeOK` (with one URL in the result per key), `KeyPathsAreNormal`,
`UniqueAreFirst` and `KeysNameTheirResource`, for all lists, and paths and queries of
any length. For the first two the invariant says that `output` never starts with an
empty segment, never has two in a row and holds no dot segment; `..` keeps that because
it leaves an initial part.

The other two compare the code with `RFCPath`, which has no loop: a segment stays if
behind it `..` are never in the majority (`Staying`, `Balance`). `DedupInv` joins them,
segment by segment and URL by URL:

- only usable URLs get past the key, and while a path without `//` is walked, `output`
  is what RFC 3986 leaves of the segments walked (`Left`);
- the keys seen are the `ReferenceKey`s of the URLs before, and what is kept is the
  first URL with each.

The argument is in four parts. *Ranks*: `Picked(seq, S)` is a sequence with the entries
of `seq` at `S` in order; appending to it, cutting it and taking its last entry are
what happens to `S`. *Walk*: a name joins the set that stays, a dot segment changes
nothing, and `..` removes exactly its last member, because the number of those that stay
behind a position is the balance from there (`StayingUp`). This is where an induction
is needed; a least counterexample takes its place (`AlwaysCounted`), since the induction
theorems of the library are out of reach. *Query*: the components are sorted by counting, so equal
results mean equal counts and the other way round. *Keys*: two usable URLs have the same
key if and only if they are the same resource (`SameKey`), which turns "not in `seen`"
into "first of its resource".

`HttpProofs`: `TypeOK`, `RedirectsBounded`, `CancelStops`, `OnlyValidatedCached`
and the action properties `RevalidatedIsCurrent` and `StepsRunOut`, for any number of threads,
resources and spellings, any `max_redirects`, and whatever ETags and dates the
resources have. The assumption is `HttpAssumption`: the bounds are naturals, the
requests and the tables of validators have their type, and the URLs in `Foreign`
have a key. `IInv`
adds to the types:

- `Chains`: all URLs asked have different keys, the first one included, because
  `visited` is looked up before the chain grows, and the limit likewise;
- `Noticed`: an operation is begun only where the event was just looked at, so a
  second one cannot end after it was set;
- `NotAhead`: an entry, in the cache or in a thread, is never newer than the
  content of the resource it came from, and its validators are those of its own bytes
  (`Labelled`). This holds across threads, through redirects that changed and entries
  evicted meanwhile;
- `Answered`: an answer is no newer than the content either and has its own
  validators, and a body that is classified is whole;
- `Confirmable`: what a `304` can mean: it contradicts the entry, or the validator that
  HTTP compares matches; and from the resource of the entry it is no older than that.

`RevalidatedIsCurrent` says that what a `304` confirms is what the resource held, with
two exceptions. The caller may have sent validators of its own. Otherwise the entry's
validators were sent, and a `304` that does not conflict means that the compared one
matches: the answer's resource has, for its present edition, the ETag of the entry, or
for an entry without ETag a date that is no later (`ConfirmedIsCurrent`). If the entry
is that edition, the property holds. If it is not, it came from another
resource, or it is an older edition, as `NotAhead` excludes a newer one: this is what
`Coincides` says, and the code can do nothing about it, because it compares ETags only.
So where no ETag and no date is used twice, every confirmed result is current but for
entries without ETag that came over a redirect which has changed. The proof needs
also that an acquisition under way has delivered nothing (`Undelivered`).
`OnlyValidatedCached` is an invariant of its own on top of `IInv`.

`StepsRunOut` is the part of `AcquisitionEnds` that needs no fairness: `StepsLeft`, made
of the redirects still allowed and the chunks still to come, goes down with every step of
an acquisition and never below zero, and nothing anybody else does changes it. So
`acquire` makes at most `MaxRedirects * (2 * MaxChunks + 5) + 2 * MaxChunks + 7` steps,
for any limits. Here `Chains` is
what keeps the last redirect from being paid for with steps that are not there.
What is left to liveness is that the steps are taken.

`HttpFreshnessProofs`: `NeverOutdated`, for any number of acquisitions in any
order. Two parts are added to `IInv` and `Undelivered`: an acquisition has no result
until it ends (`Pending`), and `began` is no more than what the resource holds now
nor, once it has answered, than the answer (`Caught`). The origin's editions only
grow (`ContentGrows`), so the others may store what they like: a result is the body
of an answer, an entry that a `304` confirmed (`RevalidatedIsCurrent`, whose exceptions the
property inherits), or a fresh hit, which an age of 0 excludes. Every step of `Next` is first shown to be one of
four moves of an acquisition (`StepMoves`), and the rest is about the moves.

`ConformanceProofs`: `StoppedIsSilent` and `ServesUntilStopped` for every program,
any number of calls of `start()` and `stop()`, and any requests and timeouts. That a
stopped server is silent follows from no single line: `start()` does not look at the
socket, and an event left set makes `shutdown()` return before a new loop has run.
`ServerInv` says why it holds:

- `OneThread`: while the socket is open at most one thread was ever started, and it is
  let go only where the socket is closed next;
- `SignalsTrue`: while the socket is open, the event means that the loop is over, and
  the flag that somebody is stopping it;
- `StopProgress`: `stop()` waits only with a thread, and past the wait the loop is dead.

Only `serve_forever`, `start` and `stop` touch what it speaks of; the adapter, the
scenarios and the handlers leave it alone (`ServerFramed`).

`SuiteProofs`: `TypeOK` and `FailuresHaveCauses`, for every program of any length, with
the scenarios in any order and any number, any number of starts, stops and faults, and
whatever the threads of the server do in between. The assumption is
`ProgramsAssumption`: a program is a sequence of steps there are, and `MaxFaults` a
natural. That a scenario passes is seen when it is recorded; `SuiteInv`, which
`conformance` checks as well, says what is true on the way:

- `Followed`, `Placed`: the server follows the program, and an acquisition under way is
  the one for the next URL of the scenario;
- `CacheHolds`, `LookedUp`: only the two fixtures that send an ETag are ever in the
  cache, in one form, and nobody changes an entry between look-up and answer. So what
  earlier steps left can make a difference to `/etag` and `/stale-etag` alone;
- `Redirected`: no fixture but the loop redirects twice, and the loop is cut at once;
- `Answers`, `Awaited`: at most one connection is waited for, it carries what the
  adapter asks now, and what has come is what the fixture answers to that. A request
  that was given up is never taken for the one that is waited for;
- `SwitchCounted`, `OkCounted`: while nothing disturbs the scenario, the counter it
  looks at is exactly the number of runs it has made that ask there, plus one from
  the moment the server has counted the current one;
- `StaleStored`: an entry of `/stale-etag` is from this scenario, or its URL was asked
  for before;
- `RunsGive`: what each run of a scenario that is not disturbed comes to.

The adapter's part is proved without its scripts: whatever URL it is given, an
acquisition that is not cut off ends as `CodeOf` says (`Verdict`, `AnswerFacts`,
`ThinkKeeps`); `UrlOfRun` and `EndGives` join that with the scenarios. There is one
lemma per action of `Conformance`, and it has the theorem about the server
(`ServerStep`) for what concerns the loops.

Model-checked only: liveness (`HungAdapterOvertaken`, `ValidResultReturned`,
`RunCompletes`, `AcquisitionEnds`, `ProgramEnds`), because fairness and ENABLED are
beyond the prover. Every other property that a passing run checks is proved.

## 5. What is not modelled

- A `KeyboardInterrupt` delivered between two statements of `run` or in the middle of
  a suite. An escaping exception from an adapter or a score function is modelled.
- Starting the thread of `serve_forever` or of a handler failing, and `stop()` called
  by two threads at once.
- `HEAD` requests to the fixtures (`_dispatch` without the body): nobody sends one.
- Scores that are NaN: the sort's result is then unspecified.
- `_record_success` raising: an adapter that returns an `AdapterResult` whose body or
  headers are not what their types say makes it fail after `shutdown(wait=False)`, with
  losers still running. `Waterfall` takes results to be well-formed.
- `_canonical_url`, `_parse_retry_after`, the patterns of the JavaScript shell test
  and charset decoding, beyond the outcome of the check.
- How long things take in all; time is only what decides (stagger, cache age).
- Reporting, the rest of the command line, and examples, which keep no state.

## 6. Plan

Done, in this order: `Waterfall` with contract, proofs and refinement; `HttpAdapter`;
`Batch`; `Urls`; the proofs about `HttpAdapter`; `Fixtures` and `Conformance` with
the proofs about the server; pools that cannot start a thread; `HttpFreshness` with
its proof; the proof about the scenarios; the proof that keys follow RFC 3986; the
bound on the steps of an acquisition; validators that coincide and redirects to
other schemes.

Next:

1. An abstract specification of the shared cache as its callers see it, with
   `HttpAdapter` shown to implement it.
2. The time of an attempt: "`timeout` is per adapter attempt" (`models.py:27`)
   against a timeout of each socket operation.
3. `Waterfall` and `HttpAdapter` composed: the cancellation `run` sends is the one
   `acquire` notices, so a loser ends after the operation it is in.
