---------------------------- MODULE HttpInductive -----------------------------
(***************************************************************************)
(* The inductive invariant behind the safety theorems about HttpAdapter.   *)
(***************************************************************************)
EXTENDS HttpAdapter

\* Where an acquisition knows what it asks for, and where it has an answer.
Asking    == {"check", "open", "read_check", "read", "classify"}
Answering == {"read_check", "read", "classify"}

\* The URLs asked have keys, all different, and few enough of them; only an
\* acquisition that asks has followed a redirect.
Chains(c) ==
  /\ pc[c] \in Asking \cup {"lookup"} => Key[request[c].url] \in Resources
  /\ pc[c] \notin Asking => chain[c] = <<>>
  /\ Len(chain[c]) <= MaxRedirects
  /\ \A i \in DOMAIN chain[c] :
       /\ Key[chain[c][i]] \in Resources
       /\ Key[chain[c][i]] # Key[request[c].url]
       /\ \A j \in DOMAIN chain[c] : i # j => Key[chain[c][i]] # Key[chain[c][j]]

\* An operation begins only while the event is not set, and no second one ends
\* after it was.
Noticed(c) ==
  /\ late[c] <= 1
  /\ ~cancelled[c] => late[c] = 0
  /\ pc[c] \in {"open", "read"} => late[c] = 0

\* What came with edition e of resource k has its validators, or none.
Labelled(x, k, e) == x.etag \in {0, TagOf(k, e)} /\ x.modified \in {0, DateOf(k, e)}

\* No entry is newer than what its resource holds, and its validators are those
\* of its own bytes.
NotAhead(entry) ==
  entry # NoEntry => /\ Key[entry.url] \in Resources
                     /\ entry.edition <= content[Key[entry.url]].edition
                     /\ Labelled(entry, Key[entry.url], entry.edition)

\* Nor is an answer, and a body that is classified is whole.
Answered(c) ==
  /\ pc[c] \in Answering /\ response[c].status = "ok" =>
       /\ response[c].edition \in 1..content[Key[Current(c)]].edition
       /\ Labelled(response[c], Key[Current(c)], response[c].edition)
  /\ pc[c] = "classify" /\ response[c].status = "ok" => Body(c) # "cut"

\* What a 304 without the stale marker says of the entry it answers for.
Confirmable(c) ==
  pc[c] \in Answering /\ response[c].status = "not_modified" =>
    /\ \/ response[c].stale
       \/ /\ response[c].edition \in Editions
          /\ LET k == Key[Current(c)]
                 e == response[c].edition
             IN  \/ IfNoneMatch(c) # 0 /\ IfNoneMatch(c) = TagOf(k, e)
                 \/ IfNoneMatch(c) = 0 /\ IfModifiedSince(c) >= DateOf(k, e)
                 \/ IfNoneMatch(c) # 0 /\ response[c].etag \notin {0, IfNoneMatch(c)}
    /\ cached[c] # NoEntry /\ Key[cached[c].url] = Key[Current(c)] =>
         cached[c].edition <= response[c].edition

AcquisitionInv(c) ==
  NotAhead(cached[c]) /\ Chains(c) /\ Noticed(c) /\ Answered(c) /\ Confirmable(c)

\* Nor is any entry of the cache.
CacheInv == \A k \in CacheKeys : NotAhead(cache[k])

\* An acquisition under way has delivered nothing yet.
Undelivered == \A c \in Clients : Busy(c) => delivered[c] = NoResult

\* acquire() keeps its types, its bounds on redirects and on operations after
\* the cancellation, and nothing it holds or has cached is newer than the
\* content it is compared with.
IInv == TypeOK /\ CacheInv /\ \A c \in Clients : AcquisitionInv(c)
=============================================================================
