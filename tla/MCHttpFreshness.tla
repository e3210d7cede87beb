---------------------------- MODULE MCHttpFreshness ----------------------------
(***************************************************************************)
(* Constants for model checking HttpFreshness: two acquisitions that meet  *)
(* in the cache.                                                           *)
(***************************************************************************)
EXTENDS HttpFreshness, TLC

SharedKey  == "a" :> "A" @@ "b" :> "B"

\* The second edition of A has the ETag of all that B has, and the date of the
\* first.
SharedTags  == "A" :> <<1, 2>> @@ "B" :> <<2, 2>>
SharedDates == "A" :> <<1, 1>> @@ "B" :> <<2, 1>>

OneRequest ==
  {[url |-> "a", method |-> "GET", expected |-> {}, checks |-> Checks, use_cache |-> TRUE,
    max_age |-> 0, own |-> [etag |-> 0, modified |-> 0]]}
OneOffer   == {{"etag"}, {"modified"}}

\* What the next steps depend on: not what an acquisition that is over has
\* returned or was told, the count of late operations, or an answer dealt with.
Rest(c) ==
  <<request[c], cached[c], chain[c], began[c],
    IF Busy(c) THEN <<pc[c], cancelled[c]>> ELSE <<"over">>,
    IF pc[c] \in Answering THEN response[c] ELSE NoResponse>>

\* Two acquisitions are interchangeable: a set holds them, in the same state or
\* in different ones.
SharedView == <<origin, cache, {Rest(c) : c \in Clients}>>
=============================================================================
