----------------------------- MODULE MCHttpAdapter -----------------------------
(***************************************************************************)
(* Constants for model checking HttpAdapter: two spellings of one resource,*)
(* two more resources, one beyond the redirect limit, one that is no HTTP  *)
(* resource, and URLs without key.                                         *)
(***************************************************************************)
EXTENDS HttpInductive, TLC

MCKey == "a" :> "A" @@ "a?" :> "A" @@ "b" :> "B" @@ "c" :> "C" @@ "file" :> "F" @@
         "bad" :> "malformed" @@ "/a" :> "relative"

\* ETags and dates of the one edition.
MCValidators == "A" :> <<1>> @@ "B" :> <<2>> @@ "C" :> <<3>> @@ "F" :> <<1>>

None   == [etag |-> 0, modified |-> 0]
Simple == [url |-> "a", method |-> "GET", expected |-> {}, checks |-> Checks,
           use_cache |-> TRUE, max_age |-> 0, own |-> None]

MCRequests ==
  {Simple,
   [Simple EXCEPT !.url = "a?", !.max_age = 1, !.checks = {}, !.expected = {"pdf"}],
   [Simple EXCEPT !.method = "HEAD"], [Simple EXCEPT !.use_cache = FALSE],
   [Simple EXCEPT !.own = [etag |-> 1, modified |-> 0]],
   [Simple EXCEPT !.url = "bad"], [Simple EXCEPT !.url = "/a"]}

AllOffers == SUBSET Validators
OneOffer  == {{"etag"}, {"modified"}}
=============================================================================
