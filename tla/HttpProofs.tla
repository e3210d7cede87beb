------------------------------ MODULE HttpProofs ------------------------------
(***************************************************************************)
(* For any number of acquisitions, any resources and any limits: types,    *)
(* bounded redirects, cancellation, that a revalidated result is current,  *)
(* and how many steps an acquisition takes at most.                        *)
(***************************************************************************)
EXTENDS HttpInductive, TLAPS

USE HttpAssumption

\* What an acquisition's own invariant speaks of, besides the content.
Same(d) ==
  /\ pc'[d] = pc[d] /\ request'[d] = request[d] /\ cancelled'[d] = cancelled[d]
  /\ cached'[d] = cached[d] /\ chain'[d] = chain[d] /\ response'[d] = response[d]
  /\ late'[d] = late[d]
-----------------------------------------------------------------------------
LEMMA KeyFacts ==
  /\ \A u \in Urls : Key[u] \notin Invalid => Key[u] \in Resources
  /\ \A k \in Resources : k \notin Invalid
  BY DEF Resources

LEMMA ConstantTypes ==
  /\ NoEntry \in {NoEntry} \cup Entry
  /\ NoResponse \in Response
  /\ NoResult \in Results
  /\ \A r \in Requests : /\ r.url \in Urls /\ r.method \in {"GET", "HEAD"}
                         /\ r.own.etag \in Nat /\ r.own.modified \in Nat
  BY DEF Response, NoResponse, AllKinds, Statuses, Results, RequestType, Editions

\* An edition has an ETag and a date, what is not published has none.
LEMMA ValidatorTypes ==
  ASSUME NEW k \in Resources, NEW e \in Editions \cup {0}
  PROVE  /\ TagOf(k, e) \in Nat /\ DateOf(k, e) \in Nat
         /\ e # 0 => TagOf(k, e) # 0 /\ DateOf(k, e) # 0
<1>1. ETag \in ValidatorTables /\ LastModified \in ValidatorTables
  OBVIOUS
<1>2. ETag[k] \in [Editions -> Nat \ {0}] /\ LastModified[k] \in [Editions -> Nat \ {0}]
  BY <1>1 DEF ValidatorTables
<1>. QED
  BY <1>2 DEF TagOf, DateOf, Editions

\* An acquisition that is at a resource has a content to look at.
LEMMA CurrentType ==
  ASSUME TypeOK, NEW c \in Clients, Chains(c), pc[c] \in Asking
  PROVE  Current(c) \in Urls /\ Key[Current(c)] \in Resources
<1>1. chain[c] \in Seq(Urls) /\ request[c].url \in Urls
  BY ConstantTypes DEF TypeOK
<1>2. CASE chain[c] = <<>>
  BY <1>1, <1>2 DEF Current, Chains
<1>3. CASE chain[c] # <<>>
  <2>1. Len(chain[c]) \in DOMAIN chain[c]
    BY <1>1, <1>3
  <2>. QED
    BY <1>1, <1>3, <2>1 DEF Current, Chains
<1>. QED
  BY <1>2, <1>3

\* An acquisition that takes no step keeps its invariant while the content
\* stays as it is.
LEMMA Framed ==
  ASSUME NEW d \in Clients, AcquisitionInv(d), Same(d), content' = content
  PROVE  AcquisitionInv(d)'
<1>1. NotAhead(cached[d])'
  BY DEF AcquisitionInv, NotAhead, Same
<1>2. Chains(d)'
  BY DEF AcquisitionInv, Chains, Same
<1>3. Noticed(d)'
  BY DEF AcquisitionInv, Noticed, Same
<1>4. Answered(d)'
  BY DEF AcquisitionInv, Answered, Current, Body, Same
<1>5. Confirmable(d)'
  BY DEF AcquisitionInv, Confirmable, Current, IfNoneMatch, IfModifiedSince, Same
<1>. QED
  BY <1>1, <1>2, <1>3, <1>4, <1>5 DEF AcquisitionInv

\* acquire() is over: nothing is left of its locals.
LEMMA FinishFacts ==
  ASSUME TypeOK, NEW c \in Clients, NEW code \in Codes, NEW res \in Results,
         Finish(c, code, res)
  PROVE  /\ pc' = [pc EXCEPT ![c] = "done"]
         /\ outcome' \in [Clients -> Codes] /\ delivered' \in [Clients -> Results]
         /\ cached' = [cached EXCEPT ![c] = NoEntry]
         /\ cached' \in [Clients -> {NoEntry} \cup Entry]
         /\ chain' = [chain EXCEPT ![c] = <<>>]
         /\ chain' \in [Clients -> Seq(Urls)]
         /\ response' = [response EXCEPT ![c] = NoResponse]
         /\ response' \in [Clients -> Response]
         /\ chunks' \in [Clients -> 0..MaxChunks]
  BY ConstantTypes DEF TypeOK, Finish, ClearLocals

\* A step of acquisition c that ends it.
LEMMA FinishInv ==
  ASSUME IInv, NEW c \in Clients, NEW code \in Codes, NEW res \in Results,
         Finish(c, code, res), Noticed(c)', late' \in [Clients -> Nat],
         \A d \in Clients : d # c => late'[d] = late[d],
         UNCHANGED <<origin, now, request, cancelled>>,
         cache' \in [CacheKeys -> {NoEntry} \cup Entry], CacheInv'
  PROVE  IInv'
<1>1. TypeOK /\ \A d \in Clients : AcquisitionInv(d)
  BY DEF IInv
<1>2. TypeOK'
  BY <1>1, FinishFacts DEF TypeOK, origin
<1>3. ASSUME NEW d \in Clients, d # c PROVE AcquisitionInv(d)'
  <2>1. Same(d) /\ content' = content
    BY <1>1, <1>3, FinishFacts DEF Same, TypeOK, origin
  <2>. QED
    BY <1>1, <2>1, Framed
<1>4. AcquisitionInv(c)'
  <2>1. pc'[c] = "done" /\ cached'[c] = NoEntry /\ chain'[c] = <<>>
    BY <1>1, FinishFacts DEF TypeOK
  <2>. QED
    BY <2>1 DEF AcquisitionInv, NotAhead, Chains, Answered, Confirmable, Asking, Answering
<1>. QED
  BY <1>2, <1>3, <1>4 DEF IInv

\* The same, where no network operation ends.
LEMMA QuietFinishInv ==
  ASSUME IInv, NEW c \in Clients, NEW code \in Codes, NEW res \in Results,
         Finish(c, code, res), UNCHANGED <<origin, now, cache, request, cancelled, late>>
  PROVE  IInv'
<1>1. TypeOK /\ AcquisitionInv(c) /\ CacheInv
  BY DEF IInv
<1>2. Noticed(c)'
  BY <1>1, FinishFacts DEF AcquisitionInv, Noticed, TypeOK
<1>3. CacheInv'
  BY <1>1 DEF CacheInv, NotAhead, origin
<1>. QED
  BY <1>1, <1>2, <1>3, FinishInv DEF TypeOK

\* A step of acquisition c that goes on: what is left to show.
LEMMA GoOnInv ==
  ASSUME IInv, NEW c \in Clients, TypeOK', AcquisitionInv(c)',
         UNCHANGED <<content, cache>>, \A d \in Clients : d # c => Same(d)
  PROVE  IInv'
  BY Framed DEF IInv, CacheInv, NotAhead
-----------------------------------------------------------------------------
(* The environment.                                                        *)

LEMMA InitInv == Init => IInv
<1> SUFFICES ASSUME Init PROVE IInv
  OBVIOUS
<1>1. TypeOK
  BY ConstantTypes DEF Init, TypeOK, NoContent, AllKinds, Codes, Results
<1>2. CacheInv
  BY DEF Init, CacheInv, NotAhead
<1>3. ASSUME NEW c \in Clients PROVE AcquisitionInv(c)
  BY <1>3 DEF Init, AcquisitionInv, NotAhead, Chains, Noticed, Answered, Confirmable,
              Asking, Answering
<1>. QED
  BY <1>1, <1>2, <1>3 DEF IInv

\* What a resource holds never gets older.
LEMMA PublishInv ==
  ASSUME IInv, NEW k \in Resources, Publish(k)
  PROVE  IInv'
<1>1. TypeOK /\ CacheInv /\ \A c \in Clients : AcquisitionInv(c)
  BY DEF IInv
<1>2. PICK kind \in Kinds : content' = [content EXCEPT ![k] = [edition |-> editions + 1, kind |-> kind]]
  BY DEF Publish
<1>3. /\ content' \in [Resources -> [edition : 0..editions + 1, kind : AllKinds]]
      /\ editions' = editions + 1 /\ editions + 1 \in 0..MaxEditions
      /\ \A j \in Resources : content[j].edition \in Nat /\ content'[j].edition \in Nat
                              /\ content[j].edition <= content'[j].edition
  BY <1>1, <1>2 DEF Publish, TypeOK
<1>4. TypeOK'
  BY <1>1, <1>3 DEF Publish, TypeOK, local, end
<1>5. ASSUME NEW entry \in {NoEntry} \cup Entry, NotAhead(entry)
      PROVE  NotAhead(entry)'
  BY <1>3, <1>5 DEF NotAhead, Entry, Editions
<1>6. CacheInv'
  BY <1>1, <1>5 DEF CacheInv, Publish, TypeOK, NotAhead
<1>7. ASSUME NEW c \in Clients PROVE AcquisitionInv(c)'
  <2>1. Same(c)
    BY DEF Publish, Same, local
  <2>2. NotAhead(cached[c])'
    BY <1>1, <1>5, <2>1 DEF AcquisitionInv, TypeOK, Same, NotAhead
  <2>3. Chains(c)' /\ Noticed(c)'
    BY <1>1, <2>1 DEF AcquisitionInv, Chains, Noticed, Same
  <2>4. Answered(c)'
    <3>1. Current(c)' = Current(c) /\ Body(c)' = Body(c)
      BY <2>1 DEF Current, Body, Same
    <3>2. pc[c] \in Answering => Key[Current(c)] \in Resources
      BY <1>1, CurrentType DEF AcquisitionInv, Answering, Asking
    <3>. QED
      BY <1>1, <1>3, <2>1, <3>1, <3>2 DEF AcquisitionInv, Answered, Same
  <2>5. Confirmable(c)'
    BY <1>1, <2>1 DEF AcquisitionInv, Confirmable, Current, IfNoneMatch, IfModifiedSince, Same
  <2>. QED
    BY <2>2, <2>3, <2>4, <2>5 DEF AcquisitionInv
<1>. QED
  BY <1>4, <1>6, <1>7 DEF IInv

LEMMA EvictInv ==
  ASSUME IInv, NEW k \in CacheKeys, Evict(k)
  PROVE  IInv'
<1>1. TypeOK /\ CacheInv /\ \A c \in Clients : AcquisitionInv(c)
  BY DEF IInv
<1>2. /\ cache' \in [CacheKeys -> {NoEntry} \cup Entry]
      /\ \A j \in CacheKeys : cache'[j] = cache[j] \/ cache'[j] = NoEntry
  BY <1>1, ConstantTypes DEF Evict, TypeOK
<1>3. TypeOK'
  BY <1>1, <1>2 DEF Evict, TypeOK, origin, local, end
<1>4. CacheInv'
  BY <1>1, <1>2 DEF CacheInv, NotAhead, Evict, origin
<1>5. ASSUME NEW c \in Clients PROVE AcquisitionInv(c)'
  BY <1>1, Framed DEF Evict, Same, origin, local
<1>. QED
  BY <1>3, <1>4, <1>5 DEF IInv

LEMMA TickInv ==
  ASSUME IInv, Tick
  PROVE  IInv'
<1>1. TypeOK /\ CacheInv /\ \A c \in Clients : AcquisitionInv(c)
  BY DEF IInv
<1>2. TypeOK'
  BY <1>1 DEF Tick, TypeOK, origin, local, end
<1>3. CacheInv'
  BY <1>1 DEF CacheInv, NotAhead, Tick, origin
<1>4. ASSUME NEW c \in Clients PROVE AcquisitionInv(c)'
  BY <1>1, Framed DEF Tick, Same, origin, local
<1>. QED
  BY <1>2, <1>3, <1>4 DEF IInv

\* An acquisition begins where the last one has left nothing behind.
LEMMA BeginInv ==
  ASSUME IInv, NEW c \in Clients, Begin(c)
  PROVE  IInv'
<1>1. TypeOK /\ AcquisitionInv(c)
  BY DEF IInv
<1>2. PICK r \in Requests : BeginWith(c, r)
  BY DEF Begin
<1>3. TypeOK'
  BY <1>1, <1>2, ConstantTypes DEF BeginWith, TypeOK, origin, local, Codes
<1>4. /\ pc[c] \in {"idle", "done"} /\ pc'[c] = "start"
      /\ ~cancelled'[c] /\ late'[c] = 0 /\ UNCHANGED <<content, cached, chain>>
  BY <1>1, <1>2 DEF BeginWith, Busy, TypeOK, origin, local
<1>5. AcquisitionInv(c)'
  <2>1. NotAhead(cached[c])'
    BY <1>1, <1>4 DEF AcquisitionInv, NotAhead
  <2>2. chain[c] = <<>>
    BY <1>1, <1>4 DEF AcquisitionInv, Chains, Asking
  <2>3. Chains(c)'
    BY <1>4, <2>2 DEF Chains, Asking
  <2>. QED
    BY <1>4, <2>1, <2>3 DEF AcquisitionInv, Noticed, Answered, Confirmable, Answering
<1>6. \A d \in Clients : d # c => Same(d)
  BY <1>1, <1>2 DEF BeginWith, Same, TypeOK, local
<1>. QED
  BY <1>2, <1>3, <1>5, <1>6, GoOnInv DEF BeginWith, origin

LEMMA CancelInv ==
  ASSUME IInv, NEW c \in Clients, Cancel(c)
  PROVE  IInv'
<1>1. TypeOK /\ AcquisitionInv(c)
  BY DEF IInv
<1>2. TypeOK'
  BY <1>1 DEF Cancel, TypeOK, origin, local, end
<1>3. /\ cancelled'[c] /\ late'[c] = 0 /\ ~cancelled[c]
      /\ UNCHANGED <<content, pc, request, cached, chain, response>>
  BY <1>1 DEF Cancel, TypeOK, AcquisitionInv, Noticed, origin, local
<1>4. AcquisitionInv(c)'
  <2>1. NotAhead(cached[c])' /\ Chains(c)' /\ Noticed(c)'
    BY <1>1, <1>3 DEF AcquisitionInv, NotAhead, Chains, Noticed
  <2>2. Answered(c)' /\ Confirmable(c)'
    BY <1>1, <1>3 DEF AcquisitionInv, Answered, Confirmable, Current, Body,
                      IfNoneMatch, IfModifiedSince
  <2>. QED
    BY <2>1, <2>2 DEF AcquisitionInv
<1>5. \A d \in Clients : d # c => Same(d)
  BY <1>1 DEF Cancel, Same, TypeOK, local
<1>. QED
  BY <1>2, <1>4, <1>5, GoOnInv DEF Cancel, origin
-----------------------------------------------------------------------------
(* acquire().                                                              *)

\* A local step that goes on at p, with what it changes of its locals.
LEMMA GotoFacts ==
  ASSUME TypeOK, NEW c \in Clients, NEW p \in Asking \cup {"lookup"}, Goto(c, p)
  PROVE  /\ pc'[c] = p /\ \A d \in Clients : d # c => pc'[d] = pc[d]
         /\ pc' \in [Clients -> {"idle", "start", "lookup", "check", "open", "read_check", "read",
                                 "classify", "done"}]
         /\ UNCHANGED end
  BY DEF TypeOK, Goto, Asking

LEMMA StartInv ==
  ASSUME IInv, NEW c \in Clients, Start(c)
  PROVE  IInv'
<1>1. TypeOK /\ AcquisitionInv(c)
  BY DEF IInv
<1>2. CASE \E code \in {"cancelled", "http_client_error", "ValueError"} : Fail(c, code)
  BY <1>2, QuietFinishInv, ConstantTypes DEF Start, Fail, Codes
<1>3. CASE /\ Key[request[c].url] \notin Invalid
           /\ Goto(c, "lookup") /\ UNCHANGED local
  <2>1. TypeOK'
    BY <1>1, <1>3, GotoFacts DEF Start, TypeOK, origin, local, end
  <2>2. /\ pc[c] = "start" /\ pc'[c] = "lookup"
        /\ UNCHANGED <<content, cache, request, cancelled, cached, chain, response, late>>
    BY <1>1, <1>3, GotoFacts DEF Start, origin, local
  <2>3. Key[request[c].url] \in Resources
    BY <1>1, <1>3, KeyFacts, ConstantTypes DEF TypeOK
  <2>4. AcquisitionInv(c)'
    BY <1>1, <2>2, <2>3 DEF AcquisitionInv, NotAhead, Chains, Noticed, Answered, Confirmable,
                            Asking, Answering
  <2>5. \A d \in Clients : d # c => Same(d)
    BY <1>1, <1>3, <2>2, GotoFacts DEF Same
  <2>. QED
    BY <2>1, <2>2, <2>4, <2>5, GoOnInv
<1>. QED
  BY <1>2, <1>3 DEF Start, Invalid

LEMMA LookupInv ==
  ASSUME IInv, NEW c \in Clients, Lookup(c)
  PROVE  IInv'
<1> DEFINE entry == IF request[c].use_cache THEN cache[<<request[c].method, Key[request[c].url]>>]
                                            ELSE NoEntry
<1>1. TypeOK /\ AcquisitionInv(c) /\ CacheInv
  BY DEF IInv
<1>2. entry \in {NoEntry} \cup Entry /\ NotAhead(entry)
  <2>1. <<request[c].method, Key[request[c].url]>> \in CacheKeys
    BY <1>1, ConstantTypes DEF Lookup, AcquisitionInv, Chains, TypeOK, CacheKeys
  <2>. QED
    BY <1>1, <2>1 DEF TypeOK, CacheInv, NotAhead
<1>3. CASE entry # NoEntry /\ Finish(c, "result", CachedResult(entry, "fresh", 0))
  <2>1. CachedResult(entry, "fresh", 0) \in Results
    BY <1>2, <1>3 DEF CachedResult, Results, Entry, Editions
  <2>. QED
    BY <1>3, <2>1, QuietFinishInv DEF Lookup, Codes
<1>4. CASE /\ cached' = [cached EXCEPT ![c] = entry]
           /\ Goto(c, "check")
           /\ UNCHANGED <<chain, response, chunks>>
  <2>1. TypeOK'
    BY <1>1, <1>2, <1>4, GotoFacts DEF Lookup, TypeOK, origin, end, Asking
  <2>2. /\ pc[c] = "lookup" /\ pc'[c] = "check" /\ cached'[c] = entry
        /\ UNCHANGED <<content, cache, request, cancelled, chain, response, late>>
    BY <1>1, <1>4, GotoFacts DEF Lookup, TypeOK, origin, Asking
  <2>3. AcquisitionInv(c)'
    BY <1>1, <1>2, <2>2 DEF AcquisitionInv, NotAhead, Chains, Noticed, Answered, Confirmable,
                            Asking, Answering
  <2>4. \A d \in Clients : d # c => Same(d)
    BY <1>1, <1>4, <2>2, GotoFacts DEF Same, TypeOK, Asking
  <2>. QED
    BY <2>1, <2>2, <2>3, <2>4, GoOnInv
<1>. QED
  BY <1>3, <1>4 DEF Lookup

\* An operation is begun only when the event has been looked at.
LEMMA CheckInv ==
  ASSUME IInv, NEW c \in Clients, Check(c)
  PROVE  IInv'
<1>1. TypeOK /\ AcquisitionInv(c)
  BY DEF IInv
<1>2. CASE cancelled[c]
  BY <1>2, QuietFinishInv, ConstantTypes DEF Check, SeesCancellation, Fail, Codes
<1>3. CASE ~cancelled[c]
  <2> DEFINE p == IF pc[c] = "check" THEN "open" ELSE "read"
  <2>1. Goto(c, p) /\ UNCHANGED local /\ p \in Asking
    BY <1>3 DEF Check, SeesCancellation, Asking
  <2>2. TypeOK'
    BY <1>1, <2>1, GotoFacts DEF Check, TypeOK, origin, local, end
  <2>3. /\ pc[c] \in {"check", "read_check"} /\ pc'[c] = p
        /\ UNCHANGED <<content, cache, request, cancelled, cached, chain, response, late>>
    BY <1>1, <2>1, GotoFacts DEF Check, origin, local
  <2>4. NotAhead(cached[c])' /\ Chains(c)' /\ Noticed(c)'
    BY <1>1, <1>3, <2>3 DEF AcquisitionInv, NotAhead, Chains, Noticed, Asking
  <2>5. Answered(c)' /\ Confirmable(c)'
    BY <1>1, <2>3 DEF AcquisitionInv, Answered, Confirmable, Answering, Current, Body,
                      IfNoneMatch, IfModifiedSince
  <2>6. \A d \in Clients : d # c => Same(d)
    BY <1>1, <2>1, <2>3, GotoFacts DEF Same
  <2>. QED
    BY <2>2, <2>3, <2>4, <2>5, <2>6, GoOnInv DEF AcquisitionInv
<1>. QED
  BY <1>2, <1>3

\* What the answers have in common.
LEMMA AnswerFacts ==
  ASSUME TypeOK, NEW c \in Clients, AcquisitionInv(c), pc[c] = "open", NEW a \in Answers(c)
  PROVE  /\ a \in Response
         /\ a.status = "ok" => /\ a.edition \in 1..content[Key[Current(c)]].edition
                               /\ Labelled(a, Key[Current(c)], a.edition)
         /\ a.status = "not_modified" =>
              /\ a.edition = content[Key[Current(c)]].edition
              /\ \/ a.stale
                 \/ /\ a.edition \in Editions
                    /\ \/ IfNoneMatch(c) # 0 /\ IfNoneMatch(c) = TagOf(Key[Current(c)], a.edition)
                       \/ IfNoneMatch(c) = 0
                          /\ IfModifiedSince(c) >= DateOf(Key[Current(c)], a.edition)
                       \/ IfNoneMatch(c) # 0 /\ a.etag \notin {0, IfNoneMatch(c)}
<1> DEFINE k == Key[Current(c)]
           e == content[k].edition
<1>1. /\ e \in Editions \cup {0} /\ content[k].kind \in AllKinds /\ k \in Resources
  BY CurrentType DEF TypeOK, AcquisitionInv, Asking, Editions
<1>2. /\ TagOf(k, e) \in Nat /\ DateOf(k, e) \in Nat
      /\ e # 0 => TagOf(k, e) # 0 /\ DateOf(k, e) # 0
      /\ e = 0 => TagOf(k, e) = 0
  BY <1>1, ValidatorTypes DEF TagOf
<1>3. CASE a \in Contents(c)
  <2>1. PICK b \in {content[k].kind, "cut"}, v \in Offers : a = About(c, "ok", b, v, FALSE)
    BY <1>3 DEF Contents, About
  <2>2. a.edition # 0
    BY <1>3 DEF Contents
  <2>3. a \in Response
    BY <1>1, <1>2, <2>1 DEF About, Response, Statuses, Editions
  <2>4. a.status = "ok" /\ a.edition = e /\ Labelled(a, k, e)
    BY <2>1 DEF About, Labelled
  <2>. QED
    BY <1>1, <2>2, <2>3, <2>4 DEF Editions
<1>4. CASE a \in NotModified(c)
  <2>1. PICK v \in Offers, m \in BOOLEAN : a = About(c, "not_modified", "empty", v, m)
    BY <1>4 DEF NotModified
  <2>2. IF Matches(c) THEN ~a.stale ELSE a.stale \/ (a.etag # 0 /\ IfNoneMatch(c) # 0)
    BY <1>4 DEF NotModified
  <2>3. a \in Response
    BY <1>1, <1>2, <2>1 DEF About, Response, Statuses, AllKinds, Editions
  <2>4. /\ a.status = "not_modified" /\ a.edition = e /\ a.stale = m
        /\ a.etag \in {0, TagOf(k, e)}
    BY <2>1 DEF About
  <2>5. CASE Matches(c)
    BY <1>1, <2>3, <2>4, <2>5 DEF Matches
  <2>6. CASE ~Matches(c) /\ ~a.stale
    <3>1. a.etag = TagOf(k, e) /\ IfNoneMatch(c) # 0 /\ e \in Editions
      BY <1>1, <1>2, <2>2, <2>4, <2>6
    <3>2. IfNoneMatch(c) # TagOf(k, e)
      BY <1>1, <2>6, <3>1 DEF Matches, Editions
    <3>3. a.etag \notin {0, IfNoneMatch(c)}
      BY <1>2, <2>2, <2>6, <3>1, <3>2
    <3>. QED
      BY <2>3, <2>4, <3>1, <3>3
  <2>. QED
    BY <2>3, <2>4, <2>5, <2>6
<1>5. CASE a \in Redirections
  <2>1. PICK u \in Urls \cup {"none"}, b \in {"empty", "cut"} : a = Answer("redirect", u, b)
    BY <1>5 DEF Redirections
  <2>2. a \in Response /\ a.status = "redirect"
    BY <2>1 DEF Answer, Response, Statuses, AllKinds
  <2>. QED
    BY <2>2
<1>6. CASE a \in RefusalAnswers
  <2>1. PICK t \in Refusals, b \in {"html", "cut"} : a = Answer(t, "none", b)
    BY <1>6 DEF RefusalAnswers
  <2>2. a \in Response /\ a.status \in Refusals
    BY <2>1 DEF Answer, Response, Statuses, AllKinds
  <2>. QED
    BY <2>2
<1>. QED
  BY <1>3, <1>4, <1>5, <1>6 DEF Answers

\* The answer is about the resource asked, as it is now.
LEMMA OpenInv ==
  ASSUME IInv, NEW c \in Clients, Open(c)
  PROVE  IInv'
<1>1. TypeOK /\ AcquisitionInv(c) /\ pc[c] = "open"
  BY DEF IInv, Open
<1>2. PICK a \in Answers(c) : Receive(c, a)
  BY DEF Open
<1> DEFINE p == IF request[c].method = "HEAD" \/ a.status = "not_modified"
                THEN "classify" ELSE "read_check"
<1>3. /\ p \in Asking /\ pc'[c] = p /\ response'[c] = a
      /\ UNCHANGED <<content, cache, request, cancelled, cached, chain>>
  BY <1>1, <1>2, GotoFacts DEF Receive, TypeOK, Asking, origin
<1>4. /\ late'[c] = IF cancelled[c] THEN late[c] + 1 ELSE late[c]
      /\ late' \in [Clients -> Nat] /\ \A d \in Clients : d # c => late'[d] = late[d]
  BY <1>1, <1>2 DEF Receive, Operated, TypeOK
<1>5. TypeOK'
  <2>1. a \in Response
    BY <1>1, AnswerFacts
  <2>2. response' \in [Clients -> Response] /\ chunks' \in [Clients -> 0..MaxChunks]
    BY <1>1, <1>2, <2>1 DEF Receive, TypeOK
  <2>. QED
    BY <1>1, <1>2, <1>3, <1>4, <2>2, GotoFacts DEF Receive, TypeOK, origin, end
<1>6. NotAhead(cached[c])' /\ Chains(c)' /\ Noticed(c)'
  BY <1>1, <1>3, <1>4 DEF AcquisitionInv, NotAhead, Chains, Noticed, Asking, TypeOK
<1>7. Current(c)' = Current(c) /\ IfNoneMatch(c)' = IfNoneMatch(c)
      /\ IfModifiedSince(c)' = IfModifiedSince(c)
  BY <1>3 DEF Current, IfNoneMatch, IfModifiedSince
<1>8. Answered(c)'
  <2>1. a.status = "ok" => /\ a.edition \in 1..content[Key[Current(c)]].edition
                           /\ Labelled(a, Key[Current(c)], a.edition)
    BY <1>1, AnswerFacts
  <2>2. pc'[c] = "classify" /\ a.status = "ok" => Body(c)' # "cut"
    BY <1>3 DEF Body
  <2>. QED
    BY <1>3, <1>7, <2>1, <2>2 DEF Answered
<1>9. Confirmable(c)'
  BY <1>1, <1>3, <1>7, AnswerFacts DEF Confirmable, AcquisitionInv, NotAhead
<1>10. \A d \in Clients : d # c => Same(d)
  BY <1>1, <1>2, <1>3, <1>4, GotoFacts DEF Same, TypeOK, Receive
<1>. QED
  BY <1>3, <1>5, <1>6, <1>8, <1>9, <1>10, GoOnInv DEF AcquisitionInv

LEMMA ReadChunkInv ==
  ASSUME IInv, NEW c \in Clients, ReadChunk(c)
  PROVE  IInv'
<1>1. TypeOK /\ AcquisitionInv(c) /\ pc[c] = "read"
  BY DEF IInv, ReadChunk
<1>2. /\ Goto(c, "read_check") /\ pc'[c] = "read_check"
      /\ UNCHANGED <<content, cache, request, cancelled, cached, chain, response>>
  BY <1>1, GotoFacts DEF ReadChunk, Asking, origin
<1>3. /\ late'[c] = IF cancelled[c] THEN late[c] + 1 ELSE late[c]
      /\ late' \in [Clients -> Nat] /\ \A d \in Clients : d # c => late'[d] = late[d]
  BY <1>1 DEF ReadChunk, Operated, TypeOK
<1>4. TypeOK'
  <2>1. chunks' \in [Clients -> 0..MaxChunks]
    BY <1>1 DEF ReadChunk, TypeOK
  <2>. QED
    BY <1>1, <1>2, <1>3, <2>1, GotoFacts DEF ReadChunk, TypeOK, origin, end, Asking
<1>5. NotAhead(cached[c])' /\ Chains(c)' /\ Noticed(c)'
  BY <1>1, <1>2, <1>3 DEF AcquisitionInv, NotAhead, Chains, Noticed, Asking, TypeOK
<1>6. Answered(c)' /\ Confirmable(c)'
  BY <1>1, <1>2 DEF AcquisitionInv, Answered, Confirmable, Answering, Current, Body,
                    IfNoneMatch, IfModifiedSince
<1>7. \A d \in Clients : d # c => Same(d)
  BY <1>1, <1>2, <1>3, GotoFacts DEF Same, Asking
<1>. QED
  BY <1>2, <1>4, <1>5, <1>6, <1>7, GoOnInv DEF AcquisitionInv

\* Where an operation ends an acquisition, it is the first to end after the
\* cancellation.
LEMMA OperationFailsInv ==
  ASSUME IInv, NEW c \in Clients, NEW code \in Codes, Fail(c, code), Operated(c),
         pc[c] \in {"open", "read"}, UNCHANGED <<origin, now, cache, request, cancelled>>
  PROVE  IInv'
<1>1. TypeOK /\ AcquisitionInv(c) /\ CacheInv
  BY DEF IInv
<1>2. /\ late'[c] = IF cancelled[c] THEN late[c] + 1 ELSE late[c]
      /\ late' \in [Clients -> Nat] /\ \A d \in Clients : d # c => late'[d] = late[d]
  BY <1>1 DEF Operated, TypeOK
<1>3. Finish(c, code, NoResult) /\ NoResult \in Results /\ pc'[c] = "done"
  BY <1>1, ConstantTypes DEF Fail, Finish, TypeOK
<1>4. Noticed(c)'
  BY <1>1, <1>2, <1>3 DEF AcquisitionInv, Noticed
<1>5. CacheInv' /\ cache' \in [CacheKeys -> {NoEntry} \cup Entry]
  BY <1>1 DEF CacheInv, NotAhead, origin, TypeOK
<1>. QED
  BY <1>2, <1>3, <1>4, <1>5, FinishInv

LEMMA ReadEndInv ==
  ASSUME IInv, NEW c \in Clients, ReadEnd(c)
  PROVE  IInv'
<1>1. TypeOK /\ AcquisitionInv(c) /\ pc[c] = "read"
  BY DEF IInv, ReadEnd
<1>2. CASE response[c].kind = "cut"
  BY <1>1, <1>2, OperationFailsInv DEF ReadEnd, Codes
<1>3. CASE response[c].kind # "cut"
  <2>1. /\ Goto(c, "classify") /\ pc'[c] = "classify" /\ UNCHANGED local
        /\ UNCHANGED <<content, cache, request, cancelled, cached, chain, response>>
    BY <1>1, <1>3, GotoFacts DEF ReadEnd, Asking, origin, local
  <2>2. /\ late'[c] = IF cancelled[c] THEN late[c] + 1 ELSE late[c]
        /\ late' \in [Clients -> Nat] /\ \A d \in Clients : d # c => late'[d] = late[d]
    BY <1>1 DEF ReadEnd, Operated, TypeOK
  <2>3. TypeOK'
    BY <1>1, <2>1, <2>2, GotoFacts DEF ReadEnd, TypeOK, origin, local, end, Asking
  <2>4. NotAhead(cached[c])' /\ Chains(c)' /\ Noticed(c)'
    BY <1>1, <2>1, <2>2 DEF AcquisitionInv, NotAhead, Chains, Noticed, Asking, TypeOK
  <2>5. Answered(c)'
    BY <1>1, <1>3, <2>1 DEF AcquisitionInv, Answered, Answering, Current, Body
  <2>6. Confirmable(c)'
    BY <1>1, <2>1 DEF AcquisitionInv, Confirmable, Answering, Current, IfNoneMatch, IfModifiedSince
  <2>7. \A d \in Clients : d # c => Same(d)
    BY <1>1, <2>1, <2>2, GotoFacts DEF Same, Asking
  <2>. QED
    BY <2>1, <2>3, <2>4, <2>5, <2>6, <2>7, GoOnInv DEF AcquisitionInv
<1>. QED
  BY <1>2, <1>3

LEMMA NetworkFaultInv ==
  ASSUME IInv, NEW c \in Clients, NetworkFault(c) \/ NoStatus(c)
  PROVE  IInv'
  BY OperationFailsInv DEF NetworkFault, NoStatus, FaultWith, Interruptible, Codes

\* A redirect is followed to a resource that was not asked yet, and only if
\* the limit allows it.
LEMMA RedirectInv ==
  ASSUME IInv, NEW c \in Clients, Redirect(c)
  PROVE  IInv'
<1> DEFINE target   == response[c].location
           followed == Append(chain[c], target)
<1>1. TypeOK /\ AcquisitionInv(c) /\ pc[c] = "classify"
  BY DEF IInv, Redirect
<1>2. CASE \E code \in {"http_client_error", "ValueError", "redirect_loop", "too_many_redirects"} :
             Fail(c, code)
  BY <1>2, QuietFinishInv, ConstantTypes DEF Redirect, Fail, Codes
<1>3. CASE /\ target # "none" /\ Key[target] \notin Invalid
           /\ Key[target] \notin Visited(c)
           /\ ~(Len(followed) > MaxRedirects)
           /\ chain' = [chain EXCEPT ![c] = followed]
           /\ Goto(c, "check")
           /\ UNCHANGED <<cached, response, chunks>>
  <2>1. target \in Urls /\ Key[target] \in Resources /\ chain[c] \in Seq(Urls)
    BY <1>1, <1>3, KeyFacts DEF TypeOK, Response
  <2>2. /\ chain' \in [Clients -> Seq(Urls)] /\ chain'[c] = followed
        /\ Len(followed) = Len(chain[c]) + 1 /\ Len(followed) <= MaxRedirects
        /\ DOMAIN followed = 1..Len(chain[c]) + 1
        /\ \A i \in 1..Len(chain[c]) : followed[i] = chain[c][i]
        /\ followed[Len(chain[c]) + 1] = target
    BY <1>1, <1>3, <2>1 DEF TypeOK
  <2>3. /\ pc'[c] = "check"
        /\ UNCHANGED <<content, cache, request, cancelled, cached, response, late>>
    BY <1>1, <1>3, GotoFacts DEF Redirect, Asking, origin
  <2>4. TypeOK'
    BY <1>1, <1>3, <2>2, GotoFacts DEF Redirect, TypeOK, origin, end, Asking
  <2>5. Chains(c)'
    <3>1. \A i \in 1..Len(chain[c]) :
            /\ Key[chain[c][i]] \in Resources
            /\ Key[chain[c][i]] # Key[request[c].url]
            /\ Key[chain[c][i]] # Key[target]
            /\ \A j \in 1..Len(chain[c]) : i # j => Key[chain[c][i]] # Key[chain[c][j]]
      BY <1>1, <1>3, <2>1 DEF AcquisitionInv, Chains, Visited
    <3>2. Key[target] # Key[request[c].url]
      BY <1>3 DEF Visited
    <3>3. Key[request[c].url] \in Resources
      BY <1>1 DEF AcquisitionInv, Chains, Asking
    <3>. QED
      BY <2>1, <2>2, <2>3, <3>1, <3>2, <3>3 DEF Chains, Asking
  <2>6. NotAhead(cached[c])' /\ Noticed(c)' /\ Answered(c)' /\ Confirmable(c)'
    BY <1>1, <2>3 DEF AcquisitionInv, NotAhead, Noticed, Answered, Confirmable, Answering
  <2>7. \A d \in Clients : d # c => Same(d)
    BY <1>1, <1>3, <2>3, GotoFacts DEF Same, TypeOK, Asking
  <2>. QED
    BY <2>3, <2>4, <2>5, <2>6, <2>7, GoOnInv DEF AcquisitionInv
<1>. QED
  BY <1>2, <1>3 DEF Redirect, TooMany, InvalidTarget

LEMMA ChainLength ==
  ASSUME TypeOK, NEW c \in Clients
  PROVE  Len(chain[c]) \in Nat
  BY DEF TypeOK

LEMMA RevalidateInv ==
  ASSUME IInv, NEW c \in Clients, Revalidate(c)
  PROVE  IInv'
<1>1. TypeOK
  BY DEF IInv
<1>2. CASE Fail(c, "stale_etag_cache")
  BY <1>2, QuietFinishInv, ConstantTypes DEF Revalidate, Fail, Codes
<1>3. CASE cached[c] # NoEntry /\ Finish(c, "result", CachedResult(cached[c], "revalidated", Len(chain[c])))
  <2>1. CachedResult(cached[c], "revalidated", Len(chain[c])) \in Results
    <3>1. cached[c] \in Entry /\ Len(chain[c]) \in Nat
      BY <1>1, <1>3, ChainLength DEF TypeOK
    <3>. QED
      BY <3>1 DEF CachedResult, Results, Entry, Editions
  <2>. QED
    BY <1>3, <2>1, QuietFinishInv DEF Revalidate, Codes
<1>. QED
  BY <1>2, <1>3 DEF Revalidate, Confirmed

LEMMA RefusedInv ==
  ASSUME IInv, NEW c \in Clients, Refused(c)
  PROVE  IInv'
<1> DEFINE status == response[c].status
<1>1. Refusal(status) \in Codes
  <2>1. CASE status = "forbidden"
    BY <2>1 DEF Refusal, Codes
  <2>2. CASE status = "rate_limited"
    BY <2>2 DEF Refusal, Codes
  <2>3. CASE status = "server_error"
    BY <2>3 DEF Refusal, Codes
  <2>4. CASE status \notin {"forbidden", "rate_limited", "server_error"}
    <3>1. Refusal(status) = "http_client_error"
      BY <2>4 DEF Refusal
    <3>. QED
      BY <3>1 DEF Codes
  <2>. QED
    BY <2>1, <2>2, <2>3, <2>4
<1>2. Finish(c, Refusal(status), NoResult) /\ NoResult \in Results
  BY ConstantTypes DEF Refused, Fail
<1>3. UNCHANGED <<origin, now, cache, request, cancelled, late>>
  BY DEF Refused
<1> HIDE DEF status
<1>. QED
  BY <1>1, <1>2, <1>3, QuietFinishInv

LEMMA BodyRejectedInv ==
  ASSUME IInv, NEW c \in Clients, BodyRejected(c)
  PROVE  IInv'
<1> DEFINE fault == ValidateBody(request[c], Body(c))
<1>1. fault \in Codes \cup {"valid"}
  BY DEF ValidateBody, Codes
<1>2. fault # "valid" /\ Finish(c, fault, NoResult) /\ NoResult \in Results
  BY ConstantTypes DEF BodyRejected, Fail
<1>3. UNCHANGED <<origin, now, cache, request, cancelled, late>>
  BY DEF BodyRejected
<1> HIDE DEF fault
<1>. QED
  BY <1>1, <1>2, <1>3, QuietFinishInv

\* What is stored is what the origin held when it answered.
LEMMA BodyAcceptedFacts ==
  ASSUME IInv, NEW c \in Clients, BodyAccepted(c)
  PROVE  /\ Finish(c, "result", [source |-> "network", url |-> Current(c),
                                 edition |-> response[c].edition, kind |-> Body(c),
                                 redirects |-> Len(chain[c])])
         /\ Current(c) \in Urls /\ Key[Current(c)] \in Resources
         /\ response[c].edition \in Editions
         /\ response[c].edition <= content[Key[Current(c)]].edition
         /\ Labelled(response[c], Key[Current(c)], response[c].edition)
         /\ Body(c) \in AllKinds
         /\ cache' = IF Storable(request[c], response[c])
                     THEN [cache EXCEPT ![<<request[c].method, Key[request[c].url]>>] =
                             [url |-> Current(c), edition |-> response[c].edition, kind |-> Body(c),
                              etag |-> response[c].etag, modified |-> response[c].modified,
                              stored_at |-> now]]
                     ELSE cache
<1>1. TypeOK /\ AcquisitionInv(c) /\ pc[c] = "classify" /\ response[c].status = "ok"
  BY DEF IInv, BodyAccepted
<1>2. Current(c) \in Urls /\ Key[Current(c)] \in Resources
  BY <1>1, CurrentType DEF AcquisitionInv, Asking
<1>3. /\ response[c].edition \in 1..content[Key[Current(c)]].edition /\ Body(c) # "cut"
      /\ Labelled(response[c], Key[Current(c)], response[c].edition)
  BY <1>1 DEF AcquisitionInv, Answered, Answering
<1>4. response[c].edition \in Editions
  BY <1>1, <1>2, <1>3 DEF TypeOK, Editions
<1>5. Body(c) \in AllKinds
  BY <1>1, <1>3 DEF TypeOK, Body, Response, AllKinds
<1>. QED
  BY <1>1, <1>2, <1>3, <1>4, <1>5 DEF BodyAccepted, TypeOK

LEMMA BodyAcceptedInv ==
  ASSUME IInv, NEW c \in Clients, BodyAccepted(c)
  PROVE  IInv'
<1> DEFINE entry == [url |-> Current(c), edition |-> response[c].edition, kind |-> Body(c),
                     etag |-> response[c].etag, modified |-> response[c].modified,
                     stored_at |-> now]
           res   == [source |-> "network", url |-> Current(c),
                     edition |-> response[c].edition, kind |-> Body(c),
                     redirects |-> Len(chain[c])]
<1>1. TypeOK /\ AcquisitionInv(c) /\ CacheInv
  BY DEF IInv
<1>2. /\ Finish(c, "result", res)
      /\ Current(c) \in Urls /\ Key[Current(c)] \in Resources
      /\ response[c].edition \in Editions /\ Body(c) \in AllKinds
      /\ response[c].edition <= content[Key[Current(c)]].edition
      /\ Labelled(response[c], Key[Current(c)], response[c].edition)
      /\ cache' = IF Storable(request[c], response[c])
                  THEN [cache EXCEPT ![<<request[c].method, Key[request[c].url]>>] = entry]
                  ELSE cache
  BY BodyAcceptedFacts
<1>3. res \in Results
  BY <1>1, <1>2, ChainLength DEF Results, Editions
<1>4. entry \in Entry /\ NotAhead(entry)
  <2>1. now \in Nat /\ response[c].etag \in Nat /\ response[c].modified \in Nat
    BY <1>1 DEF TypeOK, Response
  <2>2. Labelled(entry, Key[entry.url], entry.edition)
    BY <1>2 DEF Labelled
  <2>3. entry \in Entry
    BY <1>2, <2>1 DEF Entry
  <2>. QED
    BY <1>2, <2>2, <2>3 DEF NotAhead
<1>5. /\ cache' \in [CacheKeys -> {NoEntry} \cup Entry]
      /\ \A k \in CacheKeys : cache'[k] = cache[k] \/ cache'[k] = entry
  <2> HIDE DEF entry
  <2>1. cache \in [CacheKeys -> {NoEntry} \cup Entry]
    BY <1>1 DEF TypeOK
  <2>. QED
    BY <1>2, <1>4, <2>1
<1>6. CacheInv'
  BY <1>1, <1>4, <1>5 DEF CacheInv, NotAhead, BodyAccepted, origin
<1>7. pc'[c] = "done"
  BY <1>1, <1>2 DEF Finish, TypeOK
<1>8. late' \in [Clients -> Nat] /\ \A d \in Clients : d # c => late'[d] = late[d]
  BY <1>1 DEF BodyAccepted, TypeOK
<1>9. Noticed(c)'
  BY <1>1, <1>7 DEF AcquisitionInv, Noticed, BodyAccepted
<1>10. UNCHANGED <<origin, now, request, cancelled>> /\ "result" \in Codes
  BY DEF BodyAccepted, Codes
<1> HIDE DEF entry, res
<1>. QED
  BY <1>2, <1>3, <1>5, <1>6, <1>8, <1>9, <1>10, FinishInv

LEMMA NextInv == IInv /\ [Next]_vars => IInv'
<1> SUFFICES ASSUME IInv, [Next]_vars PROVE IInv'
  OBVIOUS
<1>1. CASE \E c \in Clients : Begin(c) \/ Cancel(c)
  BY <1>1, BeginInv, CancelInv
<1>2. CASE \E c \in Clients : Local(c)
  BY <1>2, StartInv, LookupInv, CheckInv, RedirectInv, RevalidateInv, RefusedInv,
     BodyRejectedInv, BodyAcceptedInv DEF Local
<1>3. CASE \E c \in Clients : \/ Open(c) \/ ReadChunk(c) \/ ReadEnd(c) \/ NetworkFault(c)
                              \/ NoStatus(c)
  BY <1>3, OpenInv, ReadChunkInv, ReadEndInv, NetworkFaultInv
<1>4. CASE \E k \in Resources : Publish(k)
  BY <1>4, PublishInv
<1>5. CASE \E k \in CacheKeys : Evict(k)
  BY <1>5, EvictInv
<1>6. CASE Tick
  BY <1>6, TickInv
<1>7. CASE UNCHANGED vars
  <2>1. TypeOK /\ CacheInv /\ \A c \in Clients : AcquisitionInv(c)
    BY DEF IInv
  <2>2. TypeOK'
    BY <1>7, <2>1 DEF vars, TypeOK, origin, local, end
  <2>3. CacheInv'
    BY <1>7, <2>1 DEF vars, CacheInv, NotAhead, origin
  <2>4. \A c \in Clients : AcquisitionInv(c)'
    BY <1>7, <2>1, Framed DEF vars, Same, origin, local
  <2>. QED
    BY <2>2, <2>3, <2>4 DEF IInv
<1>. QED
  BY <1>1, <1>2, <1>3, <1>4, <1>5, <1>6, <1>7 DEF Next, Acquire
-----------------------------------------------------------------------------
(* The theorems.                                                           *)

\* The invariant that carries the other theorems holds for any number of
\* acquisitions that share the cache.
THEOREM HttpInvariant == Spec => []IInv
  BY InitInv, NextInv, PTL DEF Spec

\* Every variable keeps its type.
THEOREM HttpTypes == Spec => []TypeOK
<1>1. IInv => TypeOK
  BY DEF IInv
<1>. QED
  BY <1>1, HttpInvariant, PTL

\* No acquisition asks for a resource twice or sends more than
\* max_redirects + 1 requests, however the origin redirects it.
THEOREM RedirectsAreBounded == Spec => []RedirectsBounded
<1>1. IInv => RedirectsBounded
  <2> SUFFICES ASSUME IInv, NEW c \in Clients, pc[c] = "open"
               PROVE  LET asked == <<request[c].url>> \o chain[c]
                      IN  /\ Len(asked) <= MaxRedirects + 1
                          /\ \A i, j \in DOMAIN asked : Key[asked[i]] = Key[asked[j]] => i = j
    BY DEF RedirectsBounded
  <2> DEFINE asked == <<request[c].url>> \o chain[c]
  <2>1. chain[c] \in Seq(Urls) /\ Chains(c)
    BY DEF IInv, TypeOK, AcquisitionInv
  <2>2. /\ Len(asked) = Len(chain[c]) + 1 /\ DOMAIN asked = 1..Len(chain[c]) + 1
        /\ asked[1] = request[c].url
        /\ \A i \in 2..Len(chain[c]) + 1 : asked[i] = chain[c][i - 1]
    BY <2>1
  <2>3. \A i, j \in DOMAIN asked : i # j => Key[asked[i]] # Key[asked[j]]
    <3> SUFFICES ASSUME NEW i \in DOMAIN asked, NEW j \in DOMAIN asked, i # j
                 PROVE  Key[asked[i]] # Key[asked[j]]
      OBVIOUS
    <3>1. CASE i = 1
      BY <2>1, <2>2, <3>1 DEF Chains
    <3>2. CASE j = 1
      BY <2>1, <2>2, <3>2 DEF Chains
    <3>3. CASE i # 1 /\ j # 1
      <4>1. i - 1 \in DOMAIN chain[c] /\ j - 1 \in DOMAIN chain[c] /\ i - 1 # j - 1
        BY <2>1, <2>2, <3>3
      <4>. QED
        BY <2>1, <2>2, <3>3, <4>1 DEF Chains
    <3>. QED
      BY <3>1, <3>2, <3>3
  <2>. QED
    BY <2>1, <2>2, <2>3 DEF Chains
<1>. QED
  BY <1>1, HttpInvariant, PTL

\* At most one network operation of an acquisition ends after its cancellation.
THEOREM CancellationStops == Spec => []CancelStops
<1>1. IInv => CancelStops
  BY DEF IInv, AcquisitionInv, Noticed, CancelStops
<1>. QED
  BY <1>1, HttpInvariant, PTL

\* Nothing but complete and acceptable bodies is ever cached.
THEOREM OnlyValidatedIsCached == Spec => []OnlyValidatedCached
<1>1. Init => OnlyValidatedCached
  BY DEF Init, OnlyValidatedCached
<1>2. IInv /\ OnlyValidatedCached /\ [Next]_vars => OnlyValidatedCached'
  <2> SUFFICES ASSUME IInv, OnlyValidatedCached, [Next]_vars PROVE OnlyValidatedCached'
    OBVIOUS
  <2>1. CASE UNCHANGED cache
    BY <2>1 DEF OnlyValidatedCached
  <2>2. ASSUME NEW k \in CacheKeys, Evict(k) PROVE OnlyValidatedCached'
    <3>1. \A j \in CacheKeys : cache'[j] = cache[j] \/ cache'[j] = NoEntry
      BY <2>2 DEF Evict, IInv, TypeOK
    <3>. QED
      BY <3>1 DEF OnlyValidatedCached
  <2>3. ASSUME NEW c \in Clients, BodyAccepted(c) PROVE OnlyValidatedCached'
    <3> DEFINE key   == <<request[c].method, Key[request[c].url]>>
               entry == [url |-> Current(c), edition |-> response[c].edition, kind |-> Body(c),
                         etag |-> response[c].etag, modified |-> response[c].modified,
                         stored_at |-> now]
    <3>1. CASE ~Storable(request[c], response[c])
      BY <2>1, <2>3, <3>1, BodyAcceptedFacts
    <3>2. CASE Storable(request[c], response[c])
      <4>1. request[c] \in Requests /\ cache \in [CacheKeys -> {NoEntry} \cup Entry]
        BY DEF IInv, TypeOK
      <4>2. /\ request[c].method = "GET" /\ request[c].use_cache /\ HasValidators(entry)
        BY <3>2 DEF Storable, HasValidators
      <4>3. Acceptable(request[c], entry.kind)
        <5>1. ValidateBody(request[c], Body(c)) = "valid" /\ Body(c) # "cut"
          BY <2>3, BodyAcceptedFacts DEF BodyAccepted, AllKinds
        <5>. QED
          BY <4>2, <5>1 DEF ValidateBody, Acceptable
      <4>4. \A j \in CacheKeys : cache'[j] = IF j = key THEN entry ELSE cache[j]
        BY <2>3, <3>2, <4>1, BodyAcceptedFacts
      <4>. QED
        BY <4>1, <4>2, <4>3, <4>4 DEF OnlyValidatedCached
    <3>. QED
      BY <3>1, <3>2
  <2>. QED
    BY <2>1, <2>2, <2>3 DEF Next, Acquire, Local, Begin, BeginWith, Cancel, Start, Lookup, Check,
       Open, Receive, ReadChunk, ReadEnd, NetworkFault, NoStatus, FaultWith, Redirect, Revalidate, Refused, BodyRejected, Publish,
       Tick, vars
<1>. QED
  BY <1>1, <1>2, HttpInvariant, PTL DEF Spec

\* What a step does to what an acquisition has delivered, and where.
LEMMA DeliveredSteps ==
  ASSUME TypeOK, Next, NEW c \in Clients
  PROVE  \/ UNCHANGED <<pc[c], delivered[c]>>
         \/ Busy(c) /\ delivered'[c] = delivered[c]
         \/ delivered'[c].source # "revalidated" /\ (~Busy(c)' \/ delivered'[c] = NoResult)
         \/ Revalidate(c) /\ ~Busy(c)'
<1> DEFINE Shape == \/ UNCHANGED <<pc[c], delivered[c]>>
                    \/ Busy(c) /\ delivered'[c] = delivered[c]
                    \/ delivered'[c].source # "revalidated" /\ (~Busy(c)' \/ delivered'[c] = NoResult)
                    \/ Revalidate(c) /\ ~Busy(c)'
<1>1. CASE UNCHANGED <<pc, delivered>>
  BY <1>1
<1>2. ASSUME NEW d \in Clients, Begin(d) PROVE Shape
  BY <1>2 DEF Begin, BeginWith, TypeOK, NoResult
<1>3. ASSUME NEW d \in Clients, NEW p, Goto(d, p), Busy(d) PROVE Shape
  BY <1>3 DEF Goto, end, TypeOK
<1>4. ASSUME NEW d \in Clients, NEW code, NEW res, Finish(d, code, res),
             res.source # "revalidated" PROVE Shape
  BY <1>4 DEF Finish, Busy, TypeOK
<1>5. ASSUME NEW d \in Clients, NEW code, Fail(d, code) PROVE Shape
  BY <1>4, <1>5 DEF Fail, NoResult
<1>6. ASSUME NEW d \in Clients, Start(d) PROVE Shape
  BY <1>3, <1>5, <1>6 DEF Start, Busy
<1>7. ASSUME NEW d \in Clients, Lookup(d) PROVE Shape
  <2> DEFINE entry == IF request[d].use_cache THEN cache[<<request[d].method, Key[request[d].url]>>]
                                              ELSE NoEntry
  <2>1. CASE Goto(d, "check")
    BY <1>3, <1>7, <2>1 DEF Lookup, Busy
  <2>2. CASE Finish(d, "result", CachedResult(entry, "fresh", 0))
    <3>1. CachedResult(entry, "fresh", 0).source # "revalidated"
      BY DEF CachedResult
    <3>. QED
      BY <1>4, <2>2, <3>1
  <2>. QED
    BY <1>7, <2>1, <2>2 DEF Lookup
<1>8. ASSUME NEW d \in Clients, Check(d) PROVE Shape
  BY <1>3, <1>5, <1>8 DEF Check, Busy
<1>9. ASSUME NEW d \in Clients, Open(d) PROVE Shape
  BY <1>3, <1>9 DEF Open, Receive, Busy
<1>10. ASSUME NEW d \in Clients, ReadChunk(d) \/ ReadEnd(d) \/ NetworkFault(d) \/ NoStatus(d)
       PROVE Shape
  BY <1>3, <1>5, <1>10 DEF ReadChunk, ReadEnd, NetworkFault, NoStatus, FaultWith, Busy
<1>11. ASSUME NEW d \in Clients, Redirect(d) PROVE Shape
  BY <1>3, <1>5, <1>11 DEF Redirect, Busy
<1>12. ASSUME NEW d \in Clients, Revalidate(d) PROVE Shape
  BY <1>12 DEF Revalidate, Fail, Finish, Busy, TypeOK
<1>13. ASSUME NEW d \in Clients, Refused(d) \/ BodyRejected(d) PROVE Shape
  BY <1>5, <1>13 DEF Refused, BodyRejected
<1>14. ASSUME NEW d \in Clients, BodyAccepted(d) PROVE Shape
  <2> DEFINE res == [source |-> "network", url |-> Current(d),
                     edition |-> response[d].edition, kind |-> Body(d),
                     redirects |-> Len(chain[d])]
  <2>1. Finish(d, "result", res)
    BY <1>14 DEF BodyAccepted
  <2>. QED
    BY <1>4, <2>1
<1>15. ASSUME NEW d \in Clients, Acquire(d) PROVE Shape
  <2> HIDE DEF Shape
  <2>. QED
    BY <1>6, <1>7, <1>8, <1>9, <1>10, <1>11, <1>12, <1>13, <1>14, <1>15 DEF Acquire, Local
<1>16. CASE \/ \E d \in Clients : Cancel(d)
            \/ \E k \in Resources : Publish(k)
            \/ \E k \in CacheKeys : Evict(k)
            \/ Tick
  <2>1. UNCHANGED <<pc, delivered>>
    BY <1>16 DEF Cancel, Publish, Evict, Tick, end
  <2>. QED
    BY <1>1, <2>1
<1>17. CASE \E d \in Clients : Begin(d) \/ Acquire(d)
  <2>1. PICK d \in Clients : Begin(d) \/ Acquire(d)
    BY <1>17
  <2>2. CASE Begin(d)
    BY <1>2, <2>2
  <2>3. CASE Acquire(d)
    BY <1>15, <2>3
  <2>. QED
    BY <2>1, <2>2, <2>3
<1>. QED
  BY <1>16, <1>17 DEF Next

\* An acquisition under way has delivered nothing yet.
LEMMA UndeliveredInvariant == Spec => []Undelivered
<1>1. Init => Undelivered
  BY DEF Init, Undelivered
<1>2. IInv /\ Undelivered /\ [Next]_vars => Undelivered'
  <2> SUFFICES ASSUME IInv, Undelivered, [Next]_vars, NEW c \in Clients, Busy(c)'
               PROVE  delivered'[c] = NoResult
    BY DEF Undelivered
  <2>1. CASE UNCHANGED vars
    BY <2>1 DEF Undelivered, Busy, vars, end
  <2>2. CASE Next
    BY <2>2, DeliveredSteps DEF IInv, Undelivered, Busy
  <2>. QED
    BY <2>1, <2>2
<1>. QED
  BY <1>1, <1>2, HttpInvariant, PTL DEF Spec

\* The entry a 304 confirms: the resource has its validator, and so its bytes
\* or bytes HTTP cannot tell from them.
LEMMA ConfirmedIsCurrent ==
  ASSUME IInv, NEW c \in Clients, Revalidate(c), delivered'[c].source = "revalidated",
         request[c].own = [etag |-> 0, modified |-> 0]
  PROVE  \/ /\ Key[delivered'[c].url] = Key[Current(c)]
            /\ delivered'[c].edition = response[c].edition
         \/ /\ delivered'[c].edition = cached[c].edition
            /\ Coincides(cached[c], Key[Current(c)], response[c].edition)
<1> DEFINE entry == cached[c]
           k == Key[Current(c)]
           e == response[c].edition
           j == Key[entry.url]
           d == entry.edition
<1>1. /\ TypeOK /\ Confirmable(c) /\ NotAhead(entry) /\ Chains(c)
      /\ pc[c] = "classify" /\ response[c].status = "not_modified"
  BY DEF IInv, AcquisitionInv, Revalidate
<1>2. /\ entry # NoEntry /\ ~Conflicts(entry, response[c])
      /\ Finish(c, "result", CachedResult(entry, "revalidated", Len(chain[c])))
  BY <1>1 DEF Revalidate, Fail, Finish, Confirmed, NoResult, TypeOK
<1>3. entry \in Entry /\ request[c].own.etag = 0 /\ request[c].own.modified = 0
  BY <1>1, <1>2 DEF TypeOK
<1>4. delivered'[c].edition = d /\ delivered'[c].url = entry.url
  BY <1>1, <1>2 DEF Finish, CachedResult, TypeOK
<1>5. IfNoneMatch(c) = entry.etag /\ IfModifiedSince(c) = entry.modified
  BY <1>2, <1>3 DEF IfNoneMatch, IfModifiedSince
<1>6. /\ e \in Editions
      /\ \/ entry.etag # 0 /\ entry.etag = TagOf(k, e)
         \/ entry.etag = 0 /\ entry.modified >= DateOf(k, e)
      /\ j = k => d <= e
  BY <1>1, <1>2, <1>5 DEF Confirmable, Answering, Conflicts
<1>7. d \in Editions /\ j \in Resources /\ k \in Resources
  BY <1>1, <1>2, <1>3, CurrentType DEF NotAhead, Entry, Asking
<1>8. entry.etag \in {0, TagOf(j, d)} /\ entry.modified \in {0, DateOf(j, d)}
  BY <1>1, <1>2 DEF NotAhead, Labelled
<1>9. IF entry.etag # 0 THEN TagOf(j, d) = TagOf(k, e) ELSE DateOf(j, d) >= DateOf(k, e)
  <2>1. CASE entry.etag # 0
    BY <1>6, <1>8, <2>1
  <2>2. CASE entry.etag = 0
    <3>1. DateOf(k, e) \in Nat \ {0} /\ entry.modified >= DateOf(k, e)
      BY <1>6, <1>7, <2>2, ValidatorTypes DEF Editions
    <3>2. entry.modified = DateOf(j, d)
      BY <1>8, <3>1
    <3>. QED
      BY <2>2, <3>1, <3>2
  <2>. QED
    BY <2>1, <2>2
<1>10. CASE j = k /\ d = e
  BY <1>4, <1>10
<1>11. CASE j # k \/ d < e
  BY <1>4, <1>9, <1>11 DEF Coincides
<1>12. j = k => d = e \/ d < e
  BY <1>6, <1>7 DEF Editions
<1>. QED
  BY <1>10, <1>11, <1>12

\* A result served after a 304 is what the resource held when it answered, or
\* has a validator the resource cannot be told by, for any number of
\* acquisitions, editions and redirects and for whatever ETags and dates.
THEOREM RevalidatedStaysCurrent == Spec => RevalidatedIsCurrent
<1> DEFINE A == \A c \in Clients : pc[c] = "classify" /\ delivered'[c].source = "revalidated" =>
                  \/ request[c].own # [etag |-> 0, modified |-> 0]
                  \/ /\ Key[delivered'[c].url] = Key[Current(c)]
                     /\ delivered'[c].edition = response[c].edition
                  \/ /\ delivered'[c].edition = cached[c].edition
                     /\ Coincides(cached[c], Key[Current(c)], response[c].edition)
<1>1. IInv /\ Undelivered /\ [Next]_vars => [A]_vars
  <2> SUFFICES ASSUME IInv, Undelivered, Next, NEW c \in Clients,
                      pc[c] = "classify", delivered'[c].source = "revalidated",
                      request[c].own = [etag |-> 0, modified |-> 0]
               PROVE  \/ /\ Key[delivered'[c].url] = Key[Current(c)]
                         /\ delivered'[c].edition = response[c].edition
                      \/ /\ delivered'[c].edition = cached[c].edition
                         /\ Coincides(cached[c], Key[Current(c)], response[c].edition)
    OBVIOUS
  <2>1. delivered'[c] # delivered[c]
    BY DEF Undelivered, Busy, NoResult
  <2>2. Revalidate(c)
    BY <2>1, DeliveredSteps DEF IInv, NoResult
  <2>. QED
    BY <2>2, ConfirmedIsCurrent
<1>. QED
  BY <1>1, HttpInvariant, UndeliveredInvariant, PTL DEF Spec, RevalidatedIsCurrent
-----------------------------------------------------------------------------
(* How long an acquisition can take.                                       *)

LEMMA Products ==
  /\ \A n, k \in Nat : n * k \in Nat
  /\ \A n, k \in Int : (n - 1) * k = n * k - k
  OBVIOUS

\* What is left for redirects still to follow.
RedirectSteps(c) == (MaxRedirects - Len(chain[c])) * StepsPerRequest

LEMMA StepTypes ==
  ASSUME IInv, NEW c \in Clients, Busy(c)
  PROVE  /\ RedirectSteps(c) \in Nat /\ StepsToNextAnswer(c) \in Nat \ {0}
         /\ StepsPerRequest \in Nat
         /\ StepsLeft(c) = StepsToNextAnswer(c) + RedirectSteps(c)
<1>1. TypeOK /\ Chains(c)
  BY DEF IInv, AcquisitionInv
<1>2. StepsPerRequest \in Nat
  BY DEF StepsPerRequest
<1>3. chain[c] \in Seq(Urls) /\ chunks[c] \in 0..MaxChunks
  BY <1>1 DEF TypeOK
<1>4. MaxRedirects - Len(chain[c]) \in Nat
  BY <1>1, <1>3 DEF Chains
<1>5. RedirectSteps(c) \in Nat
  BY <1>2, <1>4, Products DEF RedirectSteps
<1>6. pc[c] \in Asking \cup {"start", "lookup"}
  BY <1>1 DEF TypeOK, Busy, Asking
<1>7. StepsToNextAnswer(c) \in Nat \ {0}
  <2>1. CASE pc[c] = "read"
    <3>1. StepsToNextAnswer(c) = 2 * (MaxChunks - chunks[c]) + 2
      BY <2>1 DEF StepsToNextAnswer
    <3>2. MaxChunks - chunks[c] \in Nat
      BY <1>3
    <3>. QED
      BY <3>1, <3>2
  <2>2. CASE pc[c] = "read_check"
    <3>1. StepsToNextAnswer(c) = 2 * (MaxChunks - chunks[c]) + 3
      BY <2>2 DEF StepsToNextAnswer
    <3>2. MaxChunks - chunks[c] \in Nat
      BY <1>3
    <3>. QED
      BY <3>1, <3>2
  <2>3. CASE pc[c] \in {"start", "lookup", "check", "open", "classify"}
    BY <2>3 DEF StepsToNextAnswer, StepsPerRequest
  <2>. QED
    BY <1>6, <2>1, <2>2, <2>3 DEF Asking
<1>. QED
  BY <1>2, <1>5, <1>7 DEF StepsLeft, RedirectSteps

\* An acquisition that ends, goes on with the same request, or is where it was.
LEMMA EndingCounts ==
  ASSUME IInv, NEW c \in Clients, Busy(c), pc'[c] = "done"
  PROVE  StepsLeft(c)' \in 0..StepsLeft(c) - 1
<1>1. StepsLeft(c)' = 0
  BY DEF StepsLeft, Busy
<1>. QED
  BY <1>1, StepTypes

LEMMA GoingOnCounts ==
  ASSUME IInv, NEW c \in Clients, Busy(c), Busy(c)', chain'[c] = chain[c],
         StepsToNextAnswer(c)' \in 0..StepsToNextAnswer(c) - 1
  PROVE  StepsLeft(c)' \in 0..StepsLeft(c) - 1
<1>1. StepsLeft(c)' = StepsToNextAnswer(c)' + RedirectSteps(c)
  BY DEF StepsLeft, RedirectSteps, StepsPerRequest
<1>. QED
  BY <1>1, StepTypes

LEMMA StandingCostsNothing ==
  ASSUME NEW c \in Clients, pc'[c] = pc[c], chain'[c] = chain[c], chunks'[c] = chunks[c]
  PROVE  StepsLeft(c)' = StepsLeft(c)
  BY DEF StepsLeft, Busy, StepsToNextAnswer, StepsPerRequest

\* An acquisition that goes on at p.
LEMMA GotoCounts ==
  ASSUME IInv, NEW c \in Clients, Busy(c), NEW p \in Asking \cup {"lookup"}, Goto(c, p),
         chain'[c] = chain[c], chunks'[c] \in 0..MaxChunks,
         \/ pc[c] = "start" /\ p = "lookup"
         \/ pc[c] = "lookup" /\ p = "check"
         \/ pc[c] = "check" /\ p = "open"
         \/ pc[c] = "open" /\ p \in {"read_check", "classify"}
         \/ pc[c] = "read_check" /\ p = "read" /\ chunks'[c] = chunks[c]
         \/ pc[c] = "read" /\ p = "read_check" /\ chunks'[c] = chunks[c] + 1
         \/ pc[c] = "read" /\ p = "classify"
  PROVE  StepsLeft(c)' \in 0..StepsLeft(c) - 1
<1>1. pc'[c] = p /\ chunks[c] \in 0..MaxChunks
  BY GotoFacts DEF IInv, TypeOK
<1>2. Busy(c)'
  BY <1>1 DEF Busy, Asking
<1>3. StepsToNextAnswer(c)' \in 0..StepsToNextAnswer(c) - 1
  BY <1>1 DEF StepsToNextAnswer, StepsPerRequest
<1>. QED
  BY <1>2, <1>3, GoingOnCounts

LEMMA RedirectCounts ==
  ASSUME IInv, IInv', NEW c \in Clients, Redirect(c)
  PROVE  StepsLeft(c)' \in 0..StepsLeft(c) - 1
<1> DEFINE followed == Append(chain[c], response[c].location)
<1>1. TypeOK /\ pc[c] = "classify" /\ Busy(c)
  BY DEF IInv, Redirect, Busy
<1>2. CASE pc'[c] = "done"
  BY <1>1, <1>2, EndingCounts
<1>3. CASE pc'[c] # "done"
  <2>1. Goto(c, "check") /\ chain' = [chain EXCEPT ![c] = followed]
        /\ response[c].location # "none"
    BY <1>1, <1>3 DEF Redirect, Fail, Finish, TypeOK
  <2>2. pc'[c] = "check" /\ chain[c] \in Seq(Urls) /\ response[c].location \in Urls
        /\ chain'[c] = followed
    BY <1>1, <2>1, GotoFacts DEF TypeOK, Asking, Response
  <2>3. Len(chain'[c]) = Len(chain[c]) + 1 /\ Len(chain[c]) \in Nat
    BY <2>2
  <2>4. RedirectSteps(c)' = RedirectSteps(c) - StepsPerRequest
    <3> DEFINE n == MaxRedirects - Len(chain[c])
    <3>1. n \in Int /\ MaxRedirects - Len(chain'[c]) = n - 1 /\ StepsPerRequest \in Int
      BY <2>3 DEF StepsPerRequest
    <3>2. RedirectSteps(c)' = (n - 1) * StepsPerRequest /\ RedirectSteps(c) = n * StepsPerRequest
      BY <3>1 DEF RedirectSteps, StepsPerRequest
    <3> HIDE DEF n
    <3>. QED
      BY <3>1, <3>2, Products
  <2>5. Busy(c)' /\ StepsToNextAnswer(c)' = StepsPerRequest /\ StepsToNextAnswer(c) = 1
    BY <1>1, <2>2 DEF Busy, StepsToNextAnswer, StepsPerRequest
  <2>6. StepsLeft(c)' = StepsPerRequest + RedirectSteps(c)'
    BY <2>5 DEF StepsLeft, RedirectSteps, StepsPerRequest
  <2>7. RedirectSteps(c)' \in Nat
    <3>1. Len(chain'[c]) <= MaxRedirects
      BY DEF IInv, AcquisitionInv, Chains
    <3>2. MaxRedirects - Len(chain'[c]) \in Nat /\ StepsPerRequest \in Nat
      BY <2>3, <3>1 DEF StepsPerRequest
    <3>. QED
      BY <3>2, Products DEF RedirectSteps, StepsPerRequest
  <2>. QED
    BY <1>1, <2>4, <2>5, <2>6, <2>7, StepTypes
<1>. QED
  BY <1>2, <1>3

\* Every step of acquire() counts.
LEMMA AcquireCounts ==
  ASSUME IInv, IInv', NEW c \in Clients, Acquire(c)
  PROVE  StepsLeft(c)' \in 0..StepsLeft(c) - 1
<1> DEFINE Fewer == StepsLeft(c)' \in 0..StepsLeft(c) - 1
<1>1. TypeOK
  BY DEF IInv
<1>2. Busy(c) /\ chunks[c] \in 0..MaxChunks /\ chunks'[c] \in 0..MaxChunks
  BY <1>1 DEF Acquire, Local, Start, Lookup, Check, Open, ReadChunk, ReadEnd, NetworkFault, NoStatus, FaultWith,
     Interruptible, Redirect, Revalidate, Refused, BodyRejected, BodyAccepted, Busy, TypeOK, IInv
<1>3. ASSUME NEW code, NEW res, Finish(c, code, res) PROVE Fewer
  BY <1>1, <1>2, <1>3, EndingCounts DEF Finish, TypeOK
<1>4. ASSUME NEW code, Fail(c, code) PROVE Fewer
  BY <1>3, <1>4 DEF Fail
<1>5. CASE Start(c)
  <2>1. CASE Goto(c, "lookup") /\ UNCHANGED local
    BY <1>2, <1>5, <2>1, GotoCounts DEF Start, local
  <2>. QED
    BY <1>4, <1>5, <2>1 DEF Start
<1>6. CASE Lookup(c)
  <2>1. CASE Goto(c, "check") /\ UNCHANGED chain
    BY <1>2, <1>6, <2>1, GotoCounts DEF Lookup, Asking
  <2>. QED
    BY <1>3, <1>6, <2>1 DEF Lookup
<1>7. CASE Check(c)
  <2>1. CASE pc[c] = "check" /\ Goto(c, "open") /\ UNCHANGED local
    BY <1>2, <2>1, GotoCounts DEF local, Asking
  <2>2. CASE pc[c] = "read_check" /\ Goto(c, "read") /\ UNCHANGED local
    BY <1>2, <2>2, GotoCounts DEF local, Asking
  <2>. QED
    BY <1>4, <1>7, <2>1, <2>2 DEF Check
<1>8. CASE Open(c)
  <2>1. PICK p \in {"classify", "read_check"} : Goto(c, p)
    BY <1>8 DEF Open, Receive
  <2>2. chain'[c] = chain[c] /\ pc[c] = "open"
    BY <1>8 DEF Open, Receive
  <2>. QED
    BY <1>2, <2>1, <2>2, GotoCounts DEF Asking
<1>9. CASE ReadChunk(c)
  <2>1. chunks'[c] = chunks[c] + 1 /\ chain'[c] = chain[c] /\ pc[c] = "read" /\ Goto(c, "read_check")
    BY <1>1, <1>9 DEF ReadChunk, TypeOK
  <2>. QED
    BY <1>2, <2>1, GotoCounts DEF Asking
<1>10. CASE ReadEnd(c)
  <2>1. CASE Goto(c, "classify") /\ UNCHANGED local
    BY <1>2, <1>10, <2>1, GotoCounts DEF ReadEnd, local, Asking
  <2>. QED
    BY <1>4, <1>10, <2>1 DEF ReadEnd
<1>11. CASE NetworkFault(c) \/ NoStatus(c)
  BY <1>4, <1>11 DEF NetworkFault, NoStatus, FaultWith
<1>12. CASE Redirect(c)
  BY <1>12, RedirectCounts
<1>13. CASE Revalidate(c) \/ Refused(c) \/ BodyRejected(c) \/ BodyAccepted(c)
  BY <1>3, <1>4, <1>13 DEF Revalidate, Refused, BodyRejected, BodyAccepted
<1>. QED
  BY <1>5, <1>6, <1>7, <1>8, <1>9, <1>10, <1>11, <1>12, <1>13 DEF Acquire, Local

\* What a step of another acquisition leaves as it is.
LEMMA AcquireFrames ==
  ASSUME TypeOK, NEW c \in Clients, NEW d \in Clients, c # d, Acquire(d) \/ Begin(d)
  PROVE  pc'[c] = pc[c] /\ chain'[c] = chain[c] /\ chunks'[c] = chunks[c]
<1>1. CASE Start(d) \/ Lookup(d) \/ Check(d) \/ Open(d) \/ ReadChunk(d) \/ ReadEnd(d)
  BY <1>1 DEF Start, Lookup, Check, Open, Receive, ReadChunk, ReadEnd, Goto, Fail, Finish,
              ClearLocals, local, TypeOK
<1>2. CASE NetworkFault(d) \/ NoStatus(d) \/ Redirect(d) \/ Revalidate(d) \/ Refused(d)
  BY <1>2 DEF NetworkFault, NoStatus, FaultWith, Redirect, Revalidate, Refused, Goto, Fail, Finish,
              ClearLocals, TypeOK
<1>3. CASE BodyRejected(d) \/ BodyAccepted(d)
  BY <1>3 DEF BodyRejected, BodyAccepted, Fail, Finish, ClearLocals, TypeOK
<1>4. CASE Begin(d)
  BY <1>4 DEF Begin, BeginWith, local, TypeOK
<1>. QED
  BY <1>1, <1>2, <1>3, <1>4 DEF Acquire, Local

\* The bound on redirects and the length of the bodies bound the steps of an
\* acquisition, whatever else happens: each of its own leaves at least one
\* fewer, none below zero, and no other step changes how many there are.
THEOREM AcquisitionsRunOut == Spec => StepsRunOut
<1> DEFINE A == \A c \in Clients : Busy(c) =>
                  \/ pc'[c] = pc[c] /\ StepsLeft(c)' = StepsLeft(c)
                  \/ StepsLeft(c)' \in 0..StepsLeft(c) - 1
<1>1. IInv /\ IInv' /\ [Next]_vars => [A]_vars
  <2> SUFFICES ASSUME IInv, IInv', Next, NEW c \in Clients, Busy(c)
               PROVE  \/ pc'[c] = pc[c] /\ StepsLeft(c)' = StepsLeft(c)
                      \/ StepsLeft(c)' \in 0..StepsLeft(c) - 1
    OBVIOUS
  <2>1. ASSUME NEW d \in Clients, Begin(d) \/ Acquire(d), d # c
        PROVE  pc'[c] = pc[c] /\ StepsLeft(c)' = StepsLeft(c)
    BY <2>1, AcquireFrames, StandingCostsNothing DEF IInv
  <2>2. CASE Begin(c)
    BY <2>2 DEF Begin, BeginWith
  <2>3. CASE Acquire(c)
    BY <2>3, AcquireCounts
  <2>4. CASE \/ \E d \in Clients : Cancel(d)
             \/ \E k \in Resources : Publish(k)
             \/ \E k \in CacheKeys : Evict(k)
             \/ Tick
    <3>1. UNCHANGED <<pc, chain, chunks>>
      BY <2>4 DEF Cancel, Publish, Evict, Tick, local
    <3>. QED
      BY <3>1, StandingCostsNothing
  <2>. QED
    BY <2>1, <2>2, <2>3, <2>4 DEF Next
<1>. QED
  BY <1>1, HttpInvariant, PTL DEF Spec, StepsRunOut
=============================================================================
