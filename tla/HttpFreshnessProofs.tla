-------------------------- MODULE HttpFreshnessProofs --------------------------
(***************************************************************************)
(* For any number of acquisitions that share the cache, in any order: none *)
(* returns what was outdated before it began.                              *)
(***************************************************************************)
EXTENDS HttpFreshness, HttpProofs

\* Where acquisition c stays out of a step, goes on in it, begins or ends.
Stays(c) == UNCHANGED <<pc[c], request[c], chain[c], response[c], outcome[c], delivered[c]>>

GoesOn(c) ==
  /\ Busy(c) /\ Busy(c)' /\ UNCHANGED <<request[c], outcome[c]>>
  /\ \/ pc'[c] \notin Answering
     \/ pc[c] \in Answering /\ UNCHANGED <<chain[c], response[c]>>
     \/ Open(c)

Enters(c) == ~Busy(c) /\ pc'[c] = "start" /\ outcome'[c] = "none" /\ content' = content

Ends(c) ==
  /\ Busy(c) /\ ~Busy(c)'
  /\ outcome'[c] # "result" \/ Lookup(c) \/ Revalidate(c) \/ BodyAccepted(c)

Moves(c) == Stays(c) \/ GoesOn(c) \/ Enters(c) \/ Ends(c)
-----------------------------------------------------------------------------
\* The end of acquisition d, seen by every other one and by d itself.
LEMMA EndMoves ==
  ASSUME TypeOK, NEW c \in Clients, NEW d \in Clients, NEW code, NEW res, Busy(d),
         Finish(d, code, res), request' = request,
         code # "result" \/ Lookup(d) \/ Revalidate(d) \/ BodyAccepted(d)
  PROVE  Moves(c)
<1>1. CASE c = d
  <2>1. outcome'[c] = code /\ pc'[c] = "done"
    BY <1>1 DEF Finish, TypeOK
  <2>. QED
    BY <1>1, <2>1 DEF Moves, Ends, Busy
<1>2. CASE c # d
  BY <1>2 DEF Moves, Stays, Finish, ClearLocals, TypeOK
<1>. QED
  BY <1>1, <1>2

LEMMA FailMoves ==
  ASSUME TypeOK, NEW c \in Clients, NEW d \in Clients, NEW code, Busy(d),
         Fail(d, code), request' = request, code # "result"
  PROVE  Moves(c)
  BY EndMoves DEF Fail

\* acquire() goes on at a place where it has no answer, or keeps the one it has.
LEMMA GotoMoves ==
  ASSUME TypeOK, NEW c \in Clients, NEW d \in Clients, Busy(d),
         NEW p \in Asking \cup {"lookup"}, Goto(d, p), request' = request,
         \A e \in Clients : e # d => chain'[e] = chain[e] /\ response'[e] = response[e],
         \/ p \notin Answering
         \/ pc[d] \in Answering /\ UNCHANGED <<chain[d], response[d]>>
         \/ Open(d)
  PROVE  Moves(c)
<1>1. pc' = [pc EXCEPT ![d] = p] /\ UNCHANGED <<outcome, delivered>>
  BY DEF Goto, end
<1>2. CASE c = d
  <2>1. pc'[c] = p /\ Busy(c)'
    BY <1>1, <1>2 DEF TypeOK, Busy, Asking
  <2>. QED
    BY <1>1, <1>2, <2>1 DEF Moves, GoesOn
<1>3. CASE c # d
  BY <1>1, <1>3 DEF Moves, Stays, TypeOK
<1>. QED
  BY <1>2, <1>3

\* Every step moves every acquisition in one of these ways.
LEMMA StepMoves ==
  ASSUME IInv, Next, NEW c \in Clients
  PROVE  Moves(c)
<1>1. TypeOK
  BY DEF IInv
<1>2. ASSUME NEW d \in Clients, Begin(d) PROVE Moves(c)
  <2>1. /\ ~Busy(d) /\ pc' = [pc EXCEPT ![d] = "start"] /\ outcome'[d] = "none"
        /\ content' = content
        /\ \A e \in Clients : e # d => /\ request'[e] = request[e] /\ outcome'[e] = outcome[e]
                                       /\ delivered'[e] = delivered[e]
        /\ UNCHANGED local
    BY <1>1, <1>2 DEF Begin, BeginWith, TypeOK, origin
  <2>2. CASE c = d
    BY <1>1, <2>1, <2>2 DEF Moves, Enters, TypeOK
  <2>3. CASE c # d
    BY <1>1, <2>1, <2>3 DEF Moves, Stays, TypeOK, local
  <2>. QED
    BY <2>2, <2>3
<1>3. ASSUME NEW d \in Clients, Start(d) PROVE Moves(c)
  BY <1>1, <1>3, FailMoves, GotoMoves DEF Start, Busy, local, Answering
<1>4. ASSUME NEW d \in Clients, Lookup(d) PROVE Moves(c)
  <2>1. CASE Goto(d, "check") /\ UNCHANGED <<chain, response, chunks>>
    BY <1>1, <1>4, <2>1, GotoMoves DEF Lookup, Busy, Answering, Asking
  <2>2. CASE \E res : Finish(d, "result", res)
    BY <1>1, <1>4, <2>2, EndMoves DEF Lookup, Busy
  <2>. QED
    BY <1>4, <2>1, <2>2 DEF Lookup
<1>5. ASSUME NEW d \in Clients, Check(d) PROVE Moves(c)
  BY <1>1, <1>5, FailMoves, GotoMoves DEF Check, Busy, local, Answering, Asking
<1>6. ASSUME NEW d \in Clients, Open(d) PROVE Moves(c)
  <2>1. PICK a \in Answers(d) : Receive(d, a)
    BY <1>6 DEF Open
  <2>2. \A e \in Clients : e # d => chain'[e] = chain[e] /\ response'[e] = response[e]
    BY <1>1, <2>1 DEF Receive, TypeOK
  <2>3. Goto(d, "classify") \/ Goto(d, "read_check")
    BY <2>1 DEF Receive
  <2>. QED
    BY <1>1, <1>6, <2>1, <2>2, <2>3, GotoMoves DEF Receive, Busy, Asking
<1>7. ASSUME NEW d \in Clients, ReadChunk(d) PROVE Moves(c)
  BY <1>1, <1>7, GotoMoves DEF ReadChunk, Busy, Answering, Asking
<1>8. ASSUME NEW d \in Clients, ReadEnd(d) PROVE Moves(c)
  BY <1>1, <1>8, FailMoves, GotoMoves DEF ReadEnd, Busy, local, Answering, Asking
<1>9. ASSUME NEW d \in Clients, NetworkFault(d) \/ NoStatus(d) PROVE Moves(c)
  BY <1>1, <1>9, FailMoves DEF NetworkFault, NoStatus, FaultWith, Interruptible, Busy
<1>10. ASSUME NEW d \in Clients, Redirect(d) PROVE Moves(c)
  <2>1. CASE Goto(d, "check") /\ UNCHANGED response /\ \A e \in Clients : e # d => chain'[e] = chain[e]
    BY <1>1, <1>10, <2>1, GotoMoves DEF Redirect, Busy, Answering, Asking
  <2>2. CASE \E code \in {"http_client_error", "ValueError", "redirect_loop", "too_many_redirects"} :
               Fail(d, code)
    BY <1>1, <1>10, <2>2, FailMoves DEF Redirect, Busy
  <2>. QED
    BY <1>1, <1>10, <2>1, <2>2 DEF Redirect, InvalidTarget, TypeOK
<1>11. ASSUME NEW d \in Clients, Revalidate(d) PROVE Moves(c)
  BY <1>1, <1>11, FailMoves, EndMoves DEF Revalidate, Busy
<1>12. ASSUME NEW d \in Clients, Refused(d) PROVE Moves(c)
  BY <1>1, <1>12, FailMoves DEF Refused, Refusal, Busy
<1>13. ASSUME NEW d \in Clients, BodyRejected(d) PROVE Moves(c)
  BY <1>1, <1>13, FailMoves DEF BodyRejected, ValidateBody, Busy
<1>14. ASSUME NEW d \in Clients, BodyAccepted(d) PROVE Moves(c)
  BY <1>1, <1>14, EndMoves DEF BodyAccepted, Busy
<1>15. CASE \/ \E d \in Clients : Cancel(d)
            \/ \E k \in Resources : Publish(k)
            \/ \E k \in CacheKeys : Evict(k)
            \/ Tick
  BY <1>15 DEF Cancel, Publish, Evict, Tick, local, end, Moves, Stays
<1>. QED
  BY <1>2, <1>3, <1>4, <1>5, <1>6, <1>7, <1>8, <1>9, <1>10, <1>11, <1>12, <1>13, <1>14, <1>15
  DEF Next, Acquire, Local

\* Nothing the origin holds is ever replaced by an older edition.
LEMMA ContentGrows ==
  ASSUME IInv, Next, NEW k \in Resources
  PROVE  /\ content[k].edition \in Nat /\ content'[k].edition \in Nat
         /\ content[k].edition <= content'[k].edition
<1>1. TypeOK /\ TypeOK'
  BY NextInv DEF IInv
<1>2. content[k].edition \in 0..editions /\ content'[k].edition \in Nat /\ editions \in Nat
  BY <1>1 DEF TypeOK
<1>3. CASE \E j \in Resources : Publish(j)
  BY <1>1, <1>2, <1>3 DEF Publish, TypeOK
<1>4. CASE content' = content
  BY <1>2, <1>4
<1>5. ASSUME NEW d \in Clients, Begin(d) \/ Cancel(d) \/ Acquire(d) PROVE content' = content
  <2>1. CASE Local(d)
    BY <2>1 DEF Local, Start, Lookup, Check, Redirect, Revalidate, Refused, BodyRejected,
                BodyAccepted, origin
  <2>2. CASE Begin(d) \/ Cancel(d) \/ Open(d)
    BY <2>2 DEF Begin, BeginWith, Cancel, Open, Receive, origin
  <2>3. CASE ReadChunk(d) \/ ReadEnd(d) \/ NetworkFault(d) \/ NoStatus(d)
    BY <2>3 DEF ReadChunk, ReadEnd, NetworkFault, NoStatus, FaultWith, origin
  <2>. QED
    BY <1>5, <2>1, <2>2, <2>3 DEF Acquire
<1>6. ASSUME \/ \E j \in CacheKeys : Evict(j)
             \/ Tick
      PROVE  content' = content
  BY <1>6 DEF Evict, Tick, origin
<1>. QED
  BY <1>2, <1>3, <1>4, <1>5, <1>6 DEF Next

\* What the origin answers about a resource is what it holds.
LEMMA AnswerIsContent ==
  ASSUME NEW c \in Clients, NEW a \in Answers(c), a.status \in {"ok", "not_modified"}
  PROVE  a.edition = content[Key[Current(c)]].edition
<1>1. a \notin Redirections /\ a \notin RefusalAnswers
  BY HttpAssumption DEF Redirections, RefusalAnswers, Answer
<1>. QED
  BY <1>1 DEF Answers, Contents, NotModified, About
-----------------------------------------------------------------------------
\* A step of any acquisition keeps what is known of c.
LEMMA PendingKept ==
  ASSUME IInv, Next, NEW c \in Clients, Pending(c)
  PROVE  Pending(c)'
  BY StepMoves DEF Pending, Moves, Stays, GoesOn, Enters, Ends, Busy

LEMMA CaughtKept ==
  ASSUME HInv, HNext, NEW c \in Clients
  PROVE  Caught(c)'
<1>1. IInv /\ Next /\ TypeOK /\ Caught(c)
  BY DEF HInv, HNext, IInv
<1>2. /\ Begins(c) => began'[c] = content[Asks(c)'].edition
      /\ ~Begins(c) /\ Busy(c)' => began'[c] = began[c]
  BY DEF HNext
<1>3. SUFFICES ASSUME Busy(c)', Asks(c)' \in Resources
      PROVE  /\ began'[c] \in 0..content'[Asks(c)'].edition
             /\ pc'[c] \in Answering /\ response'[c].status \in {"ok", "not_modified"}
                  /\ Key[Current(c)'] = Asks(c)' => began'[c] <= response'[c].edition
  BY DEF Caught, Asks
<1>4. CASE ~Busy(c)
  <2>1. began'[c] = content[Asks(c)'].edition /\ content' = content /\ pc'[c] = "start"
    BY <1>1, <1>2, <1>3, <1>4, StepMoves DEF Begins, Moves, Stays, GoesOn, Enters, Ends, Busy
  <2>2. began'[c] \in 0..content'[Asks(c)'].edition
    BY <1>1, <1>3, <2>1, ContentGrows
  <2>. QED
    BY <2>1, <2>2 DEF Answering
<1>5. CASE Busy(c)
  <2>1. began'[c] = began[c] /\ (Stays(c) \/ GoesOn(c))
    BY <1>1, <1>2, <1>3, <1>5, StepMoves DEF Begins, Moves, Enters, Ends
  <2>2. Asks(c)' = Asks(c)
    BY <2>1 DEF Stays, GoesOn, Asks
  <2>3. began[c] \in 0..content[Asks(c)].edition
    BY <1>1, <1>3, <1>5, <2>2 DEF Caught
  <2>4. began'[c] \in 0..content'[Asks(c)'].edition
    BY <1>1, <1>3, <2>1, <2>2, <2>3, ContentGrows
  <2>5. CASE pc'[c] \notin Answering
    BY <2>4, <2>5
  <2>6. CASE pc[c] \in Answering /\ UNCHANGED <<chain[c], response[c], request[c]>>
    BY <1>1, <1>3, <1>5, <2>1, <2>2, <2>4, <2>6 DEF Caught, Current
  <2>7. CASE Open(c)
    <3>1. PICK a \in Answers(c) : Receive(c, a)
      BY <2>7 DEF Open
    <3>2. response'[c] = a /\ Current(c)' = Current(c)
      BY <1>1, <3>1 DEF Receive, TypeOK, Current
    <3>3. a.status \in {"ok", "not_modified"} /\ Key[Current(c)] = Asks(c) => began[c] <= a.edition
      BY <1>1, <1>3, <2>2, <2>3, AnswerIsContent, ContentGrows
    <3>. QED
      BY <2>1, <2>2, <2>4, <3>2, <3>3
  <2>. QED
    BY <2>1, <2>5, <2>6, <2>7 DEF Stays, GoesOn
<1>. QED
  BY <1>4, <1>5

\* The invariant that carries the proof.
LEMMA FreshnessInvariant == HSpec => []HInv
<1>1. HSpec => Spec
  <2>1. HInit => Init
    BY DEF HInit
  <2>2. [HNext]_hvars => [Next]_vars
    BY DEF HNext, hvars
  <2>. QED
    BY <2>1, <2>2, PTL DEF HSpec, Spec
<1>2. HInit => \A c \in Clients : Pending(c) /\ Caught(c)
  BY DEF HInit, Init, Pending, Caught, Busy
<1>3. IInv /\ Undelivered /\ (\A c \in Clients : Pending(c) /\ Caught(c)) /\ [HNext]_hvars
        => (\A c \in Clients : Pending(c) /\ Caught(c))'
  <2>1. CASE UNCHANGED hvars
    BY <2>1 DEF hvars, vars, origin, local, end, Pending, Caught, Busy, Asks, Current
  <2>2. CASE HNext
    BY <2>2, PendingKept, CaughtKept DEF HInv, HNext
  <2>. QED
    BY <2>1, <2>2
<1>. QED
  BY <1>1, <1>2, <1>3, HttpInvariant, UndeliveredInvariant, PTL DEF HSpec, HInv

\* What an acquisition returns is what its last answer says, or, confirmed by
\* a 304, what HTTP cannot tell from it.
LEMMA ReturnedIsCaught ==
  ASSUME HInv, HNext, NEW c \in Clients, Busy(c), outcome'[c] = "result",
         request[c].max_age = 0, Key[Current(c)] = Asks(c),
         \/ delivered'[c].source # "revalidated"
         \/ request[c].own = [etag |-> 0, modified |-> 0]
  PROVE  \/ Key[delivered'[c].url] = Asks(c) /\ delivered'[c].edition >= began[c]
         \/ /\ delivered'[c].source = "revalidated"
            /\ Coincides(cached[c], Asks(c), response[c].edition)
<1>1. IInv /\ Next /\ TypeOK /\ Caught(c)
  BY DEF HInv, HNext, IInv
<1>2. Lookup(c) \/ Revalidate(c) \/ BodyAccepted(c)
  BY <1>1, StepMoves DEF HInv, Pending, Moves, Stays, GoesOn, Enters, Ends
<1>3. ~Lookup(c)
  <2>1. ~IsFresh(cache[<<request[c].method, Key[request[c].url]>>], request[c].max_age)
    BY DEF IsFresh
  <2>2. Lookup(c) => UNCHANGED outcome
    BY <2>1 DEF Lookup, Goto, end
  <2>. QED
    BY <2>2 DEF HInv, Pending
<1>4. Asks(c) \in Resources /\ pc[c] \in Answering
  BY <1>1, <1>2, <1>3 DEF IInv, AcquisitionInv, Chains, Asking, Answering, Asks, Revalidate,
                          BodyAccepted
<1>5. CASE Revalidate(c)
  <2>1. delivered'[c].source = "revalidated"
    BY <1>1, <1>5 DEF Revalidate, Fail, Finish, CachedResult, TypeOK
  <2>2. CASE Key[delivered'[c].url] = Asks(c) /\ delivered'[c].edition = response[c].edition
    BY <1>1, <1>4, <1>5, <2>2 DEF Caught, Revalidate, TypeOK, Response
  <2>3. CASE Coincides(cached[c], Asks(c), response[c].edition)
    BY <2>1, <2>3
  <2>. QED
    BY <1>1, <1>5, <2>1, <2>2, <2>3, ConfirmedIsCurrent
<1>6. CASE BodyAccepted(c)
  <2>1. /\ delivered' = [delivered EXCEPT ![c] =
             [source |-> "network", url |-> Current(c), edition |-> response[c].edition,
              kind |-> Body(c), redirects |-> Len(chain[c])]]
        /\ response[c].status = "ok"
    BY <1>6 DEF BodyAccepted, Finish
  <2>2. delivered'[c].url = Current(c) /\ delivered'[c].edition = response[c].edition
    BY <1>1, <2>1 DEF TypeOK
  <2>. QED
    BY <1>1, <1>4, <2>1, <2>2 DEF Caught, TypeOK, Response
<1>. QED
  BY <1>2, <1>3, <1>5, <1>6

\* An unredirected acquisition with a cache age of 0 returns nothing that was
\* outdated when it began, or that HTTP can tell to be, for any number of
\* acquisitions that share the cache, whatever order they finish in and
\* whatever ETags and dates the origin has (adapters.py:127-231).
THEOREM NothingOutdatedReturned == HSpec => NeverOutdated
<1>1. HInv /\ [HNext]_hvars =>
        [\A c \in Clients :
           Busy(c) /\ outcome'[c] = "result" /\ request[c].max_age = 0 /\ Key[Current(c)] = Asks(c) =>
             \/ Key[delivered'[c].url] = Asks(c) /\ delivered'[c].edition >= began[c]
             \/ /\ delivered'[c].source = "revalidated"
                /\ \/ request[c].own # [etag |-> 0, modified |-> 0]
                   \/ Coincides(cached[c], Asks(c), response[c].edition)]_hvars
  BY ReturnedIsCaught
<1>. QED
  BY <1>1, FreshnessInvariant, PTL DEF HSpec, NeverOutdated
=============================================================================
