------------------------------- MODULE Fixtures -------------------------------
(***************************************************************************)
(* FixtureServer: its owner starts and stops a serve_forever loop in a     *)
(* thread of its own; the loop accepts connections and gives each to a     *)
(* handler thread; the handlers share the hit counters.  Clients may hang  *)
(* up at any time, which neither the loop nor a handler notices.           *)
(***************************************************************************)
EXTENDS Integers, Sequences, SequencesExt

VARIABLES
  counts,            \* FixtureState.counts
  thread,            \* FixtureServer.thread: which of the loops, 0 for None
  loops,             \* where each thread started is in serve_forever
  shutdown_request,  \* BaseServer's flag
  is_shut_down,      \* BaseServer's event
  listening,         \* the server's socket is open
  stopping,          \* where stop() is
  connections,       \* requests sent and not answered yet, in order
  reply              \* the answer on its way to the client that waits

lifecycle == <<thread, loops, shutdown_request, is_shut_down, listening, stopping>>
traffic   == <<counts, connections, reply>>
server    == <<lifecycle, traffic>>

\* The paths with a fixture, and one without.
Paths ==
  {"/ok", "/empty-200", "/redirect", "/redirect-loop-a", "/redirect-loop-b", "/forbidden",
   "/rate-limited", "/server-error", "/slow", "/content-switch", "/pdf", "/malformed-pdf",
   "/truncated", "/etag", "/stale-etag", "/javascript-shell", "/javascript-shell-marker",
   "/duplicate-urls", "/moved", "/canonical", "/charset-problem", "/charset-latin1",
   "/network-exception", "/partial-batch", "/health", "/unknown"}

LoopStates == {"new", "registering", "polling", "accepting", "leaving", "left", "dead"}

\* etag is the ETag named in If-None-Match, 0 without one; waiting says that
\* the client has not hung up.
Connection == [path : Paths, etag : Nat, accepted : BOOLEAN, waiting : BOOLEAN]

NoReply == [status |-> "none"]

ServerInit ==
  /\ counts = [p \in Paths |-> 0]
  /\ thread = 0
  /\ loops = <<>>
  /\ shutdown_request = FALSE
  /\ is_shut_down = FALSE
  /\ listening = TRUE
  /\ stopping = "no"
  /\ connections = <<>>
  /\ reply = NoReply
-----------------------------------------------------------------------------
(* What the fixtures answer.                                               *)

\* _send, in the form HttpAdapter receives it.
Send(status, kind) ==
  [status |-> status, location |-> "none", edition |-> 0, kind |-> kind,
   etag |-> 0, modified |-> 0, stale |-> FALSE]

SendTagged(status, etag, stale) ==
  [status |-> status, location |-> "none", edition |-> etag,
   kind |-> IF status = "ok" THEN "data" ELSE "empty",
   etag |-> etag, modified |-> 0, stale |-> stale]

Moved == [path \in {"/redirect", "/redirect-loop-a", "/redirect-loop-b", "/moved"} |->
            CASE path = "/redirect"        -> "/ok"
              [] path = "/redirect-loop-a" -> "/redirect-loop-b"
              [] path = "/redirect-loop-b" -> "/redirect-loop-a"
              [] path = "/moved"           -> "/canonical"]

Status(path) ==
  CASE path = "/forbidden"    -> "forbidden"
    [] path = "/rate-limited" -> "rate_limited"
    [] path = "/server-error" -> "server_error"
    [] path = "/unknown"      -> "client_error"
    [] OTHER                  -> "ok"

\* /content-switch, by the parity of its counter.
Phase(hit) == IF hit % 2 = 1 THEN "html" ELSE "pdf"

\* What the body is to _validate_body.
Content(path, hit) ==
  CASE path = "/empty-200"       -> "empty"
    [] path = "/content-switch"  -> Phase(hit)
    [] path = "/pdf"             -> "pdf"
    [] path = "/malformed-pdf"   -> "malformed_pdf"
    [] path = "/truncated"       -> "cut"
    [] path = "/canonical"       -> "html"
    [] path = "/charset-problem" -> "undecodable"
    [] path \in {"/javascript-shell", "/javascript-shell-marker"} -> "shell"
    [] OTHER                     -> "data"

\* _dispatch.  ETags are numbered for each path: /etag and /stale-etag send
\* their edition 1 under ETag 1, and /stale-etag confirms whatever it is asked
\* about under ETag 2.
Dispatch(path, hit, etag) ==
  CASE path \in DOMAIN Moved -> [Send("redirect", "empty") EXCEPT !.location = Moved[path]]
    [] path = "/etag"        -> SendTagged(IF etag = 1 THEN "not_modified" ELSE "ok", 1, FALSE)
    [] path = "/stale-etag"  -> IF etag # 0 THEN SendTagged("not_modified", 2, TRUE)
                                            ELSE SendTagged("ok", 1, FALSE)
    [] OTHER                 -> Send(Status(path), Content(path, hit))
-----------------------------------------------------------------------------
(* Handler threads.                                                        *)

\* FixtureState.hit, and the answer; /network-exception closes the connection
\* without one.  Daemon threads go on after stop().
Handle(i) ==
  /\ connections[i].accepted
  /\ LET c   == connections[i]
         hit == counts[c.path] + 1
     IN  /\ counts' = [counts EXCEPT ![c.path] = hit]
         /\ reply' = IF c.waiting /\ c.path # "/network-exception"
                     THEN Dispatch(c.path, hit, c.etag) ELSE reply
  /\ connections' = RemoveAt(connections, i)
  /\ UNCHANGED lifecycle

\* Mutant: reset() leaves the counters alone.
ResetNothing == counts' = counts

Reset == counts' = [p \in Paths |-> 0]
-----------------------------------------------------------------------------
(* The client's end of a connection.                                       *)

Connect(path, etag) ==
  /\ listening
  /\ connections' = Append(connections, [path |-> path, etag |-> etag,
                                         accepted |-> FALSE, waiting |-> TRUE])
  /\ UNCHANGED <<counts, reply, lifecycle>>

HangUp ==
  /\ connections' = [i \in DOMAIN connections |-> [connections[i] EXCEPT !.waiting = FALSE]]
  /\ reply' = NoReply
  /\ UNCHANGED <<counts, lifecycle>>

TakeReply ==
  /\ reply' = NoReply
  /\ UNCHANGED <<counts, connections, lifecycle>>
-----------------------------------------------------------------------------
(* BaseServer.serve_forever in thread i: not part of the repository.       *)

At(i, from, to) == loops[i] = from /\ loops' = [loops EXCEPT ![i] = to]

Clear(i) ==
  /\ At(i, "new", "registering")
  /\ is_shut_down' = FALSE
  /\ UNCHANGED <<thread, shutdown_request, listening, stopping, traffic>>

\* A closed socket has no file descriptor: register() raises.
Register(i) ==
  /\ At(i, "registering", IF listening THEN "polling" ELSE "leaving")
  /\ UNCHANGED <<thread, shutdown_request, is_shut_down, listening, stopping, traffic>>

Queued(j) == ~connections[j].accepted

Poll(i) ==
  /\ \/ shutdown_request /\ At(i, "polling", "leaving")
     \/ /\ ~shutdown_request /\ \E j \in DOMAIN connections : Queued(j)
        /\ At(i, "polling", "accepting")
  /\ UNCHANGED <<thread, shutdown_request, is_shut_down, listening, stopping, traffic>>

\* The first in the queue gets a handler thread.
Accept(i) ==
  /\ At(i, "accepting", "polling")
  /\ \E j \in DOMAIN connections :
       /\ Queued(j) /\ \A k \in 1..j - 1 : ~Queued(k)
       /\ connections' = [connections EXCEPT ![j].accepted = TRUE]
  /\ UNCHANGED <<thread, shutdown_request, is_shut_down, listening, stopping, counts, reply>>

Leave(i) ==
  /\ At(i, "leaving", "left")
  /\ shutdown_request' = FALSE
  /\ UNCHANGED <<thread, is_shut_down, listening, stopping, traffic>>

Announce(i) ==
  /\ At(i, "left", "dead")
  /\ is_shut_down' = TRUE
  /\ UNCHANGED <<thread, shutdown_request, listening, stopping, traffic>>

ServeForever(i) == Clear(i) \/ Register(i) \/ Poll(i) \/ Accept(i) \/ Leave(i) \/ Announce(i)
-----------------------------------------------------------------------------
(* start() and stop().                                                     *)

\* Mutant: every start() starts a thread.
StartsAlways == TRUE

StartsThread == thread = 0

Start ==
  /\ stopping = "no"
  /\ IF StartsThread
     THEN loops' = Append(loops, "new") /\ thread' = Len(loops) + 1
     ELSE UNCHANGED <<loops, thread>>
  /\ UNCHANGED <<shutdown_request, is_shut_down, listening, stopping, traffic>>

\* Mutant: stop() does not look whether there is a thread.
ShutsDownAlways == TRUE

ShutsDown == thread # 0

Stop ==
  /\ stopping = "no"
  /\ IF ShutsDown
     THEN shutdown_request' = TRUE /\ stopping' = "waiting"
     ELSE stopping' = "closing" /\ UNCHANGED shutdown_request
  /\ UNCHANGED <<thread, loops, is_shut_down, listening, traffic>>

\* The end of shutdown(): the event is set.
ShutDown ==
  /\ stopping = "waiting" /\ is_shut_down
  /\ stopping' = "joining"
  /\ UNCHANGED <<thread, loops, shutdown_request, is_shut_down, listening, traffic>>

\* The thread has ended, or two seconds are over.
Join ==
  /\ stopping = "joining"
  /\ stopping' = "closing"
  /\ thread' = 0
  /\ UNCHANGED <<loops, shutdown_request, is_shut_down, listening, traffic>>

\* Mutant: the socket of a server that served is not closed.
SocketAfterShutdown == IF loops = <<>> THEN FALSE ELSE listening

SocketAfterClose == FALSE

\* server_close(): what is in the queue of the socket, behind the connections
\* that have their handlers, is lost with it.
Close ==
  /\ stopping = "closing"
  /\ stopping' = "no"
  /\ listening' = SocketAfterClose
  /\ \E n \in 0..Len(connections) :
       /\ \A i \in DOMAIN connections : Queued(i) <=> i > n
       /\ connections' = SubSeq(connections, 1, n)
  /\ UNCHANGED <<counts, reply, thread, loops, shutdown_request, is_shut_down>>

Stopping == ShutDown \/ Join
-----------------------------------------------------------------------------
(* Properties.                                                             *)

Serving == {"polling", "accepting"}

\* When stop() has closed the socket no thread is in the accept loop, nor gets
\* there, however start() and stop() follow each other: start() does not look
\* at the socket, and stop() waits for an event that an earlier stop() has
\* left set.
StoppedIsSilent == ~listening => \A i \in DOMAIN loops : loops[i] \notin Serving

\* A server that was started accepts connections until stop() is called: the
\* first start() makes a thread that serves, and no later one finds the socket
\* open with a loop that is gone.
ServesUntilStopped ==
  listening /\ stopping = "no" =>
    \A i \in DOMAIN loops : loops[i] \notin {"leaving", "left", "dead"}
-----------------------------------------------------------------------------
(* The inductive invariant behind both.                                    *)

ServerTypes ==
  /\ loops \in Seq(LoopStates) /\ thread \in 0..Len(loops)
  /\ shutdown_request \in BOOLEAN /\ is_shut_down \in BOOLEAN /\ listening \in BOOLEAN
  /\ stopping \in {"no", "waiting", "joining", "closing"}

\* While the socket is open at most one thread was ever started; it is let go
\* where the socket is closed next.
OneThread ==
  listening =>
    /\ Len(loops) <= 1
    /\ thread = 0 /\ loops # <<>> => stopping = "closing"

\* While the socket is open the event and the flag mean what stop() takes them
\* to mean: the loop is over, and somebody wants it to be.
SignalsTrue ==
  listening =>
    /\ is_shut_down => loops # <<>> /\ \A i \in DOMAIN loops : loops[i] = "dead"
    /\ shutdown_request => stopping # "no"

\* What stop() knows at each of its steps.
StopProgress ==
  /\ stopping \in {"waiting", "joining"} => thread # 0
  /\ listening /\ stopping \in {"joining", "closing"} =>
       \A i \in DOMAIN loops : loops[i] = "dead"

ServerInv ==
  /\ ServerTypes /\ OneThread /\ SignalsTrue /\ StopProgress
  /\ StoppedIsSilent /\ ServesUntilStopped
=============================================================================
