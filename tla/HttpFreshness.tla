----------------------------- MODULE HttpFreshness -----------------------------
(***************************************************************************)
(* HttpAdapter with a history variable: what the origin held when each     *)
(* acquisition began.  Acquisitions that share the cache finish in another *)
(* order than their answers left the origin, and the older body may be     *)
(* stored last.                                                            *)
(***************************************************************************)
EXTENDS HttpInductive

VARIABLE began  \* edition of the resource asked for when the acquisition began

hvars == <<vars, began>>

HInit == Init /\ began = [c \in Clients |-> 0]

Asks(c)   == Key[request[c].url]
Begins(c) == ~Busy(c) /\ Busy(c)' /\ Asks(c)' \in Resources

HNext ==
  /\ Next
  /\ began' = [c \in Clients |-> IF Begins(c) THEN content[Asks(c)'].edition
                                 ELSE IF Busy(c)' THEN began[c] ELSE 0]

HSpec == HInit /\ [][HNext]_hvars

\* An acquisition with a cache age of 0 that is not redirected returns bytes
\* of the resource asked for, and none older than what it held when acquire()
\* was called, whatever the others have stored meanwhile, and in whatever
\* order.  What a 304 confirms may be something else only where the caller sent
\* validators of its own, or those of the entry are also the resource's.
NeverOutdated ==
  [][\A c \in Clients :
       Busy(c) /\ outcome'[c] = "result" /\ request[c].max_age = 0 /\ Key[Current(c)] = Asks(c) =>
         \/ Key[delivered'[c].url] = Asks(c) /\ delivered'[c].edition >= began[c]
         \/ /\ delivered'[c].source = "revalidated"
            /\ \/ request[c].own # [etag |-> 0, modified |-> 0]
               \/ Coincides(cached[c], Asks(c), response[c].edition)]_hvars

\* What proves it: until it ends, an acquisition has no result; the resource
\* held no more when it began than it does now, and an answer of the resource
\* has caught up.
Pending(c) == Busy(c) => outcome[c] # "result"

Caught(c) ==
  Busy(c) /\ Asks(c) \in Resources =>
    /\ began[c] \in 0..content[Asks(c)].edition
    /\ pc[c] \in Answering /\ response[c].status \in {"ok", "not_modified"}
         /\ Key[Current(c)] = Asks(c) => began[c] <= response[c].edition

HInv == IInv /\ Undelivered /\ \A c \in Clients : Pending(c) /\ Caught(c)
=============================================================================
