------------------------------- MODULE HttpDocs -------------------------------
(***************************************************************************)
(* What docs/fault-model.md says of HttpAdapter and the code does not do.  *)
(***************************************************************************)
EXTENDS MCHttpAdapter

\* "a 403 does not inspect or interpret its body": whatever body comes with a
\* 403, the acquisition does not end with an error about that body, which
\* would be a continuation where 403 is terminal.
ForbiddenIgnoresBody ==
  [][\A c \in Clients : response[c].status = "forbidden" /\ Busy(c) /\ pc'[c] = "done"
       => outcome'[c] # "truncated_body"]_vars

\* "enforce expected media types, if any": a result has one of the media types
\* its request expects, wherever its bytes come from.
ExpectedTypeEnforced ==
  \A c \in Clients : outcome[c] = "result" /\ request[c].method = "GET" /\ request[c].expected # {}
    => Media(delivered[c].kind) \in request[c].expected
=============================================================================
