----------------------------- MODULE MCConformance -----------------------------
(***************************************************************************)
(* Programs for model checking Conformance.                                *)
(***************************************************************************)
EXTENDS ConformanceInductive

Suite(names) == <<"start">> \o names \o <<"stop">>

\* Scenarios that leave something behind or meet what was left.
Stateful ==
  {"slow-response", "content-type-switch", "stale-etag-cache", "duplicate-urls", "redirect"}

Suites ==
  {Suite(<<a, b>>) : a, b \in Scenarios} \cup {Suite(<<a, b, c>>) : a, b, c \in Stateful}

\* serve-fixtures, and what an embedding program may do.
Lifecycles ==
  {<<"start", "wait", "stop">>} \cup
  UNION {[1..n -> {"start", "stop"}] : n \in 1..4} \cup
  {<<"start", "stop", "start", "wait", "stop">>, <<"http-500">>,
   <<"start", "http-500", "stop", "start", "http-500", "stop">>}

\* Paths no scenario asks for.
OtherPaths ==
  {Suite(<<u, u>>) :
     u \in {"/etag", "/health", "/javascript-shell-marker", "/charset-latin1", "/unknown"}}

MCPrograms == Suites \cup Lifecycles \cup OtherPaths
=============================================================================
