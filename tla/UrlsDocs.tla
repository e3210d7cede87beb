------------------------------- MODULE UrlsDocs -------------------------------
(***************************************************************************)
(* What the repository says of its URLs and the code does not do.          *)
(***************************************************************************)
EXTENDS MCUrls

\* "RFC 3986 dot-segment removal without collapsing meaningful ``//``"
\* (cache.py:30): the path of a key is the one RFC 3986 makes of the URL's.
DotSegmentsByRFC ==
  \A i \in DOMAIN unique : \E key \in seen : key.path = RFCPath(Path(unique[i]))
=============================================================================
