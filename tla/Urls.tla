--------------------------------- MODULE Urls ---------------------------------
(***************************************************************************)
(* deduplicate_urls, and inside it normalize_cache_key, which walks the    *)
(* segments of a path to remove the dot segments.  A URL is the record     *)
(* urlsplit makes of it, its path cut at "/" and its query at "&"; a       *)
(* segment is a sequence of symbols, a component of a query is a symbol.   *)
(***************************************************************************)
EXTENDS Integers, Sequences, FiniteSets

CONSTANT Lists   \* the arguments deduplicate_urls is called with

\* A plain character or a percent escape: of "." and "a", which are
\* unreserved, and of "/", which is not, in two spellings.
Symbols == {".", "a", "%2e", "%61", "%2f", "%2F"}

Segments == Seq(Symbols)
Empty    == <<>>
Dot      == <<".">>
DotDot   == <<".", ".">>

\* path: the segments after the first "/", none at all if there is no path.
\* port: "" without one, "bad" if it is no port number.
Urls == [scheme : {"", "http", "https", "HTTP"}, host : {"", "localhost", "LOCALHOST", "bad"},
         port : {"", "80", "443", "8080", "bad"}, path : Seq(Segments), query : Seq(Symbols),
         fragment : BOOLEAN]

ASSUME ListsAssumption == Lists \subseteq Seq(Urls)

VARIABLES
  urls,      \* the argument
  next,      \* the position of the loop over it
  pc,        \* "loop", "segments" while a path is walked, "done", "raised"
  walked,    \* segments of the path that are done
  output,    \* what they left
  seen,      \* the keys
  unique     \* the result so far

vars == <<urls, next, pc, walked, output, seen, unique>>
-----------------------------------------------------------------------------
(* normalize_cache_key                                                     *)

\* No scheme, no host, a host IDNA rejects, a port out of range.
Unusable(url) == url.scheme = "" \/ url.host \in {"", "bad"} \/ url.port = "bad"

Scheme(url) == IF url.scheme = "HTTP" THEN "http" ELSE url.scheme
Host(url)   == IF url.host = "LOCALHOST" THEN "localhost" ELSE url.host

\* Mutant: a port that is the default of any scheme is dropped.
PortOfAny(url) == IF url.port \in {"80", "443"} THEN "" ELSE url.port

\* _DEFAULT_PORT
Port(url) ==
  IF <<Scheme(url), url.port>> \in {<<"http", "80">>, <<"https", "443">>} THEN "" ELSE url.port

\* _normalize_percent: unreserved characters are spelled plainly, the other
\* escapes in upper case.
Normalize(symbol) ==
  CASE symbol = "%2e" -> "."
    [] symbol = "%61" -> "a"
    [] symbol = "%2f" -> "%2F"
    [] OTHER          -> symbol

NormalizePercent(symbols) == [i \in DOMAIN symbols |-> Normalize(symbols[i])]

\* split.path or "/", its escapes normalized.
Path(url) ==
  IF url.path = <<>> THEN <<Empty>>
  ELSE [i \in DOMAIN url.path |-> NormalizePercent(url.path[i])]

\* What _normalize_percent leaves, and its order: ord() of the first character.
Spelled     == {"%2F", ".", "a"}
Ord(symbol) == CASE symbol = "%2F" -> 1 [] symbol = "." -> 2 [] OTHER -> 3

\* Mutant: the components keep their order.
QueryUnsorted(url) == NormalizePercent(url.query)

\* The number of components that are not after the n-th of Spelled.
NotAfter(parts, n) == Cardinality({i \in DOMAIN parts : Ord(parts[i]) <= n})

\* sorted(): less than k of the components are before the k-th, and at least k
\* are not after it.
Sorted(parts) ==
  [k \in DOMAIN parts |->
     CHOOSE s \in Spelled : NotAfter(parts, Ord(s) - 1) < k /\ k <= NotAfter(parts, Ord(s))]

\* _normalize_query
Query(url) == Sorted(NormalizePercent(url.query))

\* The end of a segment sequence; Empty for none, as before the first "/".
LastOf(segments) == IF segments = <<>> THEN Empty ELSE segments[Len(segments)]

\* Mutant: the name stays.
UpToName(segments) ==
  LET names == {i \in DOMAIN segments : segments[i] # Empty}
  IN  IF names = {} THEN <<>>
      ELSE SubSeq(segments, 1, CHOOSE i \in names : \A j \in names : j <= i)

\* "..": the empty segments at the end go, and the last name with them.
Up(segments) ==
  LET names == {i \in DOMAIN segments : segments[i] # Empty}
  IN  IF names = {} THEN <<>>
      ELSE SubSeq(segments, 1, (CHOOSE i \in names : \A j \in names : j <= i) - 1)

\* A segment of the loop of _remove_dot_segments other than "..": "." goes,
\* and so does an empty one at the start or after an empty one.
Step(segments, s) ==
  IF s = Dot \/ (s = Empty /\ LastOf(segments) = Empty) THEN segments ELSE Append(segments, s)

\* Mutant: a "/" is added to a path that ends with one.
RejoinedTwice(segments, trailing) ==
  IF segments = <<>> THEN <<Empty>>
  ELSE IF trailing THEN Append(segments, Empty)
  ELSE segments

\* The path is put together; trailing: it ended with "/", "/." or "/..".
Rejoined(segments, trailing) ==
  IF segments = <<>> THEN <<Empty>>
  ELSE IF trailing /\ LastOf(segments) # Empty THEN Append(segments, Empty)
  ELSE segments

\* normalize_cache_key(url), when the walk left segments of its path.
KeyOf(url, segments) ==
  [scheme |-> Scheme(url), host |-> Host(url), port |-> Port(url),
   path |-> Rejoined(segments, LastOf(Path(url)) \in {Empty, Dot, DotDot}),
   query |-> Query(url), fragment |-> FALSE]
-----------------------------------------------------------------------------
Init ==
  /\ urls \in Lists
  /\ next = 1 /\ pc = "loop"
  /\ walked = 0 /\ output = <<>>
  /\ seen = {} /\ unique = <<>>

\* normalize_cache_key begins, or raises ValueError.
Take ==
  /\ pc = "loop" /\ next <= Len(urls)
  /\ pc' = IF Unusable(urls[next]) THEN "raised" ELSE "segments"
  /\ walked' = 0 /\ output' = <<>>
  /\ UNCHANGED <<urls, next, seen, unique>>

WalkUp ==
  /\ pc = "segments" /\ walked < Len(Path(urls[next]))
  /\ Path(urls[next])[walked + 1] = DotDot
  /\ output' = Up(output)
  /\ walked' = walked + 1
  /\ UNCHANGED <<urls, next, pc, seen, unique>>

WalkOn ==
  /\ pc = "segments" /\ walked < Len(Path(urls[next]))
  /\ Path(urls[next])[walked + 1] # DotDot
  /\ output' = Step(output, Path(urls[next])[walked + 1])
  /\ walked' = walked + 1
  /\ UNCHANGED <<urls, next, pc, seen, unique>>

\* Mutant: a key that was seen is not looked up.
KeepAll ==
  /\ pc = "segments" /\ walked = Len(Path(urls[next]))
  /\ seen' = seen \cup {KeyOf(urls[next], output)}
  /\ unique' = Append(unique, urls[next])
  /\ next' = next + 1 /\ pc' = "loop"
  /\ UNCHANGED <<urls, walked, output>>

\* The key is complete; the first URL that has it is kept.
Keep ==
  /\ pc = "segments" /\ walked = Len(Path(urls[next]))
  /\ LET key == KeyOf(urls[next], output)
     IN  /\ seen' = seen \cup {key}
         /\ unique' = IF key \in seen THEN unique ELSE Append(unique, urls[next])
  /\ next' = next + 1 /\ pc' = "loop"
  /\ UNCHANGED <<urls, walked, output>>

Return ==
  /\ pc = "loop" /\ next > Len(urls)
  /\ pc' = "done"
  /\ UNCHANGED <<urls, next, walked, output, seen, unique>>

Next == Take \/ WalkUp \/ WalkOn \/ Keep \/ Return

Spec == Init /\ [][Next]_vars
-----------------------------------------------------------------------------
(* Properties that are proved for every list.                              *)

\* Every variable has its type, and there is a URL in the result for each key.
TypeOK ==
  /\ urls \in Seq(Urls)
  /\ next \in 1..Len(urls) + 1
  /\ pc \in {"loop", "segments", "done", "raised"}
  /\ pc = "segments" => next <= Len(urls)
  /\ walked \in Nat /\ output \in Seq(Segments)
  /\ IsFiniteSet(seen) /\ \A key \in seen : key.path \in Seq(Segments)
  /\ unique \in Seq(Urls) /\ Len(unique) = Cardinality(seen)

\* A path nothing is left to do for: no dot segment, and no empty segment at
\* the start or next to another.
NormalPath(path) ==
  /\ \A i \in DOMAIN path : path[i] \notin {Dot, DotDot}
  /\ \A i \in 1..Len(path) - 1 : path[i] = Empty => i > 1 /\ path[i + 1] # Empty

\* Whatever the spelling, normalize_cache_key leaves nothing for a second
\* normalization of the path to remove: dot segments hidden by escapes, at the
\* end of the path or behind empty segments are all found in one pass.
KeyPathsAreNormal ==
  \A key \in seen : key.path # <<>> /\ NormalPath(key.path)
=============================================================================
