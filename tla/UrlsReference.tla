---------------------------- MODULE UrlsReference -----------------------------
(***************************************************************************)
(* What normalize_cache_key is to tell apart, defined without its loops,   *)
(* and deduplicate_urls held against it.                                   *)
(***************************************************************************)
EXTENDS Urls

DotSegments == {Dot, DotDot}

\* The entries of a sequence at a set of positions, in their order: the k-th is
\* at the position up to which there are k of the set.
Rank(S, i)     == Cardinality({j \in S : j <= i})
Position(S, k) == CHOOSE i \in S : Rank(S, i) = k
Picked(seq, S) == [k \in 1..Cardinality(S) |-> seq[Position(S, k)]]

\* How many more names than ".." there are behind i up to n.
Balance(path, i, n) ==
  Cardinality({k \in i + 1..n : path[k] \notin DotSegments})
  - Cardinality({k \in i + 1..n : path[k] = DotDot})

\* RFC 3986, 5.2.4, of the first n segments: one stays unless it is a dot
\* segment or, somewhere behind it, there are more ".." than segments for them
\* to remove.
Staying(path, n) ==
  {i \in 1..n : path[i] \notin DotSegments /\ \A j \in i..n : Balance(path, i, j) >= 0}

\* What the walk has put out after n segments of a path without "//": the
\* segments that stay, but no single empty one.
Left(path, n) ==
  LET kept == Picked(path, Staying(path, n)) IN IF kept = <<Empty>> THEN <<>> ELSE kept

RFCPath(path) ==
  LET kept == Picked(path, Staying(path, Len(path)))
  IN  IF path[Len(path)] \in DotSegments THEN Append(kept, Empty) ELSE kept

\* The address of a service: the port a URL without one stands for is given.
Authority(url) ==
  <<Scheme(url), Host(url),
    IF url.port # "" THEN url.port ELSE IF Scheme(url) = "https" THEN "443" ELSE "80">>

\* How often each component occurs.
Occurrences(query) == [s \in Symbols |-> Cardinality({i \in DOMAIN query : query[i] = s})]

\* Two URLs name the same resource: the order of the query's components and
\* the fragment do not count.
SameResource(u, v) ==
  /\ Authority(u) = Authority(v)
  /\ RFCPath(Path(u)) = RFCPath(Path(v))
  /\ Occurrences(NormalizePercent(u.query)) = Occurrences(NormalizePercent(v.query))

\* The key of a URL as it is to be.
ReferenceKey(url) ==
  [scheme |-> Scheme(url), host |-> Host(url), port |-> Port(url),
   path |-> RFCPath(Path(url)), query |-> Query(url), fragment |-> FALSE]

\* No "//" in the path.
Plain(url) == \A i \in 1..Len(url.path) - 1 : url.path[i] # Empty

Processed == SubSeq(urls, 1, next - 1)
AllPlain  == \A i \in DOMAIN Processed : Plain(urls[i])

\* The positions of the first spellings of the resources.
First == {i \in DOMAIN Processed : \A j \in 1..i - 1 : ~SameResource(urls[j], urls[i])}

\* What is kept is usable, and the key it is to have was seen.
KeptSeen ==
  \A i \in DOMAIN unique :
    ~Unusable(unique[i]) /\ (Plain(unique[i]) => ReferenceKey(unique[i]) \in seen)

\* What the loops keep true so that the two properties below hold: only usable
\* URLs get past the key, the walk over a plain path is where RFC 3986 would be
\* with the part it has seen, and the keys are those of all URLs before.
DedupInv ==
  /\ \A i \in DOMAIN Processed : ~Unusable(urls[i])
  /\ pc = "segments" => ~Unusable(urls[next]) /\ walked <= Len(Path(urls[next]))
  /\ pc = "segments" /\ Plain(urls[next]) => output = Left(Path(urls[next]), walked)
  /\ AllPlain => /\ seen = {ReferenceKey(urls[i]) : i \in DOMAIN Processed}
                 /\ unique = Picked(urls, First)
  /\ KeptSeen

\* deduplicate_urls keeps, in order, the first spelling of each resource and
\* nothing else, for URLs without empty path segments.
UniqueAreFirst == AllPlain => unique = Picked(urls, First)

\* A key is a URL of the resource it stands for, and its own key.
KeysNameTheirResource ==
  \A i \in DOMAIN unique : Plain(unique[i]) =>
    \E key \in seen : SameResource(unique[i], key) /\ key = KeyOf(key, key.path)
=============================================================================
