-------------------------------- MODULE MCUrls --------------------------------
(***************************************************************************)
(* Lists of URLs: every pair that differs in its paths, in its queries or  *)
(* in the rest, every single URL with a longer path, and triples.          *)
(***************************************************************************)
EXTENDS UrlsReference

A == <<"a">>

Upto(n, S) == UNION {[1..k -> S] : k \in 0..n}

Base == [scheme |-> "http", host |-> "localhost", port |-> "", path |-> <<A>>, query |-> <<>>,
         fragment |-> FALSE]

Pathed(paths) == {[Base EXCEPT !.path = p] : p \in paths}

Paths     == Pathed(Upto(2, {Empty, Dot, DotDot, <<"%2e">>, A})
                    \cup [1..3 -> {Empty, DotDot, A}]
                    \cup Upto(1, {<<"%61">>, <<"%2f">>, <<"%2F">>, <<"%2e", ".">>, <<"a", "%2e">>}))
LongPaths == Pathed(Upto(4, {Empty, Dot, DotDot, <<".", "%2e">>, A})
                    \cup [1..6 -> {Empty, DotDot, A}])

Queries == {[Base EXCEPT !.query = q] : q \in Upto(2, {"a", "%61", ".", "%2f", "%2F"})}

Authorities == [scheme : {"http", "https", "HTTP"}, host : {"localhost", "LOCALHOST"},
                port : {"", "80", "443", "8080"}, path : {<<>>}, query : {<<>>}, fragment : {TRUE}]
               \cup {[Base EXCEPT !.scheme = ""], [Base EXCEPT !.host = ""],
                     [Base EXCEPT !.host = "bad"], [Base EXCEPT !.port = "bad"]}

Few == Pathed({<<>>, <<Dot>>, <<A>>, <<<<"%61">>>>, <<DotDot, A>>, <<A, Empty>>})

Pairs(S) == {<<u, v>> : u, v \in S}

MCLists == Pairs(Paths) \cup Pairs(Queries) \cup Pairs(Authorities)
           \cup {<<u>> : u \in LongPaths} \cup {<<u, v, w>> : u, v, w \in Few}

\* Lists to look for a path that is not treated by RFC 3986.
Singles == {<<u>> : u \in Paths}
=============================================================================
