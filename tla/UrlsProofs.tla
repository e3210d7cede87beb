------------------------------ MODULE UrlsProofs ------------------------------
(***************************************************************************)
(* For every list of URLs: the types, and that a key's path is normal.     *)
(***************************************************************************)
EXTENDS UrlsReference, FiniteSetTheorems, FunctionTheorems, TLAPS

\* What the walk has left is normal so far, and does not start with an empty
\* segment.
Walked(segments) == segments \in Seq(Segments) /\ NormalPath(segments)
                    /\ (segments # <<>> => segments[1] # Empty)

\* The path walked is one.
IInv == TypeOK /\ KeyPathsAreNormal /\ Walked(output)
-----------------------------------------------------------------------------
LEMMA SegmentFacts ==
  /\ Empty \in Segments /\ Dot \in Segments /\ DotDot \in Segments
  /\ Empty # Dot /\ Empty # DotDot
  BY DEF Empty, Dot, DotDot, Segments, Symbols

\* A decoded path is a sequence of segments, and never none.
LEMMA PathType ==
  ASSUME NEW url \in Urls
  PROVE  Path(url) \in Seq(Segments) /\ Len(Path(url)) > 0
<1>1. CASE url.path = <<>>
  BY <1>1, SegmentFacts DEF Path
<1>2. CASE url.path # <<>>
  <2>1. url.path \in Seq(Segments)
    BY DEF Urls
  <2>2. \A i \in DOMAIN url.path : NormalizePercent(url.path[i]) \in Segments
    BY <2>1 DEF NormalizePercent, Normalize, Segments, Symbols
  <2>3. Path(url) = [i \in 1..Len(url.path) |-> NormalizePercent(url.path[i])]
    BY <1>2, <2>1 DEF Path
  <2>. QED
    BY <1>2, <2>1, <2>2, <2>3
<1>. QED
  BY <1>1, <1>2

\* An initial part of a walked path is one.
LEMMA PrefixWalked ==
  ASSUME NEW segments, Walked(segments), NEW n \in 0..Len(segments)
  PROVE  Walked(SubSeq(segments, 1, n))
  BY DEF Walked, NormalPath

\* ".." leaves an initial part: there is a name, or there is nothing.
LEMMA UpWalked ==
  ASSUME NEW segments, Walked(segments)
  PROVE  Walked(Up(segments))
<1> DEFINE names == {i \in DOMAIN segments : segments[i] # Empty}
           last  == CHOOSE i \in names : \A j \in names : j <= i
<1>1. CASE names = {}
  BY <1>1 DEF Up, Walked, NormalPath, Segments
<1>2. CASE names # {}
  <2>1. segments # <<>> /\ segments \in Seq(Segments) /\ Len(segments) > 0
    BY <1>2 DEF Walked
  <2>2. \E i \in names : \A j \in names : j <= i
    <3>1. CASE segments[Len(segments)] # Empty
      BY <2>1, <3>1
    <3>2. CASE segments[Len(segments)] = Empty
      <4>1. Len(segments) > 1 /\ segments[Len(segments) - 1] # Empty
        BY <2>1, <3>2 DEF Walked, NormalPath
      <4>. QED
        BY <2>1, <3>2, <4>1
    <3>. QED
      BY <3>1, <3>2
  <2>3. last \in names
    BY <2>2
  <2>4. last - 1 \in 0..Len(segments)
    BY <2>1, <2>3
  <2>. QED
    BY <1>2, <2>4, PrefixWalked DEF Up
<1>. QED
  BY <1>1, <1>2

\* So does any other segment.
LEMMA StepWalked ==
  ASSUME NEW segments, Walked(segments), NEW s \in Segments, s # DotDot
  PROVE  Walked(Step(segments, s))
<1>1. CASE s = Dot \/ (s = Empty /\ LastOf(segments) = Empty)
  BY <1>1 DEF Step
<1>2. CASE ~(s = Dot \/ (s = Empty /\ LastOf(segments) = Empty))
  <2>1. Step(segments, s) = Append(segments, s)
    BY <1>2 DEF Step
  <2>2. s \notin {Dot, DotDot}
    BY <1>2
  <2>3. s = Empty => segments # <<>> /\ segments[Len(segments)] # Empty
    BY <1>2 DEF LastOf
  <2>. QED
    BY <2>1, <2>2, <2>3 DEF Walked, NormalPath
<1>. QED
  BY <1>1, <1>2

\* The path of a key is normal.
LEMMA RejoinedNormal ==
  ASSUME NEW segments, Walked(segments), NEW trailing
  PROVE  /\ Rejoined(segments, trailing) \in Seq(Segments)
         /\ Rejoined(segments, trailing) # <<>>
         /\ NormalPath(Rejoined(segments, trailing))
<1>1. CASE segments = <<>>
  BY <1>1, SegmentFacts DEF Rejoined, NormalPath
<1>2. CASE segments # <<>> /\ trailing /\ LastOf(segments) # Empty
  <2>1. Rejoined(segments, trailing) = Append(segments, Empty)
    BY <1>2 DEF Rejoined
  <2>2. segments[Len(segments)] # Empty
    BY <1>2 DEF LastOf
  <2> DEFINE whole == Append(segments, Empty)
  <2>3. /\ segments \in Seq(Segments) /\ whole \in Seq(Segments)
        /\ Len(whole) = Len(segments) + 1 /\ whole[Len(segments) + 1] = Empty
        /\ \A i \in 1..Len(segments) : whole[i] = segments[i]
    BY SegmentFacts DEF Walked
  <2>4. NormalPath(whole)
    BY <1>2, <2>2, <2>3, SegmentFacts DEF Walked, NormalPath
  <2>. QED
    BY <2>1, <2>3, <2>4
<1>3. CASE segments # <<>> /\ ~(trailing /\ LastOf(segments) # Empty)
  BY <1>3 DEF Rejoined, Walked
<1>. QED
  BY <1>1, <1>2, <1>3

LEMMA KeyPathNormal ==
  ASSUME NEW url \in Urls, NEW segments, Walked(segments), NEW key, key = KeyOf(url, segments)
  PROVE  key.path \in Seq(Segments) /\ key.path # <<>> /\ NormalPath(key.path)
  BY RejoinedNormal DEF KeyOf
-----------------------------------------------------------------------------
LEMMA InitInv == Init => IInv
<1> SUFFICES ASSUME Init PROVE IInv
  OBVIOUS
<1>1. urls \in Seq(Urls)
  BY ListsAssumption DEF Init
<1>2. IsFiniteSet(seen) /\ Cardinality(seen) = 0
  BY FS_EmptySet DEF Init
<1>. QED
  BY <1>1, <1>2 DEF Init, IInv, TypeOK, KeyPathsAreNormal, Walked, NormalPath

\* The URL the loop is at, and its path.
LEMMA AtUrl ==
  ASSUME TypeOK, pc = "segments"
  PROVE  urls[next] \in Urls /\ Path(urls[next]) \in Seq(Segments)
  BY PathType DEF TypeOK

\* The next key: it is counted when it is new.
LEMMA KeepInv ==
  ASSUME IInv, Keep
  PROVE  IInv'
<1> DEFINE key == KeyOf(urls[next], output)
<1>1. urls[next] \in Urls
  BY AtUrl DEF IInv, Keep
<1>2. key.path \in Seq(Segments) /\ key.path # <<>> /\ NormalPath(key.path)
  BY <1>1, KeyPathNormal DEF IInv
<1>3. /\ seen' = seen \cup {key}
      /\ unique' = IF key \in seen THEN unique ELSE Append(unique, urls[next])
  BY DEF Keep
<1>4. /\ IsFiniteSet(seen')
      /\ Cardinality(seen') = IF key \in seen THEN Cardinality(seen) ELSE Cardinality(seen) + 1
  BY <1>3, FS_AddElement DEF IInv, TypeOK
<1>5. unique' \in Seq(Urls) /\ Len(unique') = Cardinality(seen')
  BY <1>1, <1>3, <1>4 DEF IInv, TypeOK
<1>6. TypeOK'
  BY <1>2, <1>3, <1>4, <1>5 DEF IInv, TypeOK, Keep
<1>7. KeyPathsAreNormal'
  BY <1>2, <1>3 DEF IInv, KeyPathsAreNormal
<1>8. Walked(output)'
  BY DEF IInv, Keep, Walked
<1>. QED
  BY <1>6, <1>7, <1>8 DEF IInv

LEMMA NextInv == IInv /\ [Next]_vars => IInv'
<1> SUFFICES ASSUME IInv, [Next]_vars PROVE IInv'
  OBVIOUS
<1>1. CASE Take
  BY <1>1 DEF Take, IInv, TypeOK, KeyPathsAreNormal, Walked, NormalPath
<1>2. CASE WalkUp
  <2>1. Walked(output)'
    BY <1>2, UpWalked DEF WalkUp, IInv
  <2>2. TypeOK'
    BY <1>2, <2>1 DEF WalkUp, IInv, TypeOK, Walked
  <2>. QED
    BY <1>2, <2>1, <2>2 DEF WalkUp, IInv, KeyPathsAreNormal
<1>3. CASE WalkOn
  <2>1. Path(urls[next])[walked + 1] \in Segments
    BY <1>3, AtUrl DEF WalkOn, IInv, TypeOK
  <2>2. Walked(output)'
    BY <1>3, <2>1, StepWalked DEF WalkOn, IInv
  <2>3. TypeOK'
    BY <1>3, <2>2 DEF WalkOn, IInv, TypeOK, Walked
  <2>. QED
    BY <1>3, <2>2, <2>3 DEF WalkOn, IInv, KeyPathsAreNormal
<1>4. CASE Keep
  BY <1>4, KeepInv
<1>5. CASE Return
  BY <1>5 DEF Return, IInv, TypeOK, KeyPathsAreNormal, Walked
<1>6. CASE UNCHANGED vars
  BY <1>6 DEF vars, IInv, TypeOK, KeyPathsAreNormal, Walked
<1>. QED
  BY <1>1, <1>2, <1>3, <1>4, <1>5, <1>6 DEF Next

LEMMA Invariance == Spec => []IInv
  BY InitInv, NextInv, PTL DEF Spec

\* The types hold for every list of URLs: above all, deduplicate_urls returns
\* as many URLs as it has seen keys.
THEOREM UrlsTypes == Spec => []TypeOK
<1>1. IInv => TypeOK
  BY DEF IInv
<1>. QED
  BY <1>1, Invariance, PTL

\* normalize_cache_key leaves nothing to remove in the path of any URL, be it
\* as long and as full of dot segments, escapes and empty segments as it may.
THEOREM PathsAreNormal == Spec => []KeyPathsAreNormal
<1>1. IInv => KeyPathsAreNormal
  BY DEF IInv
<1>. QED
  BY <1>1, Invariance, PTL
-----------------------------------------------------------------------------
(* Sets of positions in their order.                                       *)

\* A position's rank counts the position itself, and grows with it.
LEMMA RankFacts ==
  ASSUME NEW n \in Nat, NEW S \in SUBSET (1..n)
  PROVE  /\ IsFiniteSet(S) /\ Cardinality(S) \in Nat
         /\ \A i \in S : Rank(S, i) \in 1..Cardinality(S)
         /\ \A i \in S, j \in S : i < j => Rank(S, i) < Rank(S, j)
<1>0. \A i \in S : i \in Nat
  OBVIOUS
<1>1. IsFiniteSet(S) /\ Cardinality(S) \in Nat
  <2>1. 1 \in Int /\ n \in Int
    OBVIOUS
  <2>2. IsFiniteSet(1..n)
    BY <2>1, FS_Interval
  <2>. QED
    BY <2>2, FS_Subset, FS_CardinalityType
<1>2. ASSUME NEW i \in S
      PROVE  /\ IsFiniteSet({j \in S : j <= i}) /\ Rank(S, i) \in Nat
             /\ Rank(S, i) <= Cardinality(S) /\ Rank(S, i) # 0
  <2> DEFINE upto == {j \in S : j <= i}
  <2>1. upto \in SUBSET S /\ i \in upto
    OBVIOUS
  <2>2. IsFiniteSet(upto) /\ Cardinality(upto) \in Nat /\ Cardinality(upto) <= Cardinality(S)
    BY <1>1, <2>1, FS_Subset, FS_CardinalityType
  <2>3. Cardinality(upto) # 0
    BY <2>1, <2>2, FS_EmptySet
  <2>. QED
    BY <2>2, <2>3 DEF Rank
<1>3. ASSUME NEW i \in S, NEW j \in S, i < j
      PROVE  Rank(S, i) < Rank(S, j)
  <2> DEFINE low  == {k \in S : k <= i}
             high == {k \in S : k <= j}
  <2>0. i \in Nat /\ j \in Nat /\ \A k \in S : k \in Nat
    BY <1>0
  <2>1. low \in SUBSET high /\ j \in high /\ j \notin low
    <3>1. j <= j /\ ~(j <= i)
      BY <2>0, <1>3
    <3>2. ASSUME NEW k \in S, k <= i PROVE k <= j
      <4>1. k \in Nat
        BY <2>0
      <4>. QED
        BY <2>0, <1>3, <3>2, <4>1
    <3>. QED
      BY <3>1, <3>2
  <2>2. IsFiniteSet(high) /\ Cardinality(low) \in Nat /\ Cardinality(high) \in Nat
    BY <1>2 DEF Rank
  <2>3. Cardinality(low) <= Cardinality(high) /\ Cardinality(low) # Cardinality(high)
    BY <2>1, <2>2, FS_Subset
  <2>. QED
    BY <2>2, <2>3 DEF Rank
<1>4. ASSUME NEW i \in S PROVE Rank(S, i) \in 1..Cardinality(S)
  <2>1. Rank(S, i) \in Nat /\ Rank(S, i) <= Cardinality(S) /\ Rank(S, i) # 0
    BY <1>2
  <2>. QED
    BY <1>1, <2>1
<1>. QED
  BY <1>1, <1>3, <1>4

\* Every rank is that of one position.
LEMMA PositionFacts ==
  ASSUME NEW n \in Nat, NEW S \in SUBSET (1..n)
  PROVE  /\ \A k \in 1..Cardinality(S) : Position(S, k) \in S /\ Rank(S, Position(S, k)) = k
         /\ \A i \in S : Position(S, Rank(S, i)) = i
<1> DEFINE rank == [i \in S |-> Rank(S, i)]
           ranks == 1..Cardinality(S)
<1>1. /\ IsFiniteSet(S) /\ Cardinality(S) \in Nat
      /\ \A i \in S : Rank(S, i) \in ranks
      /\ \A i \in S, j \in S : i < j => Rank(S, i) < Rank(S, j)
  BY RankFacts
<1>2. \A i \in S, j \in S : Rank(S, i) = Rank(S, j) => i = j
  <2> SUFFICES ASSUME NEW i \in S, NEW j \in S, i # j PROVE Rank(S, i) # Rank(S, j)
    OBVIOUS
  <2>1. i < j \/ j < i
    OBVIOUS
  <2>. QED
    BY <1>1, <2>1
<1>3. rank \in Injection(S, ranks)
  BY <1>1, <1>2, Fun_IsInj
<1>4. IsFiniteSet(ranks) /\ Cardinality(ranks) = Cardinality(S)
  BY <1>1, FS_Interval
<1>5. rank \in Surjection(S, ranks)
  BY <1>3, <1>4, FS_Injection
<1>6. ASSUME NEW k \in ranks PROVE \E i \in S : Rank(S, i) = k
  <2>1. \E i \in S : rank[i] = k
    BY <1>5 DEF Surjection
  <2>. QED
    BY <2>1
<1>7. \A k \in ranks : Position(S, k) \in S /\ Rank(S, Position(S, k)) = k
  BY <1>6 DEF Position
<1>8. \A i \in S : Position(S, Rank(S, i)) = i
  BY <1>1, <1>2, <1>7
<1>. QED
  BY <1>7, <1>8

\* The last position has the highest rank, the first one rank 1.
LEMMA Extremes ==
  ASSUME NEW n \in Nat, NEW S \in SUBSET (1..n), S # {}
  PROVE  /\ Cardinality(S) >= 1
         /\ \A i \in S : i <= Position(S, Cardinality(S)) /\ Position(S, 1) <= i
<1>1. /\ IsFiniteSet(S) /\ Cardinality(S) \in Nat
      /\ \A i \in S : Rank(S, i) \in 1..Cardinality(S)
      /\ \A i \in S, j \in S : i < j => Rank(S, i) < Rank(S, j)
  BY RankFacts
<1>2. Cardinality(S) >= 1
  BY <1>1, FS_EmptySet
<1>3. \A k \in 1..Cardinality(S) : Position(S, k) \in S /\ Rank(S, Position(S, k)) = k
  BY PositionFacts
<1> DEFINE last  == Position(S, Cardinality(S))
           first == Position(S, 1)
<1>4. last \in S /\ Rank(S, last) = Cardinality(S) /\ first \in S /\ Rank(S, first) = 1
  BY <1>1, <1>2, <1>3
<1>5. ASSUME NEW i \in S PROVE ~(last < i) /\ ~(i < first)
  <2>1. Rank(S, i) \in 1..Cardinality(S)
    BY <1>1
  <2>2. last < i => Rank(S, last) < Rank(S, i)
    BY <1>1, <1>4
  <2>3. i < first => Rank(S, i) < Rank(S, first)
    BY <1>1, <1>4
  <2>. QED
    BY <1>1, <1>4, <2>1, <2>2, <2>3
<1>6. \A i \in S : i \in Int
  OBVIOUS
<1>7. ASSUME NEW i \in S PROVE i <= last /\ first <= i
  <2>1. i \in Int /\ last \in Int /\ first \in Int
    BY <1>4, <1>6
  <2>. QED
    BY <1>5, <2>1
<1>. QED
  BY <1>2, <1>7

\* A position behind all others adds its entry at the end.
LEMMA PickedAppend ==
  ASSUME NEW n \in Nat, NEW S \in SUBSET (1..n), NEW m \in Nat, m > n, NEW seq
  PROVE  /\ Cardinality(S \cup {m}) = Cardinality(S) + 1
         /\ \A i \in S : Rank(S \cup {m}, i) = Rank(S, i)
         /\ Rank(S \cup {m}, m) = Cardinality(S) + 1
         /\ Picked(seq, S \cup {m}) = Append(Picked(seq, S), seq[m])
<1> DEFINE T == S \cup {m}
           c == Cardinality(S)
<1>1. T \in SUBSET (1..m) /\ m \notin S
  OBVIOUS
<1>2. IsFiniteSet(S) /\ c \in Nat /\ \A i \in S : Rank(S, i) \in 1..c
  BY RankFacts
<1>3. Cardinality(T) = c + 1
  BY <1>1, <1>2, FS_AddElement
<1>4. ASSUME NEW i \in S PROVE Rank(T, i) = Rank(S, i)
  <2>1. {j \in T : j <= i} = {j \in S : j <= i}
    OBVIOUS
  <2>. QED
    BY <2>1 DEF Rank
<1>5. Rank(T, m) = c + 1
  <2>1. \A j \in T : j <= m
    OBVIOUS
  <2>2. {j \in T : j <= m} = T
    BY <2>1
  <2>. QED
    BY <2>2, <1>3 DEF Rank
<1>6. ASSUME NEW k \in 1..c PROVE Position(T, k) = Position(S, k)
  <2>1. Position(S, k) \in S /\ Rank(S, Position(S, k)) = k
    BY PositionFacts
  <2>2. Rank(T, Position(S, k)) = k
    BY <1>4, <2>1
  <2>3. \A i \in T : Position(T, Rank(T, i)) = i
    BY <1>1, PositionFacts
  <2>. QED
    BY <2>1, <2>2, <2>3
<1>7. Position(T, c + 1) = m
  <2>1. \A i \in T : Position(T, Rank(T, i)) = i
    BY <1>1, PositionFacts
  <2>. QED
    BY <1>5, <2>1
<1>8. Picked(seq, T) = [k \in 1..c + 1 |-> seq[Position(T, k)]]
  BY <1>3 DEF Picked
<1>9. Append(Picked(seq, S), seq[m])
        = [k \in 1..c + 1 |-> IF k = c + 1 THEN seq[m] ELSE seq[Position(S, k)]]
  BY <1>2 DEF Picked
<1>10. Picked(seq, T) = Append(Picked(seq, S), seq[m])
  <2>1. \A k \in 1..c + 1 : k # c + 1 => k \in 1..c
    BY <1>2
  <2>2. \A k \in 1..c + 1 :
          seq[Position(T, k)] = IF k = c + 1 THEN seq[m] ELSE seq[Position(S, k)]
    BY <2>1, <1>6, <1>7
  <2>. QED
    BY <2>2, <1>8, <1>9
<1>. QED
  BY <1>3, <1>4, <1>5, <1>10

\* An entry that is picked is one of the sequence's.
LEMMA PickedEntries ==
  ASSUME NEW n \in Nat, NEW S \in SUBSET (1..n), NEW seq
  PROVE  /\ DOMAIN Picked(seq, S) = 1..Cardinality(S)
         /\ \A k \in 1..Cardinality(S) :
              Position(S, k) \in S /\ Picked(seq, S)[k] = seq[Position(S, k)]
<1>1. \A k \in 1..Cardinality(S) : Position(S, k) \in S
  BY PositionFacts
<1>. QED
  BY <1>1 DEF Picked

LEMMA PickedType ==
  ASSUME NEW n \in Nat, NEW S \in SUBSET (1..n), NEW seq, NEW T, \A i \in S : seq[i] \in T
  PROVE  Picked(seq, S) \in Seq(T) /\ Len(Picked(seq, S)) = Cardinality(S)
<1>1. Cardinality(S) \in Nat
  BY RankFacts
<1>2. \A k \in 1..Cardinality(S) : seq[Position(S, k)] \in T
  BY PositionFacts
<1>. QED
  BY <1>1, <1>2 DEF Picked

\* All positions: the sequence.
LEMMA PickedAll ==
  ASSUME NEW T, NEW seq \in Seq(T)
  PROVE  Picked(seq, 1..Len(seq)) = seq
<1> DEFINE n == Len(seq)
<1>1. n \in Nat /\ 1 \in Int /\ n \in Int
  OBVIOUS
<1>2. Cardinality(1..n) = n
  BY <1>1, FS_Interval
<1>3. ASSUME NEW i \in 1..n PROVE Rank(1..n, i) = i
  <2>1. {j \in 1..n : j <= i} = 1..i /\ i \in Int /\ ~(1 > i)
    BY <1>1
  <2>2. Cardinality(1..i) = i
    BY <1>1, <2>1, FS_Interval
  <2>. QED
    BY <2>1, <2>2 DEF Rank
<1>4. \A i \in 1..n : Position(1..n, Rank(1..n, i)) = i
  BY <1>1, PositionFacts
<1>5. \A i \in 1..n : seq[Position(1..n, i)] = seq[i]
  BY <1>3, <1>4
<1>. QED
  BY <1>2, <1>5 DEF Picked
-----------------------------------------------------------------------------
(* Which segments stay when the path is one segment longer.                *)

\* What the next segment adds to the balance.
Weight(s) == IF s = DotDot THEN -1 ELSE IF s = Dot THEN 0 ELSE 1

LEMMA BalanceStep ==
  ASSUME NEW path, NEW n \in Nat, NEW i \in 1..n
  PROVE  /\ Balance(path, i, n) \in Int /\ Balance(path, i, i) = 0
         /\ Balance(path, i, n + 1) = Balance(path, i, n) + Weight(path[n + 1])
<1> DEFINE Names(j) == {k \in i + 1..j : path[k] \notin DotSegments}
           Ups(j)   == {k \in i + 1..j : path[k] = DotDot}
<1>1. ASSUME NEW j \in Nat
      PROVE  /\ IsFiniteSet(Names(j)) /\ IsFiniteSet(Ups(j))
             /\ Cardinality(Names(j)) \in Nat /\ Cardinality(Ups(j)) \in Nat
  <2>1. i + 1 \in Int /\ j \in Int
    OBVIOUS
  <2>2. IsFiniteSet(i + 1..j)
    BY <2>1, FS_Interval
  <2>3. Names(j) \in SUBSET (i + 1..j) /\ Ups(j) \in SUBSET (i + 1..j)
    OBVIOUS
  <2>. QED
    BY <2>2, <2>3, FS_Subset, FS_CardinalityType
<1>2. Balance(path, i, n) \in Int
  BY <1>1 DEF Balance
<1>3. Balance(path, i, i) = 0
  <2>1. Names(i) = {} /\ Ups(i) = {}
    OBVIOUS
  <2>2. Cardinality(Names(i)) = 0 /\ Cardinality(Ups(i)) = 0
    BY <2>1, FS_EmptySet
  <2>. QED
    BY <2>2 DEF Balance
<1>4. n + 1 \notin Names(n) /\ n + 1 \notin Ups(n) /\ i + 1..n + 1 = (i + 1..n) \cup {n + 1}
  OBVIOUS
<1> DEFINE names(j) == Cardinality(Names(j))
           ups(j)   == Cardinality(Ups(j))
<1>5. \A j \in Nat : names(j) \in Nat /\ ups(j) \in Nat
  BY <1>1
<1>6. \A j : Balance(path, i, j) = names(j) - ups(j)
  BY DEF Balance
<1>7. CASE path[n + 1] = DotDot
  <2>1. Names(n + 1) = Names(n) /\ Ups(n + 1) = Ups(n) \cup {n + 1}
    BY <1>4, <1>7 DEF DotSegments
  <2>2. Cardinality(Ups(n + 1)) = Cardinality(Ups(n)) + 1
    BY <1>1, <1>4, <2>1, FS_AddElement
  <2>3. names(n + 1) = names(n) /\ ups(n + 1) = ups(n) + 1 /\ Weight(path[n + 1]) = -1
    BY <1>7, <2>1, <2>2 DEF Weight
  <2>. QED
    <3> HIDE DEF names, ups
    <3>. QED
      BY <1>2, <1>3, <1>5, <1>6, <2>3
<1>8. CASE path[n + 1] = Dot
  <2>1. Names(n + 1) = Names(n) /\ Ups(n + 1) = Ups(n)
    BY <1>4, <1>8, SegmentFacts DEF DotSegments, Dot, DotDot
  <2>2. path[n + 1] # DotDot
    BY <1>8 DEF Dot, DotDot
  <2>3. names(n + 1) = names(n) /\ ups(n + 1) = ups(n) /\ Weight(path[n + 1]) = 0
    BY <1>8, <2>1, <2>2 DEF Weight
  <2>. QED
    <3> HIDE DEF names, ups
    <3>. QED
      BY <1>2, <1>3, <1>5, <1>6, <2>3
<1>9. CASE path[n + 1] \notin DotSegments
  <2>1. Names(n + 1) = Names(n) \cup {n + 1} /\ Ups(n + 1) = Ups(n)
    BY <1>4, <1>9 DEF DotSegments
  <2>2. Cardinality(Names(n + 1)) = Cardinality(Names(n)) + 1
    BY <1>1, <1>4, <2>1, FS_AddElement
  <2>3. names(n + 1) = names(n) + 1 /\ ups(n + 1) = ups(n) /\ Weight(path[n + 1]) = 1
    BY <1>9, <2>1, <2>2 DEF Weight, DotSegments
  <2>. QED
    <3> HIDE DEF names, ups
    <3>. QED
      BY <1>2, <1>3, <1>5, <1>6, <2>3
<1>. QED
  BY <1>7, <1>8, <1>9 DEF DotSegments

\* A segment stays if it stayed before and the balance behind it allows it.
LEMMA StayingStep ==
  ASSUME NEW path, NEW n \in Nat
  PROVE  /\ Staying(path, n) \in SUBSET (1..n)
         /\ Staying(path, n + 1)
              = {i \in Staying(path, n) : Balance(path, i, n) + Weight(path[n + 1]) >= 0}
                \cup (IF path[n + 1] \in DotSegments THEN {} ELSE {n + 1})
<1>1. Staying(path, n) \in SUBSET (1..n)
  BY DEF Staying
<1>2. ASSUME NEW i \in 1..n
      PROVE  i \in Staying(path, n + 1)
               <=> i \in Staying(path, n) /\ Balance(path, i, n) + Weight(path[n + 1]) >= 0
  <2>1. i..n + 1 = (i..n) \cup {n + 1}
    OBVIOUS
  <2>2. Balance(path, i, n + 1) = Balance(path, i, n) + Weight(path[n + 1])
    BY BalanceStep
  <2>3. i \in 1..n + 1
    OBVIOUS
  <2>. QED
    BY <2>1, <2>2, <2>3 DEF Staying
<1>3. n + 1 \in Staying(path, n + 1) <=> path[n + 1] \notin DotSegments
  <2>1. n + 1 \in Nat /\ n + 1 \in 1..n + 1 /\ \A j \in n + 1..n + 1 : j = n + 1
    OBVIOUS
  <2>2. Balance(path, n + 1, n + 1) = 0
    BY <2>1, BalanceStep
  <2>3. \A j \in n + 1..n + 1 : Balance(path, n + 1, j) >= 0
    BY <2>1, <2>2
  <2>. QED
    BY <2>1, <2>3 DEF Staying
<1>4. Staying(path, n + 1) \in SUBSET (1..n + 1) /\ 1..n + 1 = (1..n) \cup {n + 1}
  BY DEF Staying
<1>. QED
  BY <1>1, <1>2, <1>3, <1>4

\* Behind a segment that stays there stay as many as the balance says.
Counted(path, n) ==
  \A i \in Staying(path, n) :
    Balance(path, i, n) = Cardinality(Staying(path, n)) - Rank(Staying(path, n), i)

\* ".." takes the last that stays, if there is one.
LEMMA StayingUp ==
  ASSUME NEW path, NEW n \in Nat, path[n + 1] = DotDot, Counted(path, n)
  PROVE  /\ Counted(path, n + 1)
         /\ IF Staying(path, n) = {} THEN Staying(path, n + 1) = {}
            ELSE Staying(path, n + 1)
                   = Staying(path, n) \ {Position(Staying(path, n), Cardinality(Staying(path, n)))}
<1> DEFINE S == Staying(path, n)
           T == Staying(path, n + 1)
           last == Position(S, Cardinality(S))
<1>1. S \in SUBSET (1..n) /\ T = {i \in S : Balance(path, i, n) + (-1) >= 0}
  BY StayingStep DEF Weight, DotSegments
<1>2. CASE S = {}
  BY <1>1, <1>2 DEF Counted
<1>3. CASE S # {}
  <2>1. /\ IsFiniteSet(S) /\ Cardinality(S) \in Nat
        /\ \A i \in S : Rank(S, i) \in 1..Cardinality(S)
        /\ \A i \in S, j \in S : i < j => Rank(S, i) < Rank(S, j)
    BY <1>1, RankFacts
  <2>2. last \in S /\ Rank(S, last) = Cardinality(S) /\ \A i \in S : i <= last
    <3>1. Cardinality(S) >= 1 /\ \A i \in S : i <= last
      BY <1>1, <1>3, Extremes
    <3>2. Cardinality(S) \in 1..Cardinality(S)
      BY <2>1, <3>1
    <3>. QED
      BY <1>1, <3>1, <3>2, PositionFacts
  <2>3. ASSUME NEW i \in S PROVE i \in T <=> i # last
    <3>1. i \in Nat /\ last \in Nat /\ i <= last
      BY <1>1, <2>2
    <3>2. i # last => Rank(S, i) < Cardinality(S)
      BY <2>1, <2>2, <3>1
    <3>3. Balance(path, i, n) = Cardinality(S) - Rank(S, i) /\ Rank(S, i) \in Nat
      BY <2>1 DEF Counted
    <3>. QED
      BY <1>1, <2>1, <2>2, <3>2, <3>3
  <2>4. T = S \ {last}
    BY <1>1, <2>3
  <2>5. Cardinality(T) = Cardinality(S) - 1
    BY <2>1, <2>2, <2>4, FS_RemoveElement
  <2>6. ASSUME NEW i \in T
        PROVE  Balance(path, i, n + 1) = Cardinality(T) - Rank(T, i)
    <3>1. i \in S /\ i \in 1..n /\ last \in 1..n /\ i <= last /\ i # last
      BY <1>1, <2>2, <2>4
    <3>2. ~(last <= i)
      BY <3>1
    <3>3. {j \in T : j <= i} = {j \in S : j <= i}
      BY <2>4, <3>2
    <3>4. Rank(T, i) = Rank(S, i)
      BY <3>3 DEF Rank
    <3>5. Balance(path, i, n + 1) = Balance(path, i, n) + (-1)
      BY <3>1, BalanceStep DEF Weight
    <3>6. Balance(path, i, n) = Cardinality(S) - Rank(S, i) /\ Rank(S, i) \in Nat
      BY <2>1, <3>1 DEF Counted
    <3>. QED
      BY <2>1, <2>5, <3>4, <3>5, <3>6
  <2>. QED
    BY <1>3, <2>4, <2>6 DEF Counted
<1>. QED
  BY <1>2, <1>3

\* "." changes nothing.
LEMMA StayingDot ==
  ASSUME NEW path, NEW n \in Nat, path[n + 1] = Dot, Counted(path, n)
  PROVE  Counted(path, n + 1) /\ Staying(path, n + 1) = Staying(path, n)
<1> DEFINE S == Staying(path, n)
<1>1. Weight(path[n + 1]) = 0 /\ path[n + 1] \in DotSegments
  BY DEF Weight, Dot, DotDot, DotSegments
<1>2. S \in SUBSET (1..n)
  BY StayingStep
<1>3. \A i \in S : Balance(path, i, n) >= 0 /\ Balance(path, i, n) \in Int
  <2> SUFFICES ASSUME NEW i \in S PROVE Balance(path, i, n) >= 0 /\ Balance(path, i, n) \in Int
    OBVIOUS
  <2>1. i \in 1..n /\ n \in i..n
    BY <1>2
  <2>. QED
    BY <2>1, BalanceStep DEF Staying
<1>4. Staying(path, n + 1) = S
  <2>1. \A i \in S : Balance(path, i, n) + Weight(path[n + 1]) >= 0
    BY <1>1, <1>3
  <2>. QED
    BY <1>1, <2>1, StayingStep
<1>5. \A i \in S : Balance(path, i, n + 1) = Balance(path, i, n)
  BY <1>1, <1>2, <1>3, BalanceStep
<1>. QED
  BY <1>4, <1>5 DEF Counted

\* Any other segment stays, and takes none with it.
LEMMA StayingName ==
  ASSUME NEW path, NEW n \in Nat, path[n + 1] \notin DotSegments, Counted(path, n)
  PROVE  Counted(path, n + 1) /\ Staying(path, n + 1) = Staying(path, n) \cup {n + 1}
<1> DEFINE S == Staying(path, n)
           T == S \cup {n + 1}
<1>1. Weight(path[n + 1]) = 1
  BY DEF Weight, DotSegments
<1>2. S \in SUBSET (1..n)
  BY StayingStep
<1>3. \A i \in S : Balance(path, i, n) >= 0 /\ Balance(path, i, n) \in Int
  <2> SUFFICES ASSUME NEW i \in S PROVE Balance(path, i, n) >= 0 /\ Balance(path, i, n) \in Int
    OBVIOUS
  <2>1. i \in 1..n /\ n \in i..n
    BY <1>2
  <2>. QED
    BY <2>1, BalanceStep DEF Staying
<1>4. Staying(path, n + 1) = T
  BY <1>1, <1>3, StayingStep
<1>5. /\ Cardinality(T) = Cardinality(S) + 1
      /\ \A i \in S : Rank(T, i) = Rank(S, i)
      /\ Rank(T, n + 1) = Cardinality(S) + 1
  <2>1. n + 1 \in Nat /\ n + 1 > n
    OBVIOUS
  <2>. QED
    BY <1>2, <2>1, PickedAppend
<1>6. Cardinality(S) \in Nat /\ \A i \in S : Rank(S, i) \in 1..Cardinality(S)
  BY <1>2, RankFacts
<1>7. ASSUME NEW i \in S PROVE Balance(path, i, n + 1) = Cardinality(T) - Rank(T, i)
  <2>1. Balance(path, i, n + 1) = Balance(path, i, n) + 1
    BY <1>1, <1>2, BalanceStep
  <2>2. Balance(path, i, n) = Cardinality(S) - Rank(S, i) /\ Rank(S, i) \in Nat
    BY <1>6 DEF Counted
  <2>. QED
    BY <1>5, <1>6, <2>1, <2>2
<1>8. Balance(path, n + 1, n + 1) = Cardinality(T) - Rank(T, n + 1)
  <2>1. n + 1 \in Nat /\ n + 1 \in 1..n + 1
    OBVIOUS
  <2>2. Balance(path, n + 1, n + 1) = 0
    BY <2>1, BalanceStep
  <2>. QED
    BY <1>5, <1>6, <2>2
<1>. QED
  BY <1>4, <1>7, <1>8 DEF Counted

\* So the count is right at every segment: there is no first one where it fails.
LEMMA AlwaysCounted ==
  ASSUME NEW path, NEW n \in Nat
  PROVE  Counted(path, n)
<1> DEFINE Wrong == {m \in 1..n : ~Counted(path, m)}
           first == Position(Wrong, 1)
<1>1. Counted(path, 0)
  <2>1. Staying(path, 0) = {}
    BY DEF Staying
  <2>. QED
    BY <2>1 DEF Counted
<1>2. CASE Wrong # {}
  <2>1. Wrong \in SUBSET (1..n)
    OBVIOUS
  <2>2. Cardinality(Wrong) >= 1 /\ Cardinality(Wrong) \in Nat /\ \A i \in Wrong : first <= i
    BY <1>2, <2>1, Extremes, RankFacts
  <2>3. first \in Wrong
    <3>1. 1 \in 1..Cardinality(Wrong)
      BY <2>2
    <3>. QED
      BY <2>1, <3>1, PositionFacts
  <2>4. first - 1 \in Nat /\ (first - 1) + 1 = first /\ ~(first <= first - 1) /\ first - 1 <= n
    BY <2>3
  <2>5. first - 1 \notin Wrong
    BY <2>2, <2>4
  <2>6. Counted(path, first - 1)
    BY <1>1, <2>4, <2>5
  <2>7. Counted(path, first)
    <3> DEFINE m == first - 1
    <3>1. m \in Nat /\ m + 1 = first /\ Counted(path, m)
      BY <2>4, <2>6
    <3>2. Counted(path, m + 1)
      <4> HIDE DEF m
      <4>. QED
        BY <3>1, StayingUp, StayingDot, StayingName DEF DotSegments
    <3>. QED
      BY <3>1, <3>2
  <2>. QED
    BY <2>3, <2>7
<1>3. CASE Wrong = {}
  BY <1>1, <1>3
<1>. QED
  BY <1>2, <1>3
-----------------------------------------------------------------------------
(* The walk over a path without "//" follows RFC 3986.                     *)

PlainPath(path) == path \in Seq(Segments) /\ \A i \in 1..Len(path) - 1 : path[i] # Empty

LEMMA StayingType ==
  ASSUME NEW path \in Seq(Segments), NEW n \in 0..Len(path)
  PROVE  /\ Staying(path, n) \in SUBSET (1..n)
         /\ Picked(path, Staying(path, n)) \in Seq(Segments)
         /\ Len(Picked(path, Staying(path, n))) = Cardinality(Staying(path, n))
<1>1. n \in Nat /\ Staying(path, n) \in SUBSET (1..n)
  BY DEF Staying
<1>2. \A i \in Staying(path, n) : path[i] \in Segments
  BY <1>1
<1>. QED
  BY <1>1, <1>2, PickedType

\* Before the last segment nothing empty was kept.
LEMMA KeptNames ==
  ASSUME NEW path, PlainPath(path), NEW n \in 0..Len(path) - 1,
         NEW kept, kept = Picked(path, Staying(path, n))
  PROVE  /\ kept \in Seq(Segments) /\ Len(kept) = Cardinality(Staying(path, n))
         /\ \A k \in 1..Len(kept) : kept[k] # Empty
         /\ Left(path, n) = kept
<1>1. path \in Seq(Segments) /\ n \in 0..Len(path) /\ n \in Nat
  BY DEF PlainPath
<1>2. /\ Staying(path, n) \in SUBSET (1..n)
      /\ kept \in Seq(Segments) /\ Len(kept) = Cardinality(Staying(path, n))
  BY <1>1, StayingType
<1>3. \A i \in Staying(path, n) : path[i] # Empty
  BY <1>1, <1>2 DEF PlainPath
<1>4. \A k \in 1..Len(kept) : kept[k] # Empty
  <2> DEFINE S == Staying(path, n)
  <2>1. n \in Nat /\ S \in SUBSET (1..n)
    BY <1>1, <1>2
  <2>2. \A k \in 1..Cardinality(S) :
          Position(S, k) \in S /\ Picked(path, S)[k] = path[Position(S, k)]
    <3> HIDE DEF S
    <3>. QED
      BY <2>1, PickedEntries
  <2>. QED
    BY <1>2, <1>3, <2>2
<1>5. kept # <<Empty>>
  BY <1>4
<1>. QED
  BY <1>2, <1>4, <1>5 DEF Left

\* ".." undoes the last name.
LEMMA UpOfAppend ==
  ASSUME NEW names \in Seq(Segments), NEW s \in Segments, s # Empty
  PROVE  Up(Append(names, s)) = names
<1> DEFINE segments == Append(names, s)
           filled   == {i \in DOMAIN segments : segments[i] # Empty}
           last     == CHOOSE i \in filled : \A j \in filled : j <= i
<1>1. Len(names) \in Nat /\ DOMAIN segments = 1..Len(names) + 1 /\ segments[Len(names) + 1] = s
  OBVIOUS
<1>2. Len(names) + 1 \in filled /\ \A j \in filled : j \in Nat /\ j <= Len(names) + 1
  BY <1>1
<1>3. last \in filled /\ \A j \in filled : j <= last
  BY <1>2
<1>4. last = Len(names) + 1
  BY <1>2, <1>3
<1>5. Up(segments) = SubSeq(segments, 1, last - 1)
  BY <1>2 DEF Up
<1>6. Up(segments) = SubSeq(segments, 1, Len(names))
  <2>1. last - 1 = Len(names)
    BY <1>1, <1>4
  <2>. QED
    BY <1>5, <2>1
<1>. QED
  BY <1>1, <1>6

LEMMA UpLeft ==
  ASSUME NEW path, PlainPath(path), NEW n \in 0..Len(path) - 1, path[n + 1] = DotDot
  PROVE  Up(Left(path, n)) = Left(path, n + 1)
<1> DEFINE S == Staying(path, n)
           T == Staying(path, n + 1)
           kept == Picked(path, S)
           last == Position(S, Cardinality(S))
<1>1. n \in Nat /\ path \in Seq(Segments) /\ n \in 0..Len(path)
  BY DEF PlainPath
<1>2. /\ kept \in Seq(Segments) /\ Len(kept) = Cardinality(S)
      /\ \A k \in 1..Len(kept) : kept[k] # Empty
      /\ Left(path, n) = kept
  BY KeptNames
<1>3. S \in SUBSET (1..n)
  BY <1>1, StayingType
<1>4. IF S = {} THEN T = {} ELSE T = S \ {last}
  BY <1>1, AlwaysCounted, StayingUp
<1>5. CASE S = {}
  <2>1. Cardinality(S) = 0 /\ Cardinality(T) = 0
    BY <1>4, <1>5, FS_EmptySet
  <2>2. kept = <<>> /\ Picked(path, T) = <<>>
    BY <2>1 DEF Picked
  <2>3. Up(<<>>) = <<>>
    BY DEF Up
  <2>4. Left(path, n + 1) = <<>>
    BY <2>2 DEF Left
  <2>. QED
    BY <1>2, <2>2, <2>3, <2>4
<1>6. CASE S # {}
  <2>1. Cardinality(S) >= 1 /\ Cardinality(S) \in Nat /\ \A i \in S : i <= last
    BY <1>1, <1>3, <1>6, Extremes, RankFacts
  <2>2. last \in S
    <3>1. Cardinality(S) \in 1..Cardinality(S)
      BY <2>1
    <3>. QED
      BY <1>1, <1>3, <3>1, PositionFacts
  <2>3. last \in 1..n /\ last - 1 \in Nat /\ last > last - 1
    BY <1>3, <2>2
  <2>4. T \in SUBSET (1..last - 1)
    <3>1. \A i \in T : i \in S /\ i # last /\ i <= last /\ i \in 1..n
      BY <1>3, <1>4, <1>6, <2>1
    <3>. QED
      BY <2>3, <3>1
  <2>5. S = T \cup {last}
    BY <1>4, <1>6, <2>2
  <2> DEFINE names == Picked(path, T)
  <2>6. kept = Append(names, path[last])
    <3>1. last - 1 \in Nat /\ T \in SUBSET (1..last - 1) /\ last \in Nat /\ last > last - 1
      BY <2>3, <2>4
    <3>2. Picked(path, T \cup {last}) = Append(names, path[last])
      <4> HIDE DEF last, T
      <4>. QED
        BY <3>1, PickedAppend
    <3>. QED
      BY <2>5, <3>2
  <2>7. \A i \in T : path[i] \in Segments
    BY <1>1, <2>3, <2>4
  <2>8. names \in Seq(Segments)
    BY <2>3, <2>4, <2>7, PickedType
  <2>9. path[last] \in Segments /\ path[last] # Empty
    BY <1>1, <2>3 DEF PlainPath
  <2>10. Up(kept) = names
    BY <2>6, <2>8, <2>9, UpOfAppend
  <2>11. names # <<Empty>>
    <3>1. ASSUME names = <<Empty>> PROVE FALSE
      <4>1. Len(kept) = 2 /\ kept[1] = Empty
        <5>1. kept = Append(<<Empty>>, path[last])
          BY <2>6, <3>1
        <5> HIDE DEF kept
        <5>. QED
          BY <5>1
      <4>. QED
        BY <1>2, <4>1
    <3>. QED
      BY <3>1
  <2>. QED
    BY <1>2, <2>10, <2>11 DEF Left
<1>. QED
  BY <1>5, <1>6

\* The other segments: "." goes, names are appended, the empty last segment
\* only if there is a name before it.
LEMMA StepLeft ==
  ASSUME NEW path, PlainPath(path), NEW n \in 0..Len(path) - 1, path[n + 1] # DotDot
  PROVE  Step(Left(path, n), path[n + 1]) = Left(path, n + 1)
<1> DEFINE S == Staying(path, n)
           T == Staying(path, n + 1)
           kept == Picked(path, S)
           s == path[n + 1]
<1>1. n \in Nat /\ path \in Seq(Segments) /\ n \in 0..Len(path) /\ s \in Segments
  BY DEF PlainPath
<1>2. /\ kept \in Seq(Segments)
      /\ \A k \in 1..Len(kept) : kept[k] # Empty
      /\ Left(path, n) = kept
  BY KeptNames
<1>3. S \in SUBSET (1..n) /\ Counted(path, n)
  BY <1>1, StayingType, AlwaysCounted
<1>4. CASE s = Dot
  <2>1. T = S
    BY <1>1, <1>3, <1>4, StayingDot
  <2>2. Left(path, n + 1) = kept
    BY <1>2, <2>1 DEF Left
  <2>. QED
    BY <1>2, <1>4, <2>2 DEF Step
<1>5. CASE s # Dot
  <2>1. T = S \cup {n + 1}
    BY <1>1, <1>3, <1>5, StayingName DEF DotSegments
  <2>2. Picked(path, T) = Append(kept, s)
    <3>1. n \in Nat /\ S \in SUBSET (1..n) /\ n + 1 \in Nat /\ n + 1 > n
      BY <1>1, <1>3
    <3>2. Picked(path, S \cup {n + 1}) = Append(kept, s)
      <4> DEFINE m == n + 1
      <4>1. n \in Nat /\ S \in SUBSET (1..n) /\ m \in Nat /\ m > n
        BY <3>1
      <4>2. Picked(path, S \cup {m}) = Append(Picked(path, S), path[m])
        <5> HIDE DEF S, m
        <5>. QED
          BY <4>1, PickedAppend
      <4>. QED
        BY <4>2
    <3>. QED
      BY <2>1, <3>2
  <2>3. Left(path, n + 1) = IF Append(kept, s) = <<Empty>> THEN <<>> ELSE Append(kept, s)
    BY <2>2 DEF Left
  <2>4. CASE kept = <<>>
    <3>1. Append(kept, s) = <<s>> /\ LastOf(kept) = Empty
      BY <2>4 DEF LastOf
    <3>. QED
      BY <1>2, <1>5, <2>3, <2>4, <3>1 DEF Step
  <2>5. CASE kept # <<>>
    <3>1. LastOf(kept) # Empty /\ Append(kept, s) # <<Empty>>
      BY <1>2, <2>5 DEF LastOf
    <3>. QED
      BY <1>2, <1>5, <2>3, <3>1 DEF Step
  <2>. QED
    BY <2>4, <2>5
<1>. QED
  BY <1>4, <1>5

\* When the path is put together, it is the one RFC 3986 makes.
LEMMA RejoinedByRFC ==
  ASSUME NEW path, PlainPath(path), Len(path) > 0
  PROVE  Rejoined(Left(path, Len(path)), LastOf(path) \in {Empty, Dot, DotDot}) = RFCPath(path)
<1> DEFINE n == Len(path) - 1
           S == Staying(path, n)
           T == Staying(path, Len(path))
           before == Picked(path, S)
           kept == Picked(path, T)
           s == path[Len(path)]
<1>1. /\ n \in Nat /\ n + 1 = Len(path) /\ path \in Seq(Segments) /\ s \in Segments
      /\ n \in 0..Len(path) /\ n \in 0..Len(path) - 1 /\ Len(path) \in 0..Len(path)
      /\ LastOf(path) = s
  BY DEF PlainPath, LastOf
<1>2. /\ before \in Seq(Segments)
      /\ \A k \in 1..Len(before) : before[k] # Empty
      /\ Left(path, n) = before
  BY <1>1, KeptNames
<1>3. S \in SUBSET (1..n) /\ kept \in Seq(Segments)
  BY <1>1, StayingType
<1>4. Counted(path, n)
  BY <1>1, AlwaysCounted
<1>5. CASE s \in DotSegments
  <2>1. T \in SUBSET S
    <3> HIDE DEF n, S, T
    <3>1. n \in Nat /\ T = Staying(path, n + 1) /\ S = Staying(path, n) /\ path[n + 1] = s
      BY <1>1 DEF T, S
    <3>. QED
      BY <1>4, <1>5, <3>1, StayingStep
  <2>2. \A i \in T : path[i] # Empty
    BY <1>1, <1>3, <2>1 DEF PlainPath
  <2>3. \A k \in 1..Len(kept) : kept[k] # Empty
    <3>1. T \in SUBSET (1..n)
      BY <1>3, <2>1
    <3>2. DOMAIN kept = 1..Cardinality(T) /\ Cardinality(T) \in Nat
      BY <1>1, <3>1, PickedEntries, RankFacts
    <3>3. Len(kept) = Cardinality(T)
      BY <1>3, <3>2
    <3>4. \A k \in 1..Cardinality(T) : Position(T, k) \in T /\ kept[k] = path[Position(T, k)]
      <4>1. n \in Nat /\ T \in SUBSET (1..n)
        BY <1>1, <3>1
      <4> HIDE DEF n, T
      <4>. QED
        BY <4>1, PickedEntries
    <3>. QED
      BY <2>2, <3>3, <3>4
  <2>4. kept # <<Empty>> /\ Left(path, Len(path)) = kept
    BY <2>3 DEF Left
  <2>5. RFCPath(path) = Append(kept, Empty)
    BY <1>5 DEF RFCPath
  <2>6. s \in {Empty, Dot, DotDot}
    BY <1>5 DEF DotSegments
  <2>7. CASE kept = <<>>
    BY <1>1, <2>4, <2>5, <2>7 DEF Rejoined
  <2>8. CASE kept # <<>>
    <3>1. LastOf(kept) # Empty
      BY <1>3, <2>3, <2>8 DEF LastOf
    <3>. QED
      BY <1>1, <2>4, <2>5, <2>6, <2>8, <3>1 DEF Rejoined
  <2>. QED
    BY <2>7, <2>8
<1>6. CASE s \notin DotSegments
  <2>1. kept = Append(before, s)
    <3> HIDE DEF n
    <3>1. T = S \cup {n + 1}
      BY <1>1, <1>4, <1>6, StayingName
    <3>2. n \in Nat /\ S \in SUBSET (1..n) /\ n + 1 \in Nat /\ n + 1 > n
      BY <1>1, <1>3
    <3>3. Picked(path, S \cup {n + 1}) = Append(before, path[n + 1])
      <4> DEFINE m == n + 1
      <4>1. n \in Nat /\ S \in SUBSET (1..n) /\ m \in Nat /\ m > n
        BY <3>2
      <4>2. Picked(path, S \cup {m}) = Append(Picked(path, S), path[m])
        <5> HIDE DEF S, m
        <5>. QED
          BY <4>1, PickedAppend
      <4>. QED
        BY <4>2
    <3>. QED
      BY <1>1, <3>1, <3>3
  <2>2. RFCPath(path) = kept
    BY <1>6 DEF RFCPath
  <2>3. kept # <<>> /\ LastOf(kept) = s
    BY <1>1, <1>2, <2>1 DEF LastOf
  <2>4. CASE kept = <<Empty>>
    <3>1. Left(path, Len(path)) = <<>>
      BY <2>4 DEF Left
    <3>. QED
      BY <2>2, <2>4, <3>1 DEF Rejoined
  <2>5. CASE kept # <<Empty>>
    <3>1. Left(path, Len(path)) = kept
      BY <2>5 DEF Left
    <3>2. ~(s \in {Empty, Dot, DotDot} /\ LastOf(kept) # Empty)
      BY <1>6, <2>3 DEF DotSegments
    <3>. QED
      BY <1>1, <2>2, <2>3, <3>1, <3>2 DEF Rejoined
  <2>. QED
    BY <2>4, <2>5
<1>. QED
  BY <1>5, <1>6
-----------------------------------------------------------------------------
(* Two queries are sorted to the same one when the same components occur   *)
(* in them equally often.                                                  *)

Count(parts, s) == Cardinality({i \in DOMAIN parts : parts[i] = s})

\* What was normalized is left alone.
LEMMA Normalized ==
  /\ \A q \in Segments : NormalizePercent(q) \in Seq(Spelled) /\ Len(NormalizePercent(q)) = Len(q)
  /\ \A q \in Seq(Spelled) : q \in Segments /\ NormalizePercent(q) = q
<1>1. /\ \A s \in Symbols : Normalize(s) \in Spelled
      /\ \A s \in Spelled : s \in Symbols /\ Normalize(s) = s
  BY DEF Symbols, Spelled, Normalize
<1>2. ASSUME NEW q \in Seq(Symbols)
      PROVE  NormalizePercent(q) \in Seq(Spelled) /\ Len(NormalizePercent(q)) = Len(q)
  <2>1. NormalizePercent(q) = [i \in 1..Len(q) |-> Normalize(q[i])]
    BY DEF NormalizePercent
  <2>2. \A i \in 1..Len(q) : Normalize(q[i]) \in Spelled
    BY <1>1
  <2>. QED
    BY <2>1, <2>2
<1>3. ASSUME NEW q \in Seq(Spelled)
      PROVE  q \in Seq(Symbols) /\ NormalizePercent(q) = q
  <2>1. \A i \in 1..Len(q) : q[i] \in Symbols /\ Normalize(q[i]) = q[i]
    BY <1>1
  <2>2. q \in Seq(Symbols)
    BY <2>1
  <2>. QED
    BY <2>1, <2>2 DEF NormalizePercent
<1>. QED
  BY <1>2, <1>3 DEF Segments

LEMMA CountType ==
  ASSUME NEW parts \in Seq(Spelled), NEW s
  PROVE  IsFiniteSet({i \in DOMAIN parts : parts[i] = s}) /\ Count(parts, s) \in Nat
<1>1. 1 \in Int /\ Len(parts) \in Int /\ DOMAIN parts = 1..Len(parts)
  OBVIOUS
<1>2. IsFiniteSet(DOMAIN parts)
  BY <1>1, FS_Interval
<1>. QED
  BY <1>2, FS_Subset, FS_CardinalityType DEF Count

LEMMA DisjointSum ==
  ASSUME NEW S, NEW T, IsFiniteSet(S), IsFiniteSet(T), S \cap T = {}
  PROVE  /\ IsFiniteSet(S \cup T)
         /\ Cardinality(S \cup T) = Cardinality(S) + Cardinality(T)
<1>1. /\ IsFiniteSet(S \cup T)
      /\ Cardinality(S \cup T) = Cardinality(S) + Cardinality(T) - Cardinality(S \cap T)
  BY FS_Union
<1>2. Cardinality(S \cap T) = 0
  BY FS_EmptySet
<1>3. Cardinality(S) \in Nat /\ Cardinality(T) \in Nat
  BY FS_CardinalityType
<1>. QED
  BY <1>1, <1>2, <1>3

LEMMA NotAfterCounts ==
  ASSUME NEW parts \in Seq(Spelled)
  PROVE  /\ NotAfter(parts, 0) = 0
         /\ NotAfter(parts, 1) = Count(parts, "%2F")
         /\ NotAfter(parts, 2) = Count(parts, "%2F") + Count(parts, ".")
         /\ NotAfter(parts, 3) = Count(parts, "%2F") + Count(parts, ".") + Count(parts, "a")
         /\ NotAfter(parts, 3) = Len(parts)
<1> DEFINE At(s)    == {i \in DOMAIN parts : parts[i] = s}
           Below(n) == {i \in DOMAIN parts : Ord(parts[i]) <= n}
<1>1. \A s : IsFiniteSet(At(s)) /\ Cardinality(At(s)) \in Nat
  BY CountType DEF Count
<1>2. \A i \in DOMAIN parts : parts[i] \in {"%2F", ".", "a"}
  BY DEF Spelled
<1>3. Ord("%2F") = 1 /\ Ord(".") = 2 /\ Ord("a") = 3
  BY DEF Ord
<1>4. Below(0) = {}
  BY <1>2, <1>3
<1>5. Below(1) = At("%2F")
  BY <1>2, <1>3
<1>6. Below(2) = At("%2F") \cup At(".") /\ At("%2F") \cap At(".") = {}
  BY <1>2, <1>3
<1>7. Below(3) = Below(2) \cup At("a") /\ Below(2) \cap At("a") = {}
  BY <1>2, <1>3
<1>8. Below(3) = 1..Len(parts)
  BY <1>2, <1>3
<1>9. Cardinality({}) = 0
  BY FS_EmptySet
<1> HIDE DEF At, Below
<1>10. /\ IsFiniteSet(Below(2))
       /\ Cardinality(Below(2)) = Cardinality(At("%2F")) + Cardinality(At("."))
  BY <1>1, <1>6, DisjointSum
<1>11. Cardinality(Below(3)) = Cardinality(Below(2)) + Cardinality(At("a"))
  BY <1>1, <1>7, <1>10, DisjointSum
<1>12. Cardinality(Below(3)) = Len(parts)
  <2>1. 1 \in Int /\ Len(parts) \in Nat
    OBVIOUS
  <2>2. Cardinality(1..Len(parts)) = Len(parts)
    BY <2>1, FS_Interval
  <2>. QED
    BY <1>8, <2>2
<1>13. \A n : NotAfter(parts, n) = Cardinality(Below(n))
  BY DEF NotAfter, Below
<1>14. \A s : Count(parts, s) = Cardinality(At(s))
  BY DEF Count, At
<1>. QED
  BY <1>4, <1>5, <1>9, <1>10, <1>11, <1>12, <1>13, <1>14

\* The components in their order: each as often as it occurs.
LEMMA SortedBlocks ==
  ASSUME NEW parts \in Seq(Spelled), NEW x, NEW y,
         x = Count(parts, "%2F"), y = x + Count(parts, ".")
  PROVE  /\ x \in Nat /\ y \in Nat /\ Len(parts) \in Nat /\ x <= y /\ y <= Len(parts)
         /\ Sorted(parts) = [k \in 1..Len(parts) |->
                               IF k <= x THEN "%2F" ELSE IF k <= y THEN "." ELSE "a"]
<1>1. /\ NotAfter(parts, 0) = 0 /\ NotAfter(parts, 1) = x /\ NotAfter(parts, 2) = y
      /\ NotAfter(parts, 3) = Len(parts) /\ Len(parts) = y + Count(parts, "a")
  BY NotAfterCounts
<1>2. x \in Nat /\ y \in Nat /\ x <= y /\ y <= Len(parts) /\ Len(parts) \in Nat
  <2>1. /\ Count(parts, "%2F") \in Nat /\ Count(parts, ".") \in Nat
        /\ Count(parts, "a") \in Nat
    BY CountType
  <2>. QED
    BY <1>1, <2>1
<1>3. Ord("%2F") = 1 /\ Ord(".") = 2 /\ Ord("a") = 3
  BY DEF Ord
<1>4. ASSUME NEW k \in 1..Len(parts)
      PROVE  Sorted(parts)[k] = IF k <= x THEN "%2F" ELSE IF k <= y THEN "." ELSE "a"
  <2> DEFINE Fits(s) == NotAfter(parts, Ord(s) - 1) < k /\ k <= NotAfter(parts, Ord(s))
  <2>1. Sorted(parts)[k] = CHOOSE s \in Spelled : Fits(s)
    BY DEF Sorted
  <2>2. /\ Fits("%2F") <=> k <= x
        /\ Fits(".") <=> x < k /\ k <= y
        /\ Fits("a") <=> y < k
    BY <1>1, <1>2, <1>3
  <2>3. CASE k <= x
    <3>1. \A s \in Spelled : Fits(s) <=> s = "%2F"
      BY <1>2, <2>2, <2>3 DEF Spelled
    <3> HIDE DEF Fits
    <3>. QED
      BY <2>1, <2>3, <3>1 DEF Spelled
  <2>4. CASE ~(k <= x) /\ k <= y
    <3>1. \A s \in Spelled : Fits(s) <=> s = "."
      BY <1>2, <2>2, <2>4 DEF Spelled
    <3> HIDE DEF Fits
    <3>. QED
      BY <2>1, <2>4, <3>1 DEF Spelled
  <2>5. CASE ~(k <= x) /\ ~(k <= y)
    <3>1. \A s \in Spelled : Fits(s) <=> s = "a"
      BY <1>2, <2>2, <2>5 DEF Spelled
    <3> HIDE DEF Fits
    <3>. QED
      BY <2>1, <2>5, <3>1 DEF Spelled
  <2>. QED
    BY <2>3, <2>4, <2>5
<1>5. Sorted(parts) = [k \in 1..Len(parts) |->
                         IF k <= x THEN "%2F" ELSE IF k <= y THEN "." ELSE "a"]
  <2>1. /\ DOMAIN Sorted(parts) = 1..Len(parts)
        /\ Sorted(parts) = [k \in DOMAIN Sorted(parts) |-> Sorted(parts)[k]]
    BY DEF Sorted
  <2>. QED
    BY <1>4, <2>1
<1>. QED
  BY <1>2, <1>5

LEMMA SortedCounts ==
  ASSUME NEW parts \in Seq(Spelled)
  PROVE  /\ Sorted(parts) \in Seq(Spelled)
         /\ \A s \in Spelled : Count(Sorted(parts), s) = Count(parts, s)
<1> DEFINE x == Count(parts, "%2F")
           y == x + Count(parts, ".")
           n == Len(parts)
           sorted == [k \in 1..n |-> IF k <= x THEN "%2F" ELSE IF k <= y THEN "." ELSE "a"]
           At(s) == {k \in DOMAIN sorted : sorted[k] = s}
<1>1. /\ Sorted(parts) = sorted
      /\ x \in Nat /\ y \in Nat /\ n \in Nat /\ x <= y /\ y <= n
  BY SortedBlocks
<1>2. n = y + Count(parts, "a")
  BY NotAfterCounts
<1>3. \A s : Count(parts, s) \in Nat
  BY CountType
<1> HIDE DEF x, y, n
<1>4. sorted \in Seq(Spelled)
  BY <1>1 DEF Spelled
<1>5. At("%2F") = 1..x /\ At(".") = x + 1..y /\ At("a") = y + 1..n
  BY <1>1
<1>6. /\ Cardinality(1..x) = x /\ Cardinality(x + 1..y) = y - x
      /\ Cardinality(y + 1..n) = n - y
  <2>1. 1 \in Int /\ x \in Int /\ x + 1 \in Int /\ y \in Int /\ y + 1 \in Int /\ n \in Int
    BY <1>1
  <2>2. /\ Cardinality(1..x) = IF 1 > x THEN 0 ELSE x - 1 + 1
        /\ Cardinality(x + 1..y) = IF x + 1 > y THEN 0 ELSE y - (x + 1) + 1
        /\ Cardinality(y + 1..n) = IF y + 1 > n THEN 0 ELSE n - (y + 1) + 1
    BY <2>1, FS_Interval
  <2>. QED
    BY <1>1, <2>2
<1>7. \A s : Count(Sorted(parts), s) = Cardinality(At(s))
  BY <1>1 DEF Count
<1>8. x = Count(parts, "%2F") /\ y - x = Count(parts, ".") /\ n - y = Count(parts, "a")
  BY <1>1, <1>2, <1>3 DEF x, y
<1>9. \A s \in Spelled : Cardinality(At(s)) = Count(parts, s)
  BY <1>5, <1>6, <1>8 DEF Spelled
<1>. QED
  BY <1>1, <1>4, <1>7, <1>9

LEMMA OccurrencesAreCounts ==
  ASSUME NEW p \in Seq(Spelled), NEW q \in Seq(Spelled)
  PROVE  Occurrences(p) = Occurrences(q) <=> \A s \in Spelled : Count(p, s) = Count(q, s)
<1>1. \A s \in Symbols : Occurrences(p)[s] = Count(p, s) /\ Occurrences(q)[s] = Count(q, s)
  BY DEF Occurrences, Count
<1>2. Spelled \in SUBSET Symbols
  BY DEF Spelled, Symbols
<1>3. ASSUME NEW s \in Symbols, s \notin Spelled PROVE Count(p, s) = Count(q, s)
  <2>1. \A i \in DOMAIN p : p[i] # s
    BY <1>3
  <2>2. \A i \in DOMAIN q : q[i] # s
    BY <1>3
  <2>3. {i \in DOMAIN p : p[i] = s} = {} /\ {i \in DOMAIN q : q[i] = s} = {}
    BY <2>1, <2>2
  <2>. QED
    BY <2>3 DEF Count
<1>4. ASSUME \A s \in Spelled : Count(p, s) = Count(q, s)
      PROVE  Occurrences(p) = Occurrences(q)
  <2>1. \A s \in Symbols : Count(p, s) = Count(q, s)
    BY <1>3, <1>4
  <2>2. Occurrences(p) = [s \in Symbols |-> Count(p, s)]
    BY DEF Occurrences, Count
  <2>3. Occurrences(q) = [s \in Symbols |-> Count(q, s)]
    BY DEF Occurrences, Count
  <2>. QED
    BY <2>1, <2>2, <2>3
<1>. QED
  BY <1>1, <1>2, <1>4

LEMMA SortedTellsApart ==
  ASSUME NEW p \in Seq(Spelled), NEW q \in Seq(Spelled)
  PROVE  /\ Sorted(p) = Sorted(q) <=> Occurrences(p) = Occurrences(q)
         /\ Occurrences(Sorted(p)) = Occurrences(p)
         /\ Sorted(Sorted(p)) = Sorted(p)
<1>1. ASSUME NEW u \in Seq(Spelled), NEW v \in Seq(Spelled), Occurrences(u) = Occurrences(v)
      PROVE  Sorted(u) = Sorted(v)
  <2>1. \A s \in Spelled : Count(u, s) = Count(v, s)
    BY <1>1, OccurrencesAreCounts
  <2>2. /\ Count(u, "%2F") = Count(v, "%2F") /\ Count(u, ".") = Count(v, ".")
        /\ Count(u, "a") = Count(v, "a")
    BY <2>1 DEF Spelled
  <2>3. Len(u) = Len(v)
    BY <2>2, NotAfterCounts
  <2>. QED
    BY <2>2, <2>3, SortedBlocks
<1>2. \A r \in Seq(Spelled) : Sorted(r) \in Seq(Spelled) /\ Occurrences(Sorted(r)) = Occurrences(r)
  BY SortedCounts, OccurrencesAreCounts
<1>. QED
  BY <1>1, <1>2
-----------------------------------------------------------------------------
(* A reference key stands for one resource.                                *)

LEMMA PlainIsPlain ==
  ASSUME NEW url \in Urls, Plain(url)
  PROVE  PlainPath(Path(url))
<1>1. url.path \in Seq(Segments)
  BY DEF Urls
<1>2. CASE url.path = <<>>
  <2>1. Path(url) = <<Empty>>
    BY <1>2 DEF Path
  <2>. QED
    BY <2>1, SegmentFacts DEF PlainPath
<1>3. CASE url.path # <<>>
  <2>1. Path(url) = [i \in 1..Len(url.path) |-> NormalizePercent(url.path[i])]
    BY <1>1, <1>3 DEF Path
  <2>2. Path(url) \in Seq(Segments) /\ Len(Path(url)) = Len(url.path)
    BY <1>1, <2>1, PathType
  <2>3. ASSUME NEW i \in 1..Len(url.path) - 1 PROVE Path(url)[i] # Empty
    <3>1. url.path[i] \in Segments /\ url.path[i] # Empty /\ i \in 1..Len(url.path)
      BY <1>1 DEF Plain
    <3>2. Len(NormalizePercent(url.path[i])) = Len(url.path[i])
      BY <3>1, Normalized
    <3>3. Len(url.path[i]) # 0
      BY <3>1 DEF Segments, Empty
    <3>. QED
      BY <2>1, <3>1, <3>2, <3>3 DEF Empty
  <2>. QED
    BY <2>2, <2>3 DEF PlainPath
<1>. QED
  BY <1>2, <1>3

\* The path of a key: spelled plainly, not empty and without dot segments.
LEMMA PathSpelled ==
  ASSUME NEW url \in Urls
  PROVE  Path(url) \in Seq(Seq(Spelled)) /\ Len(Path(url)) > 0
<1>1. url.path \in Seq(Segments)
  BY DEF Urls
<1>2. CASE url.path = <<>>
  <2>1. Path(url) = <<Empty>> /\ Empty \in Seq(Spelled)
    BY <1>2 DEF Path, Empty
  <2>. QED
    BY <2>1
<1>3. CASE url.path # <<>>
  <2>1. Path(url) = [i \in 1..Len(url.path) |-> NormalizePercent(url.path[i])]
    BY <1>1, <1>3 DEF Path
  <2>2. \A i \in 1..Len(url.path) : NormalizePercent(url.path[i]) \in Seq(Spelled)
    BY <1>1, Normalized
  <2>. QED
    BY <1>1, <1>3, <2>1, <2>2
<1>. QED
  BY <1>2, <1>3

LEMMA RFCPathType ==
  ASSUME NEW path \in Seq(Seq(Spelled)), Len(path) > 0
  PROVE  /\ RFCPath(path) \in Seq(Seq(Spelled)) /\ Len(RFCPath(path)) > 0
         /\ \A i \in 1..Len(RFCPath(path)) : RFCPath(path)[i] \notin DotSegments
<1> DEFINE n == Len(path)
           S == Staying(path, n)
           kept == Picked(path, S)
<1>1. n \in Nat /\ n \in 1..n /\ S \in SUBSET (1..n)
  BY DEF Staying
<1>2. \A i \in S : path[i] \in Seq(Spelled) /\ path[i] \notin DotSegments
  BY <1>1 DEF Staying
<1>3. kept \in Seq(Seq(Spelled)) /\ Len(kept) = Cardinality(S)
  <2> HIDE DEF n, S
  <2>. QED
    BY <1>1, <1>2, PickedType
<1>4. \A k \in 1..Len(kept) : kept[k] \notin DotSegments
  <2>1. \A k \in 1..Cardinality(S) : Position(S, k) \in S /\ kept[k] = path[Position(S, k)]
    <3> HIDE DEF n, S
    <3>. QED
      BY <1>1, PickedEntries
  <2>. QED
    BY <1>2, <1>3, <2>1
<1>5. Empty \in Seq(Spelled) /\ Empty \notin DotSegments
  BY SegmentFacts DEF Empty, DotSegments
<1>6. CASE path[n] \in DotSegments
  <2>1. RFCPath(path) = Append(kept, Empty)
    BY <1>6 DEF RFCPath
  <2> HIDE DEF kept
  <2>. QED
    BY <1>3, <1>4, <1>5, <2>1
<1>7. CASE path[n] \notin DotSegments
  <2>1. RFCPath(path) = kept
    BY <1>7 DEF RFCPath
  <2>2. n \in S
    <3>1. \A j \in n..n : j = n
      BY <1>1
    <3>2. Balance(path, n, n) = 0
      BY <1>1, BalanceStep
    <3>. QED
      BY <1>1, <1>7, <3>1, <3>2 DEF Staying
  <2>3. Cardinality(S) >= 1
    <3> HIDE DEF n, S
    <3>. QED
      BY <1>1, <2>2, Extremes
  <2>. QED
    BY <1>3, <1>4, <2>1, <2>3
<1>. QED
  BY <1>6, <1>7

\* RFC 3986 has nothing to do for a path without dot segments.
LEMMA RFCPathDone ==
  ASSUME NEW T, NEW path \in Seq(T), Len(path) > 0,
         \A i \in 1..Len(path) : path[i] \notin DotSegments
  PROVE  RFCPath(path) = path
<1> DEFINE n == Len(path)
<1>1. n \in Nat /\ n \in 1..n
  OBVIOUS
<1>2. ASSUME NEW i \in 1..n, NEW j \in i..n PROVE Balance(path, i, j) >= 0
  <2>1. \A k \in i + 1..j : path[k] # DotDot
    <3>1. \A k \in i + 1..j : k \in 1..n
      BY <1>1
    <3>. QED
      BY <3>1 DEF DotSegments
  <2> DEFINE Names == {k \in i + 1..j : path[k] \notin DotSegments}
             Ups   == {k \in i + 1..j : path[k] = DotDot}
  <2>2. Ups = {}
    BY <2>1
  <2>3. Cardinality(Ups) = 0
    BY <2>2, FS_EmptySet
  <2>4. Cardinality(Names) \in Nat
    <3>1. i + 1 \in Int /\ j \in Int
      BY <1>1
    <3>2. IsFiniteSet(i + 1..j) /\ Names \in SUBSET (i + 1..j)
      BY <3>1, FS_Interval
    <3>. QED
      BY <3>2, FS_Subset, FS_CardinalityType
  <2>. QED
    BY <2>3, <2>4 DEF Balance
<1>3. Staying(path, n) = 1..n
  BY <1>2 DEF Staying
<1>4. Picked(path, Staying(path, n)) = path
  BY <1>3, PickedAll
<1>. QED
  BY <1>1, <1>4 DEF RFCPath

LEMMA AuthorityOfPort ==
  ASSUME NEW u \in Urls, NEW v \in Urls, ~Unusable(u), ~Unusable(v)
  PROVE  Authority(u) = Authority(v)
           <=> Scheme(u) = Scheme(v) /\ Host(u) = Host(v) /\ Port(u) = Port(v)
<1>1. /\ Scheme(u) \in {"http", "https"} /\ Scheme(v) \in {"http", "https"}
      /\ u.port \in {"", "80", "443", "8080"} /\ v.port \in {"", "80", "443", "8080"}
  BY DEF Urls, Unusable, Scheme
<1>. QED
  BY <1>1 DEF Authority, Port

LEMMA SameKey ==
  ASSUME NEW u \in Urls, NEW v \in Urls, ~Unusable(u), ~Unusable(v)
  PROVE  SameResource(u, v) <=> ReferenceKey(u) = ReferenceKey(v)
<1>1. u.query \in Segments /\ v.query \in Segments
  BY DEF Urls, Segments
<1>2. Query(u) = Query(v)
        <=> Occurrences(NormalizePercent(u.query)) = Occurrences(NormalizePercent(v.query))
  BY <1>1, Normalized, SortedTellsApart DEF Query
<1>3. ReferenceKey(u) = ReferenceKey(v)
        <=> /\ Scheme(u) = Scheme(v) /\ Host(u) = Host(v) /\ Port(u) = Port(v)
            /\ RFCPath(Path(u)) = RFCPath(Path(v)) /\ Query(u) = Query(v)
  BY DEF ReferenceKey
<1>. QED
  BY <1>2, <1>3, AuthorityOfPort DEF SameResource

\* A reference key is itself a URL, of the same resource, and its own key.
LEMMA KeyIsResource ==
  ASSUME NEW url \in Urls, ~Unusable(url), NEW key, key = ReferenceKey(url)
  PROVE  SameResource(url, key) /\ key = KeyOf(key, key.path)
<1> DEFINE path == RFCPath(Path(url))
           parts == NormalizePercent(url.query)
<1>1. /\ key.scheme = Scheme(url) /\ key.host = Host(url) /\ key.port = Port(url)
      /\ key.path = path /\ key.query = Query(url) /\ key.fragment = FALSE
  BY DEF ReferenceKey
<1>2. /\ path \in Seq(Seq(Spelled)) /\ Len(path) > 0
      /\ \A i \in 1..Len(path) : path[i] \notin DotSegments
  BY PathSpelled, RFCPathType
<1>3. Path(key) = path
  <2>1. Path(key) = [i \in 1..Len(path) |-> NormalizePercent(path[i])]
    <3> HIDE DEF path
    <3>1. path # <<>> /\ DOMAIN path = 1..Len(path)
      BY <1>2
    <3>. QED
      BY <1>1, <3>1 DEF Path
  <2>2. \A i \in 1..Len(path) : NormalizePercent(path[i]) = path[i]
    BY <1>2, Normalized
  <2> HIDE DEF path
  <2>. QED
    BY <1>2, <2>1, <2>2
<1>4. RFCPath(path) = path
  <2> HIDE DEF path
  <2>. QED
    BY <1>2, RFCPathDone
<1>5. Rejoined(path, LastOf(path) \in {Empty, Dot, DotDot}) = path
  <2> HIDE DEF path
  <2>1. path # <<>> /\ LastOf(path) \notin DotSegments
    BY <1>2 DEF LastOf
  <2>. QED
    BY <2>1 DEF Rejoined, DotSegments
<1>6. parts \in Seq(Spelled)
  <2>1. url.query \in Segments
    BY DEF Urls, Segments
  <2>. QED
    BY <2>1, Normalized
<1>7. Query(url) = Sorted(parts) /\ Query(url) \in Seq(Spelled)
  BY <1>6, SortedCounts DEF Query
<1>8. NormalizePercent(key.query) = Query(url)
  BY <1>1, <1>7, Normalized
<1>9. Query(key) = Query(url) /\ Occurrences(NormalizePercent(key.query)) = Occurrences(parts)
  BY <1>6, <1>7, <1>8, SortedTellsApart DEF Query
<1>10. /\ Scheme(url) \in {"http", "https"} /\ url.port \in {"", "80", "443", "8080"}
       /\ Host(url) = "localhost"
  BY DEF Urls, Unusable, Scheme, Host
<1>11. Scheme(key) = Scheme(url) /\ Host(key) = Host(url) /\ Port(key) = Port(url)
  <2>1. Scheme(key) = Scheme(url)
    BY <1>1, <1>10 DEF Scheme
  <2>2. Host(key) = Host(url)
    BY <1>1, <1>10 DEF Host
  <2>3. Port(key) = Port(url)
    <3> HIDE DEF path
    <3>. QED
      BY <1>1, <1>10, <2>1 DEF Port
  <2>. QED
    BY <2>1, <2>2, <2>3
<1>12. Authority(key) = Authority(url)
  BY <1>1, <1>10, <1>11 DEF Authority, Port
<1>13. SameResource(url, key)
  BY <1>3, <1>4, <1>9, <1>12 DEF SameResource
<1>14. KeyOf(key, key.path) = key
  <2>1. KeyOf(key, key.path) = [scheme |-> Scheme(url), host |-> Host(url), port |-> Port(url),
                                path |-> path, query |-> Query(url), fragment |-> FALSE]
    BY <1>1, <1>3, <1>5, <1>9, <1>11 DEF KeyOf
  <2>. QED
    BY <2>1 DEF ReferenceKey
<1>. QED
  BY <1>13, <1>14

\* At the end of the walk over a plain path the key is the reference key.
LEMMA WalkedKey ==
  ASSUME NEW url \in Urls, Plain(url)
  PROVE  KeyOf(url, Left(Path(url), Len(Path(url)))) = ReferenceKey(url)
<1>1. PlainPath(Path(url)) /\ Len(Path(url)) > 0
  BY PlainIsPlain, PathType
<1>2. Rejoined(Left(Path(url), Len(Path(url))), LastOf(Path(url)) \in {Empty, Dot, DotDot})
        = RFCPath(Path(url))
  BY <1>1, RejoinedByRFC
<1>. QED
  BY <1>2 DEF KeyOf, ReferenceKey
-----------------------------------------------------------------------------
(* The result is what the keys' reference says.                            *)

LEMMA ProcessedFacts ==
  ASSUME TypeOK
  PROVE  /\ DOMAIN Processed = 1..next - 1
         /\ next \in Nat /\ next - 1 \in Nat /\ next - 1 <= Len(urls) /\ urls \in Seq(Urls)
         /\ \A i \in 1..next - 1 : urls[i] \in Urls /\ Processed[i] = urls[i]
  BY DEF TypeOK, Processed

\* A key was seen before when a URL before names the same resource.
LEMMA SeenBefore ==
  ASSUME TypeOK, DedupInv, AllPlain, NEW url \in Urls, ~Unusable(url)
  PROVE  ReferenceKey(url) \in seen <=> \E j \in 1..next - 1 : SameResource(urls[j], url)
<1>1. /\ DOMAIN Processed = 1..next - 1
      /\ \A j \in 1..next - 1 : urls[j] \in Urls
  BY ProcessedFacts
<1>2. \A j \in 1..next - 1 : ~Unusable(urls[j])
  BY <1>1 DEF DedupInv
<1>3. \A j \in 1..next - 1 :
        SameResource(urls[j], url) <=> ReferenceKey(urls[j]) = ReferenceKey(url)
  BY <1>1, <1>2, SameKey
<1>4. seen = {ReferenceKey(urls[j]) : j \in 1..next - 1}
  BY <1>1 DEF DedupInv
<1>. QED
  BY <1>3, <1>4

LEMMA InitDedup == Init => DedupInv
<1> SUFFICES ASSUME Init PROVE DedupInv
  OBVIOUS
<1>1. TypeOK
  BY InitInv DEF IInv
<1>2. DOMAIN Processed = {} /\ DOMAIN unique = {} /\ First = {}
  BY <1>1, ProcessedFacts DEF Init, First
<1>3. Picked(urls, First) = <<>>
  BY <1>2, FS_EmptySet DEF Picked
<1>. QED
  BY <1>2, <1>3 DEF Init, DedupInv, KeptSeen

\* Steps that leave the result alone.
LEMMA SameResult ==
  ASSUME DedupInv, UNCHANGED <<urls, next, seen, unique>>,
         pc' = "segments" => /\ ~Unusable(urls[next]) /\ walked' <= Len(Path(urls[next]))
                             /\ Plain(urls[next]) => output' = Left(Path(urls[next]), walked')
  PROVE  DedupInv'
<1>1. Processed' = Processed
  BY DEF Processed
<1>2. AllPlain' = AllPlain /\ First' = First
  BY <1>1 DEF AllPlain, First
<1>. QED
  BY <1>1, <1>2 DEF DedupInv, KeptSeen

LEMMA WalkDedup ==
  ASSUME TypeOK, DedupInv, WalkUp \/ WalkOn
  PROVE  DedupInv'
<1> DEFINE path == Path(urls[next])
<1>1. /\ pc = "segments" /\ walked' = walked + 1 /\ walked < Len(path)
      /\ UNCHANGED <<urls, next, pc, seen, unique>>
  BY DEF WalkUp, WalkOn
<1>2. urls[next] \in Urls /\ path \in Seq(Segments) /\ walked \in Nat
  BY <1>1, AtUrl DEF TypeOK
<1>3. walked \in 0..Len(path) - 1 /\ walked' <= Len(path)
  BY <1>1, <1>2
<1>4. ASSUME Plain(urls[next]) PROVE output' = Left(path, walked')
  <2>1. PlainPath(path) /\ output = Left(path, walked)
    BY <1>1, <1>2, <1>4, PlainIsPlain DEF DedupInv
  <2>2. CASE WalkUp
    <3>1. path[walked + 1] = DotDot /\ output' = Up(output)
      BY <2>2 DEF WalkUp
    <3> HIDE DEF path
    <3>. QED
      BY <1>1, <1>3, <2>1, <3>1, UpLeft
  <2>3. CASE WalkOn
    <3>1. path[walked + 1] # DotDot /\ output' = Step(output, path[walked + 1])
      BY <2>3 DEF WalkOn
    <3> HIDE DEF path
    <3>. QED
      BY <1>1, <1>3, <2>1, <3>1, StepLeft
  <2>. QED
    BY <2>2, <2>3
<1>5. ~Unusable(urls[next])
  BY <1>1 DEF DedupInv
<1>. QED
  BY <1>1, <1>3, <1>4, <1>5, SameResult

LEMMA KeepDedup ==
  ASSUME TypeOK, DedupInv, Keep
  PROVE  DedupInv'
<1> DEFINE url == urls[next]
           key == KeyOf(url, output)
           new == key \notin seen
<1>1. /\ pc = "segments" /\ pc' = "loop" /\ next' = next + 1 /\ urls' = urls
      /\ walked = Len(Path(url))
      /\ seen' = seen \cup {key}
      /\ unique' = IF key \in seen THEN unique ELSE Append(unique, url)
  BY DEF Keep
<1>2. /\ url \in Urls /\ ~Unusable(url) /\ unique \in Seq(Urls) /\ next \in Nat
      /\ next \in 1..Len(urls) /\ urls \in Seq(Urls)
  BY <1>1, AtUrl DEF DedupInv, TypeOK
<1>3. Plain(url) => key = ReferenceKey(url)
  BY <1>1, <1>2, WalkedKey DEF DedupInv
<1>4. DOMAIN Processed = 1..next - 1 /\ DOMAIN Processed' = 1..next
  BY <1>1, <1>2 DEF Processed
<1>5. \A i \in 1..next : i \in 1..next - 1 \/ i = next
  BY <1>2
<1>6. \A i \in DOMAIN Processed' : ~Unusable(urls'[i])
  BY <1>1, <1>2, <1>4, <1>5 DEF DedupInv
<1>7. KeptSeen'
  <2>1. CASE key \in seen
    BY <1>1, <2>1 DEF DedupInv, KeptSeen
  <2>2. CASE key \notin seen
    <3>1. unique' = Append(unique, url)
      BY <1>1, <2>2
    <3>2. /\ DOMAIN unique' = 1..Len(unique) + 1 /\ unique'[Len(unique) + 1] = url
          /\ \A i \in 1..Len(unique) : unique'[i] = unique[i]
          /\ \A i \in 1..Len(unique) + 1 : i \in 1..Len(unique) \/ i = Len(unique) + 1
      BY <1>2, <3>1
    <3>3. Plain(url) => ReferenceKey(url) \in seen'
      BY <1>1, <1>3
    <3>4. DOMAIN unique = 1..Len(unique) /\ KeptSeen
      BY <1>2 DEF DedupInv
    <3>5. \A i \in 1..Len(unique) : /\ ~Unusable(unique[i])
                                    /\ Plain(unique[i]) => ReferenceKey(unique[i]) \in seen'
      BY <1>1, <3>4 DEF KeptSeen
    <3>. QED
      BY <1>2, <3>2, <3>3, <3>5 DEF KeptSeen
  <2>. QED
    BY <2>1, <2>2
<1>8. ASSUME AllPlain'
      PROVE  /\ seen' = {ReferenceKey(urls'[i]) : i \in DOMAIN Processed'}
             /\ unique' = Picked(urls', First')
  <2>1. AllPlain /\ Plain(url)
    BY <1>1, <1>2, <1>4, <1>8 DEF AllPlain
  <2>2. key = ReferenceKey(url)
    BY <1>3, <2>1
  <2>3. seen = {ReferenceKey(urls[i]) : i \in 1..next - 1} /\ unique = Picked(urls, First)
    BY <1>4, <2>1 DEF DedupInv
  <2>4. seen' = {ReferenceKey(urls[i]) : i \in 1..next}
    BY <1>1, <1>2, <1>5, <2>2, <2>3
  <2>5. key \in seen <=> \E j \in 1..next - 1 : SameResource(urls[j], url)
    BY <1>2, <2>1, <2>2, SeenBefore
  <2>6. First' = {i \in 1..next : \A j \in 1..i - 1 : ~SameResource(urls[j], urls[i])}
    BY <1>1, <1>4 DEF First, SameResource
  <2>7. First = {i \in 1..next - 1 : \A j \in 1..i - 1 : ~SameResource(urls[j], urls[i])}
    BY <1>4 DEF First
  <2>8. First' = IF key \in seen THEN First ELSE First \cup {next}
    <3>1. 1..next = (1..next - 1) \cup {next} /\ next \notin 1..next - 1
      BY <1>2
    <3>. QED
      BY <2>5, <2>6, <2>7, <3>1
  <2>9. unique' = Picked(urls, First')
    <3>1. CASE key \in seen
      BY <1>1, <2>3, <2>8, <3>1
    <3>2. CASE key \notin seen
      <4>1. /\ next - 1 \in Nat /\ First \in SUBSET (1..next - 1)
            /\ next \in Nat /\ next > next - 1
        BY <1>2, <2>7
      <4>2. Picked(urls, First \cup {next}) = Append(Picked(urls, First), url)
        BY <4>1, PickedAppend
      <4>. QED
        BY <1>1, <2>3, <2>8, <3>2, <4>2
    <3>. QED
      BY <3>1, <3>2
  <2>. QED
    BY <1>1, <1>4, <2>4, <2>9
<1>. QED
  BY <1>1, <1>6, <1>7, <1>8 DEF DedupInv

LEMMA NextDedup == TypeOK /\ DedupInv /\ [Next]_vars => DedupInv'
<1> SUFFICES ASSUME TypeOK, DedupInv, [Next]_vars PROVE DedupInv'
  OBVIOUS
<1>1. CASE Take
  <2> DEFINE path == Path(urls[next])
  <2>1. /\ UNCHANGED <<urls, next, seen, unique>> /\ walked' = 0 /\ output' = <<>>
        /\ pc' = "segments" => ~Unusable(urls[next])
    BY <1>1 DEF Take
  <2>2. urls[next] \in Urls
    BY <1>1 DEF Take, TypeOK
  <2>3. 0 <= Len(path)
    BY <2>2, PathType
  <2>4. Left(path, 0) = <<>>
    <3>1. Staying(path, 0) = {}
      BY DEF Staying
    <3>2. Cardinality(Staying(path, 0)) = 0
      BY <3>1, FS_EmptySet
    <3>3. Picked(path, Staying(path, 0)) = <<>>
      BY <3>2 DEF Picked
    <3>. QED
      BY <3>3 DEF Left
  <2>. QED
    BY <2>1, <2>3, <2>4, SameResult
<1>2. CASE WalkUp \/ WalkOn
  BY <1>2, WalkDedup
<1>3. CASE Keep
  BY <1>3, KeepDedup
<1>4. CASE Return
  BY <1>4, SameResult DEF Return
<1>5. CASE UNCHANGED vars
  <2>1. UNCHANGED <<urls, next, pc, walked, output, seen, unique>>
    BY <1>5 DEF vars
  <2>. QED
    BY <2>1, SameResult DEF DedupInv
<1>. QED
  BY <1>1, <1>2, <1>3, <1>4, <1>5 DEF Next

\* The walk is where RFC 3986 would be after the segments it has seen, the keys
\* are those of the URLs before, and the result is picked by them, for lists,
\* paths and queries of any length.
THEOREM DedupInvariant == Spec => []DedupInv
<1>1. Spec => []TypeOK
  BY UrlsTypes
<1>. QED
  BY <1>1, InitDedup, NextDedup, PTL DEF Spec

\* deduplicate_urls returns the first spelling of each resource, in order and
\* nothing else, whatever list without "//" in its paths it is given.
THEOREM FirstSpellingsAreKept == Spec => []UniqueAreFirst
<1>1. DedupInv => UniqueAreFirst
  BY DEF DedupInv, UniqueAreFirst
<1>. QED
  BY <1>1, DedupInvariant, PTL

\* The key of a URL that is kept is a URL of the same resource, and what
\* normalize_cache_key makes of that URL is the key again.
THEOREM KeysStandForResources == Spec => []KeysNameTheirResource
<1>1. TypeOK /\ DedupInv => KeysNameTheirResource
  <2> SUFFICES ASSUME TypeOK, DedupInv, NEW i \in DOMAIN unique, Plain(unique[i])
               PROVE  \E key \in seen : SameResource(unique[i], key) /\ key = KeyOf(key, key.path)
    BY DEF KeysNameTheirResource
  <2>1. unique[i] \in Urls
    BY DEF TypeOK
  <2>2. ~Unusable(unique[i]) /\ ReferenceKey(unique[i]) \in seen
    BY DEF DedupInv, KeptSeen
  <2>. QED
    BY <2>1, <2>2, KeyIsResource
<1>. QED
  BY <1>1, UrlsTypes, DedupInvariant, PTL
=============================================================================
