------------------------- MODULE MeetingToolsProofs -------------------------
(***************************************************************************)
(* What the readers of the meeting store are told, proved for every store, *)
(* every configuration and every question: the ids and the answers of the  *)
(* MCP tools (MeetingTools), the excerpts and the prompt of the context    *)
(* assembler (ContextAssembler).                                           *)
(*                                                                         *)
(* What is read is a function of the store, so that most of this rests on  *)
(* IInv of MeetingStoreProofs: ids are unique and in order, hence a search *)
(* returns no segment twice and leaves out only older ones than it lists.  *)
(* Three facts need an invariant of their own.  That an id keeps its       *)
(* meaning for the client that holds it is only inductive together with    *)
(* the id being below the next one to be given out (HeldInv).  The loops   *)
(* of the assembler have one each: the list after some of the terms        *)
(* (Listed), the prompt after some of the pieces (CutOnce).                *)
(*                                                                         *)
(* In order: recursion over a sequence; subsequences; recent and search;   *)
(* the calls of the tools, their ids and their size; the earlier segments  *)
(* of a prompt; the prompt.                                                *)
(***************************************************************************)
EXTENDS MeetingStoreProofs, MeetingTools, ContextAssembler, FiniteSetTheorems

----------------------------------------------------------------------------
(* Recursion over the positions of a sequence: the functions that          *)
(* MeetingTools and ContextAssembler define by it exist.                   *)
Iterates(N, X, a, step) ==
  {f \in [0..N -> X] : f[0] = a /\ \A n \in 1..N : f[n] = step[n][f[n - 1]]}

LEMMA Recursion ==
  ASSUME NEW N \in Nat, NEW X, NEW a \in X, NEW step \in [1..N -> [X -> X]]
  PROVE  Iterates(N, X, a, step) # {}
<1> DEFINE Upto(k) == Iterates(k, X, a, step)
           Good == {k \in Nat : k <= N => Upto(k) # {}}
<1>1. 0 \in Good
  <2>1. [i \in 0..0 |-> a] \in Upto(0)
    BY DEF Iterates
  <2> QED BY <2>1
<1>2. ASSUME NEW k \in Nat, k \in Good
      PROVE  k + 1 \in Good
  <2>1. CASE k + 1 <= N
    <3>1. PICK f \in Upto(k) : TRUE
      BY <1>2, <2>1
    <3>2. f[k] \in X
      BY <3>1 DEF Iterates
    <3>3. step[k + 1][f[k]] \in X
      <4>1. step[k + 1] \in [X -> X]
        BY <2>1
      <4> QED BY <3>2, <4>1
    <3> DEFINE g == [i \in 0..(k + 1) |->
                       IF i = k + 1 THEN step[k + 1][f[k]] ELSE f[i]]
    <3>4. g \in [0..(k + 1) -> X]
      BY <3>1, <3>3 DEF Iterates
    <3>5. g[0] = a
      BY <3>1 DEF Iterates
    <3>6. \A n \in 1..(k + 1) : g[n] = step[n][g[n - 1]]
      BY <3>1 DEF Iterates
    <3>7. g \in Upto(k + 1)
      BY <3>4, <3>5, <3>6 DEF Iterates
    <3>8. Upto(k + 1) # {}
      BY <3>7
    <3> HIDE DEF Upto
    <3> QED BY <3>8
  <2>2. CASE ~(k + 1 <= N)
    BY <2>2
  <2> QED BY <2>1, <2>2
<1>3. Nat \subseteq Good
  <2> HIDE DEF Good
  <2> QED BY <1>1, <1>2, SetInduction
<1>4. N \in Good
  <2> HIDE DEF Good
  <2> QED BY <1>3
<1> QED BY <1>4

----------------------------------------------------------------------------
(* Subsequences. *)

(* The positions of s a subsequence t is made of: `at` lists those in P    *)
(* among the first n, in their order.                                      *)
Lists(at, t, s, P, n) ==
  /\ at \in [1..Len(t) -> P \intersect (1..n)]
  /\ \A j, k \in 1..Len(t) : j < k => at[j] < at[k]
  /\ \A k \in 1..Len(t) : t[k] = s[at[k]]
  /\ \A i \in P \intersect (1..n) : \E k \in 1..Len(t) : at[k] = i

LEMMA SubsequenceProperties ==
  ASSUME NEW S, NEW s \in Seq(S), NEW P
  PROVE  /\ Subsequence(s, P) \in Seq(S)
         /\ \E at : Lists(at, Subsequence(s, P), s, P, Len(s))
<1> DEFINE Rec(g) == [n \in 0..Len(s) |->
                        IF n = 0 THEN << >>
                        ELSE IF n \in P THEN Append(g[n - 1], s[n]) ELSE g[n - 1]]
           F == CHOOSE g : g = Rec(g)
           step == [n \in 1..Len(s) |-> [x \in Seq(S) |->
                      IF n \in P THEN Append(x, s[n]) ELSE x]]
<1>1. Len(s) \in Nat /\ \A n \in 1..Len(s) : s[n] \in S
  BY LenProperties, ElementOfSeq
<1>2. Subsequence(s, P) = F[Len(s)]
  BY DEF Subsequence
<1>3. \E g : g = Rec(g)
  <2>1. step \in [1..Len(s) -> [Seq(S) -> Seq(S)]]
    BY <1>1, AppendProperties
  <2>2. << >> \in Seq(S)
    OBVIOUS
  <2>3. PICK f \in Iterates(Len(s), Seq(S), << >>, step) : TRUE
    <3> HIDE DEF step
    <3> QED BY <1>1, <2>1, <2>2, Recursion
  <2>4. \A n \in 1..Len(s) :
          f[n] = IF n \in P THEN Append(f[n - 1], s[n]) ELSE f[n - 1]
    <3> TAKE n \in 1..Len(s)
    <3>1. f[n - 1] \in Seq(S)
      BY <1>1, <2>3 DEF Iterates
    <3> QED BY <2>3, <3>1 DEF Iterates
  <2>5. f = Rec(f)
    <3> HIDE DEF step
    <3>1. f = [n \in 0..Len(s) |-> f[n]] /\ f[0] = << >>
      BY <2>3 DEF Iterates
    <3>2. \A n \in 0..Len(s) : f[n] = Rec(f)[n]
      <4> TAKE n \in 0..Len(s)
      <4>1. CASE n = 0
        BY <3>1, <4>1
      <4>2. CASE n \in 1..Len(s)
        BY <1>1, <2>4, <4>2
      <4> QED BY <1>1, <4>1, <4>2
    <3> QED BY <3>1, <3>2
  <2> QED BY <2>5
<1>4. F = Rec(F)
  <2> HIDE DEF Rec
  <2> QED BY <1>3
<1> HIDE DEF F
<1>5. F[0] = << >>
  BY <1>1, <1>4
<1>6. \A n \in 1..Len(s) :
        F[n] = IF n \in P THEN Append(F[n - 1], s[n]) ELSE F[n - 1]
  <2> TAKE n \in 1..Len(s)
  <2>1. Rec(F)[n] = IF n \in P THEN Append(F[n - 1], s[n]) ELSE F[n - 1]
    BY <1>1
  <2> HIDE DEF Rec
  <2> QED BY <1>4, <2>1
<1> HIDE DEF Rec, step
<1> DEFINE Good == {n \in Nat : n <= Len(s) =>
                      /\ F[n] \in Seq(S)
                      /\ \E at : Lists(at, F[n], s, P, n)}
<1>7. 0 \in Good
  <2>1. Lists(<< >>, << >>, s, P, 0)
    BY DEF Lists
  <2>2. \E at : Lists(at, F[0], s, P, 0)
    BY <1>5, <2>1
  <2>3. F[0] \in Seq(S)
    BY <1>5
  <2> QED BY <2>2, <2>3
<1>8. ASSUME NEW n \in Nat, n \in Good
      PROVE  n + 1 \in Good
  <2> SUFFICES ASSUME n + 1 <= Len(s)
               PROVE  /\ F[n + 1] \in Seq(S)
                      /\ \E at : Lists(at, F[n + 1], s, P, n + 1)
    OBVIOUS
  <2>1. F[n] \in Seq(S) /\ Len(F[n]) \in Nat
    BY <1>1, <1>8, LenProperties
  <2>2. PICK at : Lists(at, F[n], s, P, n)
    BY <1>1, <1>8
  <2>3. F[n + 1] = IF n + 1 \in P THEN Append(F[n], s[n + 1]) ELSE F[n]
    BY <1>1, <1>6
  <2>4. CASE n + 1 \notin P
    <3>1. P \intersect (1..(n + 1)) = P \intersect (1..n)
      BY <2>4
    <3>2. Lists(at, F[n + 1], s, P, n + 1)
      BY <2>2, <2>3, <2>4, <3>1 DEF Lists
    <3> QED BY <2>1, <2>3, <2>4, <3>2
  <2>5. CASE n + 1 \in P
    <3> DEFINE t == Append(F[n], s[n + 1])
               m == Len(F[n])
               new == [k \in 1..(m + 1) |-> IF k = m + 1 THEN n + 1 ELSE at[k]]
    <3>1. /\ t \in Seq(S) /\ Len(t) = m + 1
          /\ \A k \in 1..m : t[k] = F[n][k]
          /\ t[m + 1] = s[n + 1]
      BY <1>1, <2>1, AppendProperties
    <3> HIDE DEF t
    <3>2. /\ at \in [1..m -> P \intersect (1..n)]
          /\ \A j, k \in 1..m : j < k => at[j] < at[k]
          /\ \A k \in 1..m : F[n][k] = s[at[k]]
          /\ \A i \in P \intersect (1..n) : \E k \in 1..m : at[k] = i
      BY <2>2 DEF Lists
    <3>3. new \in [1..(m + 1) -> P \intersect (1..(n + 1))]
      BY <2>1, <2>5, <3>2
    <3>4. \A j, k \in 1..(m + 1) : j < k => new[j] < new[k]
      <4> TAKE j, k \in 1..(m + 1)
      <4> HAVE j < k
      <4>1. j \in 1..m /\ at[j] \in 1..n
        BY <2>1, <3>2
      <4>2. CASE k = m + 1
        BY <2>1, <4>1, <4>2
      <4>3. CASE k # m + 1
        BY <2>1, <3>2, <4>1, <4>3
      <4> QED BY <4>2, <4>3
    <3>5. \A k \in 1..(m + 1) : t[k] = s[new[k]]
      BY <2>1, <3>1, <3>2
    <3>6. \A i \in P \intersect (1..(n + 1)) : \E k \in 1..(m + 1) : new[k] = i
      <4> TAKE i \in P \intersect (1..(n + 1))
      <4>1. CASE i = n + 1
        <5>1. m + 1 \in 1..(m + 1) /\ new[m + 1] = i
          BY <2>1, <4>1
        <5> QED BY <5>1
      <4>2. CASE i # n + 1
        <5>1. PICK k \in 1..m : at[k] = i
          BY <3>2, <4>2
        <5>2. k \in 1..(m + 1) /\ new[k] = i
          BY <2>1, <5>1
        <5> QED BY <5>2
      <4> QED BY <4>1, <4>2
    <3> HIDE DEF new
    <3>7. Lists(new, t, s, P, n + 1)
      BY <3>1, <3>3, <3>4, <3>5, <3>6 DEF Lists
    <3> QED BY <2>3, <2>5, <3>1, <3>7 DEF t
  <2> QED BY <2>4, <2>5
<1>9. Nat \subseteq Good
  <2> HIDE DEF Good
  <2> QED BY <1>7, <1>8, SetInduction
<1>10. Len(s) \in Good
  <2> HIDE DEF Good
  <2> QED BY <1>1, <1>9
<1> QED BY <1>1, <1>2, <1>10

----------------------------------------------------------------------------
(* The members of a sequence. *)
LEMMA MembersOfSeq ==
  ASSUME NEW S, NEW s \in Seq(S)
  PROVE  /\ Len(s) \in Nat
         /\ Range(s) = {s[i] : i \in 1..Len(s)}
         /\ Range(s) \subseteq S
         /\ IsFiniteSet(Range(s))
         /\ Cardinality(Range(s)) <= Len(s)
<1>1. Len(s) \in Nat /\ DOMAIN s = 1..Len(s) /\ \A i \in 1..Len(s) : s[i] \in S
  BY LenProperties, ElementOfSeq
<1>2. Range(s) = {s[i] : i \in 1..Len(s)}
  BY <1>1 DEF Range
<1>3. s \in Surjection(1..Len(s), Range(s))
  <2>1. s = [i \in 1..Len(s) |-> s[i]]
    BY <1>1
  <2>2. s \in [1..Len(s) -> Range(s)]
    BY <1>2, <2>1
  <2> QED BY <1>2, <2>2 DEF Surjection
<1>4. IsFiniteSet(1..Len(s)) /\ Cardinality(1..Len(s)) = Len(s)
  <2>1. PICK n \in Nat : n = Len(s)
    BY <1>1
  <2>2. /\ IsFiniteSet(1..n)
        /\ Cardinality(1..n) = IF 1 > n THEN 0 ELSE n - 1 + 1
    BY FS_Interval
  <2>3. Cardinality(1..n) = n
    BY <2>2
  <2> QED BY <2>1, <2>2, <2>3
<1>5. IsFiniteSet(Range(s)) /\ Cardinality(Range(s)) <= Cardinality(1..Len(s))
  BY <1>3, <1>4, FS_Surjection
<1>6. Range(s) \subseteq S
  BY <1>1, <1>2
<1>7. Cardinality(Range(s)) <= Len(s)
  BY <1>4, <1>5
<1> QED BY <1>1, <1>2, <1>5, <1>6, <1>7

(* Segments are numbered in the order they are kept in.                    *)
LEMMA SegmentsInOrder ==
  ASSUME IInv
  PROVE  /\ segments \in Seq(Segments) /\ Len(segments) \in Nat
         /\ \A i \in 1..Len(segments) :
              /\ segments[i] \in Segments
              /\ segments[i].id < nextSegmentId
         /\ \A i, j \in 1..Len(segments) :
              i < j => segments[i].id < segments[j].id
<1>1. /\ segments \in Seq(Segments) /\ nextSegmentId \in Nat
      /\ \A i \in 1..Len(segments) :
           segments[i].id = nextSegmentId - 1 - Len(segments) + i
  BY DEF IInv, TypeOK, IdsAreContiguous
<1>2. Len(segments) \in Nat /\ \A i \in 1..Len(segments) : segments[i] \in Segments
  BY <1>1, LenProperties, ElementOfSeq
<1> QED BY <1>1, <1>2

----------------------------------------------------------------------------
(* What recent and search return. *)

LEMMA RecentProperties ==
  ASSUME IInv, NEW limit \in Nat
  PROVE  /\ Recent(limit) \in Seq(Segments)
         /\ Len(Recent(limit)) = Min({limit, Len(segments)})
         /\ \A k \in 1..Len(Recent(limit)) :
              Recent(limit)[k] = segments[Len(segments) - Len(Recent(limit)) + k]
<1> DEFINE n == SaturatingSub(Len(segments), limit)
<1>1. segments \in Seq(Segments) /\ Len(segments) \in Nat
  BY SegmentsInOrder
<1>2. n \in 0..Len(segments) /\ Len(segments) - n = Min({limit, Len(segments)})
  BY <1>1, MinOfTwo DEF SaturatingSub
<1> HIDE DEF n
<1>3. /\ DropFirst(segments, n) \in Seq(Segments)
      /\ Len(DropFirst(segments, n)) = Len(segments) - n
      /\ \A i \in 1..(Len(segments) - n) : DropFirst(segments, n)[i] = segments[i + n]
  BY <1>1, <1>2, DropFirstProperties
<1>4. Recent(limit) = DropFirst(segments, n)
  BY DEF Recent, n
<1>5. \A k \in 1..Len(Recent(limit)) :
        Recent(limit)[k] = segments[Len(segments) - Len(Recent(limit)) + k]
  <2> TAKE k \in 1..Len(Recent(limit))
  <2>1. Len(Recent(limit)) = Len(segments) - n
    BY <1>3, <1>4
  <2>2. k \in 1..(Len(segments) - n)
    BY <2>1
  <2>3. Recent(limit)[k] = segments[k + n]
    BY <1>3, <1>4, <2>2
  <2>4. Len(segments) - Len(Recent(limit)) + k = k + n
    BY <1>1, <1>2, <2>1, <2>2
  <2> QED BY <2>3, <2>4
<1> QED BY <1>2, <1>3, <1>4, <1>5

\* The segments after `old` that contain the query.
NewerWith(query, old) ==
  {s \in Range(segments) : s.id > old.id /\ query \in Mentions[s.text]}

(* What search returns is in the order of the ids and contains the query;  *)
(* a segment with the query that is missing has `limit` newer ones.        *)
LEMMA SearchProperties ==
  ASSUME IInv, NEW query, NEW limit \in Nat
  PROVE  LET found == Search(query, limit)
         IN  /\ found \in Seq(Segments) /\ Len(found) <= limit
             /\ \A j, k \in 1..Len(found) : j < k => found[j].id < found[k].id
             /\ \A k \in 1..Len(found) :
                  /\ found[k] \in Range(segments)
                  /\ query \in Mentions[found[k].text]
             /\ \A old \in Range(segments) : query \in Mentions[old.text] =>
                  \/ old \in Range(found)
                  \/ Cardinality(NewerWith(query, old)) >= limit
<1> DEFINE P == {i \in 1..Len(segments) : query \in Mentions[segments[i].text]}
           hits == Subsequence(segments, P)
           d == SaturatingSub(Len(hits), limit)
           found == DropFirst(hits, d)
<1>1. /\ segments \in Seq(Segments) /\ Len(segments) \in Nat
      /\ \A i \in 1..Len(segments) : segments[i] \in Segments
      /\ \A i, j \in 1..Len(segments) : i < j => segments[i].id < segments[j].id
      /\ Range(segments) = {segments[i] : i \in 1..Len(segments)}
      /\ IsFiniteSet(Range(segments))
  BY SegmentsInOrder, MembersOfSeq
<1>2. Search(query, limit) = found
  BY DEF Search
<1>3. hits \in Seq(Segments) /\ \E at : Lists(at, hits, segments, P, Len(segments))
  <2> HIDE DEF P
  <2> QED BY <1>1, SubsequenceProperties
<1>4. Len(hits) \in Nat
  BY <1>3, LenProperties
<1> HIDE DEF hits
<1>5. PICK at : Lists(at, hits, segments, P, Len(segments))
  BY <1>3
<1>6. /\ at \in [1..Len(hits) -> P]
      /\ \A j, k \in 1..Len(hits) : j < k => at[j] < at[k]
      /\ \A k \in 1..Len(hits) : hits[k] = segments[at[k]]
      /\ \A i \in P : \E k \in 1..Len(hits) : at[k] = i
  BY <1>1, <1>5 DEF Lists
<1>7. d \in 0..Len(hits) /\ Len(hits) - d <= limit /\ (d > 0 => Len(hits) - d = limit)
  BY <1>4 DEF SaturatingSub
<1> HIDE DEF d
<1>8. /\ found \in Seq(Segments) /\ Len(found) = Len(hits) - d
      /\ \A k \in 1..Len(found) : found[k] = hits[k + d]
  BY <1>3, <1>7, DropFirstProperties
<1> HIDE DEF found
<1>9. \A k \in 1..Len(found) : k + d \in 1..Len(hits) /\ at[k + d] \in P
  BY <1>4, <1>6, <1>7, <1>8
<1>10. \A k \in 1..Len(found) :
         /\ found[k] \in Range(segments)
         /\ query \in Mentions[found[k].text]
  <2> TAKE k \in 1..Len(found)
  <2>1. found[k] = segments[at[k + d]]
    BY <1>6, <1>8, <1>9
  <2>2. at[k + d] \in P
    BY <1>9
  <2> QED BY <1>1, <2>1, <2>2
<1>11. \A j, k \in 1..Len(found) : j < k => found[j].id < found[k].id
  <2> TAKE j, k \in 1..Len(found)
  <2> HAVE j < k
  <2>1. found[j] = segments[at[j + d]] /\ found[k] = segments[at[k + d]]
    BY <1>6, <1>8, <1>9
  <2>2. at[j + d] < at[k + d]
    BY <1>6, <1>7, <1>8, <1>9
  <2> QED BY <1>1, <1>9, <2>1, <2>2
<1>12. ASSUME NEW old \in Range(segments), query \in Mentions[old.text],
              old \notin Range(found)
       PROVE  Cardinality(NewerWith(query, old)) >= limit
  <2>1. PICK i \in 1..Len(segments) : old = segments[i]
    BY <1>1
  <2>2. PICK k \in 1..Len(hits) : at[k] = i
    BY <1>6, <1>12, <2>1
  <2>3. k <= d
    <3>1. SUFFICES ASSUME k > d PROVE FALSE
      BY <1>4, <1>7
    <3>2. k - d \in 1..Len(found) /\ found[k - d] = old
      BY <1>4, <1>6, <1>7, <1>8, <2>1, <2>2, <3>1
    <3>3. Range(found) = {found[j] : j \in 1..Len(found)}
      BY <1>8, MembersOfSeq
    <3> QED BY <1>12, <3>2, <3>3
  <2>4. Len(found) = limit
    BY <1>4, <1>7, <1>8, <2>3
  <2> DEFINE T == NewerWith(query, old)
             f == [j \in 1..limit |-> found[j]]
  <2>5. \A j \in 1..limit : found[j] \in T
    <3> TAKE j \in 1..limit
    <3>1. found[j] = segments[at[j + d]] /\ at[j + d] \in P
      BY <1>6, <1>8, <1>9, <2>4
    <3>2. i < at[j + d]
      <4>1. k \in 1..Len(hits) /\ j + d \in 1..Len(hits) /\ k < j + d
        BY <1>4, <1>7, <1>9, <2>3, <2>4
      <4>2. at[k] < at[j + d]
        BY <1>6, <4>1
      <4> QED BY <2>2, <4>2
    <3>3. found[j].id > old.id
      <4>1. at[j + d] \in 1..Len(segments)
        BY <3>1
      <4>2. segments[i].id < segments[at[j + d]].id
        BY <1>1, <2>1, <3>2, <4>1
      <4>3. segments[i].id \in Nat /\ segments[at[j + d]].id \in Nat
        BY <1>1, <4>1 DEF Segments
      <4> QED BY <2>1, <3>1, <4>2, <4>3
    <3> QED BY <1>10, <2>4, <3>3 DEF NewerWith
  <2>6. f \in Injection(1..limit, T)
    <3>1. f \in [1..limit -> T]
      BY <2>5
    <3>2. ASSUME NEW j \in 1..limit, NEW m \in 1..limit, j # m
          PROVE  f[j] # f[m]
      <4>1. found[j].id \in Nat /\ found[m].id \in Nat
        <5>1. found[j] \in Segments /\ found[m] \in Segments
          BY <1>8, <2>4, ElementOfSeq
        <5> QED BY <5>1 DEF Segments
      <4>2. found[j].id # found[m].id
        BY <1>11, <2>4, <3>2, <4>1
      <4> QED BY <4>2
    <3> QED BY <3>1, <3>2 DEF Injection, IsInjective
  <2>7. IsFiniteSet(T)
    BY <1>1, FS_Subset DEF NewerWith
  <2>8. Cardinality(1..limit) = limit
    BY FS_Interval
  <2>9. Cardinality(1..limit) <= Cardinality(T)
    <3> HIDE DEF T, f
    <3> QED BY <2>6, <2>7, FS_Injection
  <2>10. Cardinality(T) \in Nat
    BY <2>7, FS_CardinalityType
  <2> QED BY <2>8, <2>9, <2>10
<1> QED BY <1>2, <1>7, <1>8, <1>10, <1>11, <1>12

----------------------------------------------------------------------------
(* The tools: what a call returns. *)

\* The larger of two numbers.
LEMMA MaxOfPair ==
  ASSUME NEW m \in Nat, NEW n \in Nat
  PROVE  Max({m, n}) = IF m >= n THEN m ELSE n
<1>1. CASE m >= n
  <2>1. \E x \in {m, n} : \A y \in {m, n} : x >= y
    BY <1>1
  <2>2. Max({m, n}) \in {m, n} /\ \A y \in {m, n} : Max({m, n}) >= y
    BY <2>1 DEF Max
  <2> QED BY <1>1, <2>2
<1>2. CASE n > m
  <2>1. \E x \in {m, n} : \A y \in {m, n} : x >= y
    BY <1>2
  <2>2. Max({m, n}) \in {m, n} /\ \A y \in {m, n} : Max({m, n}) >= y
    BY <2>1 DEF Max
  <2> QED BY <1>2, <2>2
<1> QED BY <1>1, <1>2

LEMMA BoundedLimitType ==
  ASSUME NEW arg \in LimitArgs \union {NoLimit}
  PROVE  BoundedLimit(arg) \in 1..MaxResults
<1> DEFINE wanted == IF arg = NoLimit THEN Min({MaxResults, DefaultResults}) ELSE arg
<1>1. MaxResults \in Nat \ {0} /\ DefaultResults \in Nat \ {0}
  BY ToolsConfig
<1>2. wanted \in Nat
  BY <1>1, MinOfTwo, ToolsConfig
<1> HIDE DEF wanted
<1> DEFINE capped == Min({wanted, MaxResults})
<1>3. capped \in 0..MaxResults
  BY <1>1, <1>2, MinOfTwo
<1> HIDE DEF capped
<1>4. Max({1, capped}) = IF 1 >= capped THEN 1 ELSE capped
  BY <1>1, <1>3, MaxOfPair
<1>5. Max({1, capped}) \in 1..MaxResults
  BY <1>1, <1>3, <1>4
<1> QED BY <1>5 DEF BoundedLimit, wanted, capped

(* A call returns retained segments, at most as many as asked for, and one *)
(* for an id: ids are unique.                                              *)
LEMMA FoundProperties ==
  ASSUME IInv, NEW req \in Calls
  PROVE  /\ Found(req) \in Seq(Segments)
         /\ Range(Found(req)) \subseteq Range(segments)
         /\ Len(Found(req)) <= MaxResults
         /\ Len(Found(req)) <= IF req.tool \in {"recent", "search"}
                               THEN BoundedLimit(req.limit) ELSE 1
<1> USE DEF Calls
<1>1. /\ segments \in Seq(Segments) /\ Len(segments) \in Nat
      /\ Range(segments) = {segments[i] : i \in 1..Len(segments)}
      /\ \A i, j \in 1..Len(segments) : i < j => segments[i].id < segments[j].id
      /\ \A i \in 1..Len(segments) : segments[i].id \in Nat
  <2>1. \A i \in 1..Len(segments) : segments[i].id \in Nat
    BY SegmentsInOrder DEF Segments
  <2> QED BY <2>1, SegmentsInOrder, MembersOfSeq
<1>2. MaxResults \in Nat \ {0}
  BY ToolsConfig
<1>3. CASE req.tool = "recent"
  <2> DEFINE n == BoundedLimit(req.limit)
  <2>1. n \in 1..MaxResults
    BY <1>3, BoundedLimitType
  <2> HIDE DEF n
  <2>2. n \in Nat
    BY <1>2, <2>1
  <2>3. Found(req) = Recent(n)
    BY <1>3 DEF Found, n
  <2>4. /\ Recent(n) \in Seq(Segments)
        /\ Len(Recent(n)) = Min({n, Len(segments)})
        /\ \A k \in 1..Len(Recent(n)) :
             Recent(n)[k] = segments[Len(segments) - Len(Recent(n)) + k]
    BY <2>2, RecentProperties
  <2>5. Len(Recent(n)) <= n /\ Len(Recent(n)) \in 0..Len(segments)
    BY <1>1, <2>2, <2>4, MinOfTwo
  <2>6. Range(Recent(n)) \subseteq Range(segments)
    <3>1. Range(Recent(n)) = {Recent(n)[k] : k \in 1..Len(Recent(n))}
      BY <2>4, MembersOfSeq
    <3>2. \A k \in 1..Len(Recent(n)) :
            Len(segments) - Len(Recent(n)) + k \in 1..Len(segments)
      BY <1>1, <2>5
    <3> QED BY <1>1, <2>4, <3>1, <3>2
  <2>7. Len(Recent(n)) <= MaxResults
    BY <1>2, <2>1, <2>4, <2>5
  <2> QED BY <1>3, <2>3, <2>4, <2>5, <2>6, <2>7 DEF n
<1>4. CASE req.tool = "search"
  <2> DEFINE n == BoundedLimit(req.limit)
             found == Search(req.query, n)
  <2>1. n \in 1..MaxResults
    BY <1>4, BoundedLimitType
  <2> HIDE DEF n
  <2>2. n \in Nat
    BY <1>2, <2>1
  <2>3. Found(req) = found
    BY <1>4 DEF Found, n
  <2>4. /\ found \in Seq(Segments) /\ Len(found) <= n
        /\ \A k \in 1..Len(found) : found[k] \in Range(segments)
    BY <2>2, SearchProperties
  <2> HIDE DEF found
  <2>5. Range(found) = {found[k] : k \in 1..Len(found)} /\ Len(found) \in Nat
    BY <2>4, MembersOfSeq
  <2>6. Range(found) \subseteq Range(segments) /\ Len(found) <= MaxResults
    BY <1>2, <2>1, <2>4, <2>5
  <2> QED BY <1>4, <2>3, <2>4, <2>6 DEF n
<1>5. CASE req.tool = "segment"
  <2> DEFINE P == {i \in 1..Len(segments) : segments[i].id = req.id}
             found == Subsequence(segments, P)
  <2>1. found \in Seq(Segments) /\ \E at : Lists(at, found, segments, P, Len(segments))
    <3> HIDE DEF P
    <3> QED BY <1>1, SubsequenceProperties
  <2>2. Found(req) = found
    BY <1>5 DEF Found
  <2> HIDE DEF found
  <2>3. PICK at : Lists(at, found, segments, P, Len(segments))
    BY <2>1
  <2>4. /\ at \in [1..Len(found) -> P]
        /\ \A j, k \in 1..Len(found) : j < k => at[j] < at[k]
        /\ \A k \in 1..Len(found) : found[k] = segments[at[k]]
    BY <1>1, <2>3 DEF Lists
  <2>5. Range(found) = {found[k] : k \in 1..Len(found)} /\ Len(found) \in Nat
    BY <2>1, MembersOfSeq
  <2>6. Range(found) \subseteq Range(segments)
    BY <1>1, <2>4, <2>5
  <2>7. Len(found) <= 1
    <3>1. SUFFICES ASSUME Len(found) > 1 PROVE FALSE
      BY <2>5
    <3>2. 1 \in 1..Len(found) /\ 2 \in 1..Len(found)
      BY <2>5, <3>1
    <3>3. at[1] \in P /\ at[2] \in P /\ at[1] < at[2]
      BY <2>4, <3>2
    <3>4. segments[at[1]].id < segments[at[2]].id
      BY <1>1, <3>3
    <3>5. segments[at[1]].id = req.id /\ segments[at[2]].id = req.id
          /\ segments[at[1]].id \in Nat
      BY <1>1, <3>3
    <3> QED BY <3>4, <3>5
  <2> QED BY <1>2, <1>5, <2>1, <2>2, <2>5, <2>6, <2>7
<1>6. CASE req.tool \in {"speakers", "status"}
  <2>1. Found(req) = << >>
    BY <1>6 DEF Found
  <2>2. << >> \in Seq(Segments) /\ Len(<< >>) = 0 /\ Range(<< >>) = {}
    BY DEF Range
  <2> QED BY <1>2, <1>6, <2>1, <2>2
<1> QED BY <1>3, <1>4, <1>5, <1>6

----------------------------------------------------------------------------
(* The tools: the ids a client holds. *)

(* What a client was told of resolves as long as its session runs: while   *)
(* it does, ids only grow, so that a new segment never takes the id of one *)
(* the client was told of, evicted or not.                                 *)
HeldInv ==
  held # Nobody =>
    /\ held.session \in Nat /\ held.session <= sessionId
    /\ held.active /\ active /\ held.session = sessionId =>
         /\ held.id \in Nat /\ held.id < nextSegmentId
         /\ \A i \in 1..Len(segments) :
              segments[i].id = held.id => segments[i].text = held.text

ToolsInv == IInv /\ HeldInv

LEMMA AcceptKeepsHeld ==
  ASSUME ToolsInv, NEW pid \in ProviderIds, NEW text \in Texts,
         Accept(pid, text), UNCHANGED held
  PROVE  HeldInv'
<1> DEFINE new  == [id |-> nextSegmentId, pid |-> pid, text |-> text]
           full == Append(segments, new)
<1>1. /\ segments \in Seq(Segments) /\ Len(segments) \in Nat
      /\ nextSegmentId \in Nat
  BY SegmentsInOrder DEF ToolsInv, IInv, TypeOK
<1>2. \E n \in 0..Len(segments) :
        /\ segments' \in Seq(Segments)
        /\ Len(segments') = Len(segments) + 1 - n
        /\ \A i \in 1..Len(segments') : segments'[i] = full[i + n]
  BY AcceptEffect DEF ToolsInv, IInv
<1>3. /\ \A i \in 1..Len(segments) : full[i] = segments[i]
      /\ full[Len(segments) + 1] = new
  <2>1. new \in Segments
    BY DEF ToolsInv, IInv, TypeOK, Segments
  <2> HIDE DEF new
  <2> QED BY <1>1, <2>1, AppendProperties
<1> HIDE DEF full
<1>4. PICK n \in 0..Len(segments) :
        /\ Len(segments') = Len(segments) + 1 - n
        /\ \A i \in 1..Len(segments') : segments'[i] = full[i + n]
  BY <1>2
<1>5. sessionId' = sessionId /\ active' = active /\ nextSegmentId' = nextSegmentId + 1
  BY DEF Accept
<1> SUFFICES ASSUME held # Nobody, held.active, active, held.session = sessionId
             PROVE  /\ held.id \in Nat /\ held.id < nextSegmentId + 1
                    /\ \A i \in 1..Len(segments') :
                         segments'[i].id = held.id => segments'[i].text = held.text
  BY <1>5 DEF ToolsInv, HeldInv
<1>6. /\ held.id \in Nat /\ held.id < nextSegmentId
      /\ \A i \in 1..Len(segments) :
           segments[i].id = held.id => segments[i].text = held.text
  BY DEF ToolsInv, HeldInv
<1>7. ASSUME NEW i \in 1..Len(segments'), segments'[i].id = held.id
      PROVE  segments'[i].text = held.text
  <2>1. i + n \in 1..(Len(segments) + 1) /\ segments'[i] = full[i + n]
    BY <1>1, <1>4
  <2>2. CASE i + n = Len(segments) + 1
    <3>1. segments'[i].id = nextSegmentId
      BY <1>3, <2>1, <2>2
    <3> QED BY <1>1, <1>6, <1>7, <3>1
  <2>3. CASE i + n \in 1..Len(segments)
    BY <1>3, <1>6, <1>7, <2>1, <2>3
  <2> QED BY <1>1, <2>1, <2>2, <2>3
<1> QED BY <1>1, <1>6, <1>7

LEMMA StoreKeepsHeld ==
  ASSUME ToolsInv, [Next]_vars, UNCHANGED held
  PROVE  HeldInv'
<1>1. sessionId \in Nat /\ nextSegmentId \in Nat
  BY DEF ToolsInv, IInv, TypeOK
<1>2. CASE StartSession
  BY <1>1, <1>2 DEF StartSession, ToolsInv, HeldInv
<1>3. CASE StopSession
  BY <1>3 DEF StopSession, ToolsInv, HeldInv
<1>4. CASE Reset
  BY <1>4 DEF Reset, ToolsInv, HeldInv
<1>5. ASSUME NEW pid \in ProviderIds, NEW text \in Texts, Refuse(pid, text)
      PROVE  HeldInv'
  BY <1>5 DEF Refuse, vars, ToolsInv, HeldInv
<1>6. CASE UNCHANGED vars
  BY <1>6 DEF vars, ToolsInv, HeldInv
<1> QED BY <1>2, <1>3, <1>4, <1>5, <1>6, AcceptKeepsHeld DEF Next, IngestFinal

(* A client is told of a retained segment.                                 *)
LEMMA ServeLineKeepsHeld ==
  ASSUME ToolsInv, NEW req \in Requests, ServeLine(req)
  PROVE  HeldInv'
<1>1. CASE UNCHANGED <<vars, held>>
  BY <1>1 DEF vars, ToolsInv, HeldInv
<1>2. CASE ~(UNCHANGED <<vars, held>>)
  <2>1. UNCHANGED vars /\ HandleJson(req) = "answer"
    BY <1>2 DEF ServeLine
  <2>2. PICK seg \in Range(Found(req)) :
          held' = [id |-> seg.id, text |-> seg.text,
                   session |-> sessionId, active |-> active]
    BY <1>2, <2>1 DEF ServeLine
  <2>3. req \in Calls
    <3>1. SUFFICES ASSUME req \in Plain PROVE FALSE
      BY DEF Requests
    <3>2. Found(req) = << >>
      BY <3>1 DEF Plain, Found
    <3>3. Range(<< >>) = {}
      BY DEF Range
    <3> QED BY <2>2, <3>2, <3>3
  <2>4. seg \in Range(segments)
    BY <2>2, <2>3, FoundProperties DEF ToolsInv
  <2>5. /\ segments \in Seq(Segments) /\ Len(segments) \in Nat
        /\ \A i \in 1..Len(segments) :
             segments[i] \in Segments /\ segments[i].id < nextSegmentId
        /\ \A i, j \in 1..Len(segments) :
             i < j => segments[i].id < segments[j].id
        /\ Range(segments) = {segments[i] : i \in 1..Len(segments)}
    BY SegmentsInOrder, MembersOfSeq DEF ToolsInv
  <2>6. PICK k \in 1..Len(segments) : seg = segments[k]
    BY <2>4, <2>5
  <2>7. seg.id \in Nat /\ seg.id < nextSegmentId
    BY <2>5, <2>6 DEF Segments
  <2>8. ASSUME NEW i \in 1..Len(segments), segments[i].id = seg.id
        PROVE  segments[i] = seg
    <3>1. ~(segments[i].id < segments[k].id) /\ ~(segments[k].id < segments[i].id)
      BY <2>6, <2>7, <2>8
    <3>2. i = k
      BY <2>5, <3>1
    <3> QED BY <2>6, <3>2
  <2>9. sessionId \in Nat
    BY DEF ToolsInv, IInv, TypeOK
  <2> QED BY <2>1, <2>2, <2>7, <2>8, <2>9 DEF HeldInv, vars
<1> QED BY <1>1, <1>2

(* The tools change nothing: whatever clients call, the store goes through *)
(* a behaviour of its own, so that all that is proved of it holds for it.  *)
THEOREM ToolsOnlyRead == ToolsSpec => Spec
<1>1. ToolsInit => Init
  BY DEF ToolsInit
<1>2. [ToolsNext]_toolVars => [Next]_vars
  BY DEF ToolsNext, StoreStep, ServeLine, EndOfInput, toolVars, vars
<1> QED BY <1>1, <1>2, PTL DEF ToolsSpec, Spec

LEMMA ToolsInvariance == ToolsSpec => []ToolsInv
<1>1. ToolsInit => ToolsInv
  BY InitIInv DEF ToolsInit, ToolsInv, HeldInv
<1>2. ToolsInv /\ [ToolsNext]_toolVars => ToolsInv'
  <2> SUFFICES ASSUME ToolsInv, [ToolsNext]_toolVars PROVE ToolsInv'
    OBVIOUS
  <2>1. [Next]_vars
    BY DEF ToolsNext, StoreStep, ServeLine, EndOfInput, toolVars, vars
  <2>2. IInv'
    BY <2>1, NextPreserves DEF ToolsInv
  <2>3. ASSUME UNCHANGED held PROVE HeldInv'
    BY <2>1, <2>3, StoreKeepsHeld
  <2>4. ASSUME NEW req \in Requests, ServeLine(req)
        PROVE  HeldInv'
    BY <2>4, ServeLineKeepsHeld
  <2>5. HeldInv'
    BY <2>3, <2>4 DEF ToolsNext, StoreStep, EndOfInput, toolVars
  <2> QED BY <2>2, <2>5 DEF ToolsInv
<1> QED BY <1>1, <1>2, PTL DEF ToolsSpec

(* An id a client was told names the same text, or nothing, for as long as *)
(* the status shows the session it was told in, over any number of         *)
(* sessions, resets, evictions and calls.                                  *)
THEOREM HeldIdsResolve == ToolsSpec => []IdsResolve
<1>1. ToolsInv => IdsResolve
  BY DEF ToolsInv, HeldInv, IdsResolve, GetSegment
<1> QED BY ToolsInvariance, <1>1, PTL

----------------------------------------------------------------------------
(* The tools: the size of a response. *)

LEMMA ProductMonotone ==
  ASSUME NEW a \in Nat, NEW b \in Nat, NEW c \in Nat, NEW d \in Nat,
         a <= b, c <= d
  PROVE  a * c \in Nat /\ b * d \in Nat /\ a * c <= b * d
<1>1. b * d = a * c + a * (d - c) + (b - a) * c + (b - a) * (d - c)
  OBVIOUS
<1>2. /\ a * c \in Nat /\ a * (d - c) \in Nat /\ (b - a) * c \in Nat
      /\ (b - a) * (d - c) \in Nat
  OBVIOUS
<1> QED BY <1>1, <1>2

LEMMA MaxSegmentBytesType == MaxSegmentBytes \in Nat
<1>1. {SegmentFrame, Ellipsis, MaxShown, MaxCharBytes} \subseteq Nat
  BY ToolsConfig
<1>2. MaxShown * MaxCharBytes \in Nat
  BY <1>1
<1> QED BY <1>1, <1>2 DEF MaxSegmentBytes

LEMMA ShownBytesType ==
  ASSUME NEW text \in Texts
  PROVE  ShownBytes(text) \in Nat
<1>1. /\ MaxShown \in Nat /\ Ellipsis \in Nat
      /\ TextChars[text] \in Nat /\ CharBytes[text] \in Nat
  BY ToolsConfig, TextSizesConfig
<1>2. MaxShown * CharBytes[text] \in Nat /\ TextChars[text] * CharBytes[text] \in Nat
  BY <1>1
<1>3. MaxShown * CharBytes[text] + Ellipsis \in Nat
  BY <1>1, <1>2
<1> QED BY <1>2, <1>3 DEF ShownBytes

(* A text is cut by characters, which bounds its bytes as well.            *)
LEMMA ShownBytesBound ==
  ASSUME NEW text \in Texts
  PROVE  /\ SegmentFrame + ShownBytes(text) \in Nat
         /\ SegmentFrame + ShownBytes(text) <= MaxSegmentBytes
<1>1. /\ {SegmentFrame, Ellipsis, MaxShown, MaxCharBytes} \subseteq Nat
      /\ TextChars[text] \in Nat
      /\ CharBytes[text] \in Nat /\ CharBytes[text] <= MaxCharBytes
  BY ToolsConfig, TextSizesConfig
<1>2. CASE TextChars[text] > MaxShown
  <2>1. /\ MaxShown * CharBytes[text] \in Nat /\ MaxShown * MaxCharBytes \in Nat
        /\ MaxShown * CharBytes[text] <= MaxShown * MaxCharBytes
    BY <1>1, ProductMonotone
  <2> QED BY <1>1, <1>2, <2>1 DEF ShownBytes, MaxSegmentBytes
<1>3. CASE ~(TextChars[text] > MaxShown)
  <2>1. /\ TextChars[text] * CharBytes[text] \in Nat /\ MaxShown * MaxCharBytes \in Nat
        /\ TextChars[text] * CharBytes[text] <= MaxShown * MaxCharBytes
    BY <1>1, <1>3, ProductMonotone
  <2> QED BY <1>1, <1>3, <2>1 DEF ShownBytes, MaxSegmentBytes
<1> QED BY <1>2, <1>3

LEMMA ResponseBytesBound ==
  ASSUME IInv, NEW req \in Calls
  PROVE  \E b \in Nat : /\ b <= Len(Found(req)) * MaxSegmentBytes
                        /\ ResponseBytes(req) = Envelope + 2 * (b + Rows(req))
<1> DEFINE found == Found(req)
           Rec(g) == [n \in 0..Len(found) |->
                        IF n = 0 THEN 0
                        ELSE g[n - 1] + SegmentFrame + ShownBytes(found[n].text)]
           F == CHOOSE g : g = Rec(g)
           step == [n \in 1..Len(found) |-> [x \in Nat |->
                      x + SegmentFrame + ShownBytes(found[n].text)]]
<1>1. found \in Seq(Segments)
  BY FoundProperties
<1>2. ResponseBytes(req) = Envelope + 2 * (F[Len(found)] + Rows(req))
  BY DEF ResponseBytes
<1> HIDE DEF found
<1>3. Len(found) \in Nat /\ \A n \in 1..Len(found) : found[n].text \in Texts
  <2>1. \A n \in 1..Len(found) : found[n] \in Segments
    BY <1>1, ElementOfSeq
  <2> QED BY <1>1, <2>1, LenProperties DEF Segments
<1>4. /\ SegmentFrame \in Nat /\ MaxSegmentBytes \in Nat
      /\ \A text \in Texts : SegmentFrame + ShownBytes(text) \in 0..MaxSegmentBytes
  BY ShownBytesBound, MaxSegmentBytesType, ToolsConfig
<1>5. \A n \in 1..Len(found), x \in Nat :
        /\ x + SegmentFrame + ShownBytes(found[n].text) \in Nat
        /\ x + SegmentFrame + ShownBytes(found[n].text) <= x + MaxSegmentBytes
  <2> TAKE n \in 1..Len(found), x \in Nat
  <2>1. SegmentFrame + ShownBytes(found[n].text) \in 0..MaxSegmentBytes
    BY <1>3, <1>4
  <2>2. ShownBytes(found[n].text) \in Int
    BY <1>3, ShownBytesType
  <2> QED BY <1>4, <2>1, <2>2
<1>6. \E g : g = Rec(g)
  <2>1. step \in [1..Len(found) -> [Nat -> Nat]]
    BY <1>5
  <2>2. PICK f \in Iterates(Len(found), Nat, 0, step) : TRUE
    <3> HIDE DEF step
    <3>1. Len(found) \in Nat /\ 0 \in Nat
      BY <1>3
    <3>2. Iterates(Len(found), Nat, 0, step) # {}
      BY <2>1, <3>1, Recursion
    <3> QED BY <3>2
  <2>3. /\ f = [n \in 0..Len(found) |-> f[n]] /\ f[0] = 0
        /\ \A n \in 0..Len(found) : f[n] \in Nat
    BY <2>2 DEF Iterates
  <2>4. \A n \in 1..Len(found) :
          f[n] = f[n - 1] + SegmentFrame + ShownBytes(found[n].text)
    <3> TAKE n \in 1..Len(found)
    <3>1. f[n - 1] \in Nat
      BY <1>3, <2>3
    <3> QED BY <2>2, <3>1 DEF Iterates
  <2> HIDE DEF step
  <2>5. \A n \in 0..Len(found) : f[n] = Rec(f)[n]
    <3> TAKE n \in 0..Len(found)
    <3>1. CASE n = 0
      BY <2>3, <3>1
    <3>2. CASE n \in 1..Len(found)
      BY <1>3, <2>4, <3>2
    <3> QED BY <1>3, <3>1, <3>2
  <2>6. f = Rec(f)
    BY <2>3, <2>5
  <2> QED BY <2>6
<1>7. F = Rec(F)
  <2> HIDE DEF Rec
  <2> QED BY <1>6
<1> HIDE DEF F
<1>8. F[0] = 0
  BY <1>3, <1>7
<1>9. \A n \in 1..Len(found) :
        F[n] = F[n - 1] + SegmentFrame + ShownBytes(found[n].text)
  <2> TAKE n \in 1..Len(found)
  <2>1. Rec(F)[n] = F[n - 1] + SegmentFrame + ShownBytes(found[n].text)
    BY <1>3
  <2> HIDE DEF Rec
  <2> QED BY <1>7, <2>1
<1> HIDE DEF Rec, step
<1> DEFINE Good == {n \in Nat : n <= Len(found) =>
                      F[n] \in Nat /\ F[n] <= n * MaxSegmentBytes}
<1>10. 0 \in Good
  BY <1>4, <1>8
<1>11. ASSUME NEW n \in Nat, n \in Good
       PROVE  n + 1 \in Good
  <2> SUFFICES ASSUME n + 1 <= Len(found)
               PROVE  F[n + 1] \in Nat /\ F[n + 1] <= (n + 1) * MaxSegmentBytes
    OBVIOUS
  <2>1. F[n] \in Nat /\ F[n] <= n * MaxSegmentBytes
    BY <1>3, <1>11
  <2>2. n + 1 \in 1..Len(found)
    BY <1>3
  <2>3. F[n + 1] = F[n] + SegmentFrame + ShownBytes(found[n + 1].text)
    BY <1>9, <2>2
  <2>4. F[n + 1] \in Nat /\ F[n + 1] <= F[n] + MaxSegmentBytes
    BY <1>5, <2>1, <2>2, <2>3
  <2>5. n * MaxSegmentBytes \in Nat
        /\ (n + 1) * MaxSegmentBytes = n * MaxSegmentBytes + MaxSegmentBytes
    BY <1>4
  <2> QED BY <1>4, <2>1, <2>4, <2>5
<1>12. Nat \subseteq Good
  <2> HIDE DEF Good
  <2> QED BY <1>10, <1>11, SetInduction
<1>13. F[Len(found)] \in Nat /\ F[Len(found)] <= Len(found) * MaxSegmentBytes
  BY <1>3, <1>12
<1> QED BY <1>2, <1>13 DEF found

LEMMA RowsBound ==
  ASSUME IInv, NEW req \in Calls
  PROVE  /\ Rows(req) \in 0..MaxResults
         /\ req.tool # "speakers" => Rows(req) = 0
<1>1. MaxResults \in Nat
  BY ToolsConfig
<1>2. Cardinality(Speakers) \in Nat
  <2> DEFINE said == [i \in 1..Len(segments) |-> SpeakerOf[segments[i].text]]
             S == {SpeakerOf[segments[i].text] : i \in 1..Len(segments)}
  <2>1. Len(segments) \in Nat
    BY SegmentsInOrder
  <2>2. IsFiniteSet(1..Len(segments))
    BY <2>1, FS_Interval
  <2>3. said \in Surjection(1..Len(segments), S)
    BY DEF Surjection
  <2>4. IsFiniteSet(S)
    <3> HIDE DEF S, said
    <3> QED BY <2>2, <2>3, FS_Surjection
  <2>5. Speakers \in SUBSET S
    BY DEF Speakers
  <2>6. IsFiniteSet(Speakers)
    <3> HIDE DEF S
    <3> QED BY <2>4, <2>5, FS_Subset
  <2> QED BY <2>6, FS_CardinalityType
<1>3. Min({Cardinality(Speakers), MaxResults}) \in 0..MaxResults
  BY <1>1, <1>2, MinOfTwo
<1> QED BY <1>1, <1>3 DEF Rows

LEMMA ResponsesFit ==
  ASSUME IInv, NEW req \in Calls,
         req.tool \in {"recent", "search"} => Fits(BoundedLimit(req.limit))
  PROVE  HandleJson(req) # "failed"
<1>1. PICK b \in Nat : /\ b <= Len(Found(req)) * MaxSegmentBytes
                       /\ ResponseBytes(req) = Envelope + 2 * (b + Rows(req))
  BY ResponseBytesBound
<1>2. /\ Envelope \in Nat /\ MaxResponse \in Nat /\ MaxResults \in Nat
      /\ MaxSegmentBytes \in Nat
  BY ToolsConfig, MaxSegmentBytesType
<1>3. Rows(req) \in 0..MaxResults /\ (req.tool # "speakers" => Rows(req) = 0)
  BY RowsBound
<1> DEFINE n == IF req.tool \in {"recent", "search"} THEN BoundedLimit(req.limit) ELSE 1
<1>4. n \in Nat /\ Fits(n)
  <2>1. CASE req.tool \in {"recent", "search"}
    <3>1. req.limit \in LimitArgs \union {NoLimit}
      BY <2>1 DEF Calls
    <3>2. BoundedLimit(req.limit) \in Nat
      BY <1>2, <3>1, BoundedLimitType
    <3> QED BY <2>1, <3>2
  <2>2. CASE req.tool \notin {"recent", "search"}
    BY <2>2, ResponseConfig
  <2> QED BY <2>1, <2>2
<1>5. Len(Found(req)) \in Nat /\ Len(Found(req)) <= n
  <2>1. Found(req) \in Seq(Segments) /\ Len(Found(req)) <= n
    BY FoundProperties
  <2> QED BY <2>1, LenProperties
<1> HIDE DEF n
<1>6. ResponseBytes(req) <= MaxResponse
  <2>1. CASE req.tool = "speakers"
    <3>1. Found(req) = << >>
      BY <2>1 DEF Found
    <3>2. b = 0
      BY <1>1, <1>2, <3>1
    <3> QED BY <1>1, <1>2, <1>3, <3>2, ResponseConfig
  <2>2. CASE req.tool # "speakers"
    <3>1. /\ Len(Found(req)) * MaxSegmentBytes \in Nat /\ n * MaxSegmentBytes \in Nat
          /\ Len(Found(req)) * MaxSegmentBytes <= n * MaxSegmentBytes
      BY <1>2, <1>4, <1>5, ProductMonotone
    <3>2. b <= n * MaxSegmentBytes
      BY <1>1, <3>1
    <3>3. Envelope + 2 * (n * MaxSegmentBytes) <= MaxResponse
      <4>1. 2 * n * MaxSegmentBytes = 2 * (n * MaxSegmentBytes)
        BY <1>2, <1>4
      <4> QED BY <1>4, <4>1 DEF Fits
    <3> QED BY <1>1, <1>2, <1>3, <2>2, <3>1, <3>2, <3>3
  <2> QED BY <2>1, <2>2
<1>7. req.tool \notin {"oversized", "malformed"}
  BY DEF Calls
<1>8. ResponseBytes(req) \in Int
  BY <1>1, <1>2, <1>3
<1>9. ~(ResponseBytes(req) > MaxResponse)
  BY <1>2, <1>6, <1>8
<1> QED BY <1>7, <1>9 DEF HandleJson

(* No call for one segment, or for as many as fit, costs the client its    *)
(* connection, whatever the texts and the configuration, and no call       *)
(* returns more than MaxResults segments.                                  *)
THEOREM SmallCallsSucceed == ToolsSpec => []SmallCallsAreAnswered
<1>1. ToolsInv => SmallCallsAreAnswered
  <2> SUFFICES ASSUME ToolsInv, NEW req \in Calls
               PROVE  /\ Len(Found(req)) <= MaxResults
                      /\ \/ /\ req.tool \in {"recent", "search"}
                            /\ ~Fits(BoundedLimit(req.limit))
                         \/ HandleJson(req) # "failed"
    BY DEF SmallCallsAreAnswered
  <2> QED BY FoundProperties, ResponsesFit DEF ToolsInv
<1> QED BY ToolsInvariance, <1>1, PTL

----------------------------------------------------------------------------
(* The context assembler: earlier segments. *)

LEMMA TakeProperties ==
  ASSUME NEW S, NEW s \in Seq(S), NEW n \in Nat
  PROVE  /\ Take(s, n) \in Seq(S)
         /\ Len(Take(s, n)) = IF Len(s) <= n THEN Len(s) ELSE n
         /\ \A i \in 1..Len(Take(s, n)) : i \in 1..Len(s) /\ Take(s, n)[i] = s[i]
<1> DEFINE m == Min({n, Len(s)})
<1>1. Len(s) \in Nat /\ \A i \in 1..Len(s) : s[i] \in S
  BY LenProperties, ElementOfSeq
<1>2. m = IF Len(s) <= n THEN Len(s) ELSE n
  BY <1>1, MinOfTwo
<1> HIDE DEF m
<1>3. m \in 0..Len(s)
  BY <1>1, <1>2
<1>4. \A i \in 1..m : s[i] \in S
  BY <1>1, <1>3
<1>5. /\ SubSeq(s, 1, m) \in Seq(S)
      /\ Len(SubSeq(s, 1, m)) = IF 1 <= m THEN m - 1 + 1 ELSE 0
      /\ \A i \in 1..(m - 1 + 1) : SubSeq(s, 1, m)[i] = s[1 + i - 1]
  BY <1>3, <1>4, SubSeqProperties
<1>6. Take(s, n) = SubSeq(s, 1, m)
  BY DEF Take, m
<1>7. Len(Take(s, n)) = m
  BY <1>1, <1>3, <1>5, <1>6
<1>8. \A i \in 1..m : i \in 1..Len(s) /\ Take(s, n)[i] = s[i]
  BY <1>1, <1>3, <1>5, <1>6
<1> QED BY <1>2, <1>5, <1>6, <1>7, <1>8

LEMMA SearchTermsType ==
  ASSUME NEW q \in Questions
  PROVE  SearchTerms(q) \in Seq(Range(q.words))
<1> DEFINE words == q.words
           P == {i \in 1..Len(words) : words[i] \in Searchable}
           t == Subsequence(words, P)
           Q == {i \in 1..Len(t) : \A j \in 1..(i - 1) : t[j] # t[i]}
<1>1. words \in Seq(Range(words)) /\ MaxTerms \in Nat
  BY AssemblerConfig
<1>2. t \in Seq(Range(words))
  <2> HIDE DEF P, words
  <2> QED BY <1>1, SubsequenceProperties
<1>3. Distinct(t) \in Seq(Range(words))
  <2>1. Distinct(t) = Subsequence(t, Q)
    BY DEF Distinct
  <2> HIDE DEF Q, t, words
  <2> QED BY <1>2, <2>1, SubsequenceProperties
<1>4. SearchTerms(q) = Take(Distinct(t), MaxTerms)
  BY DEF SearchTerms
<1> HIDE DEF t, words
<1>5. Take(Distinct(t), MaxTerms) \in Seq(Range(words))
  BY <1>1, <1>3, TakeProperties
<1> QED BY <1>4, <1>5 DEF words

(* The recent window and what is older part the transcript.                *)
LEMMA OlderOrRecent ==
  ASSUME IInv
  PROVE  /\ \A s \in Range(segments) :
              s \in Range(RecentContext) \/ s \in Range(Older)
         /\ \A s \in Range(Older) :
              s \in Range(segments) /\ s \notin Range(RecentContext)
<1> DEFINE r == Len(RecentContext)
           n == Len(segments)
<1>1. /\ segments \in Seq(Segments) /\ n \in Nat
      /\ Range(segments) = {segments[i] : i \in 1..n}
      /\ \A i \in 1..n : segments[i] \in Segments /\ segments[i].id \in Nat
      /\ \A i, j \in 1..n : i < j => segments[i].id < segments[j].id
  <2>1. \A i \in 1..n : segments[i].id \in Nat
    BY SegmentsInOrder DEF Segments
  <2> QED BY <2>1, SegmentsInOrder, MembersOfSeq
<1>2. RecentSegments \in Nat
  BY AssemblerConfig
<1>3. /\ RecentContext \in Seq(Segments) /\ r = Min({RecentSegments, n})
      /\ \A k \in 1..r : RecentContext[k] = segments[n - r + k]
  BY <1>2, RecentProperties DEF RecentContext
<1>4. r \in 0..n
  BY <1>1, <1>2, <1>3, MinOfTwo
<1>5. Range(RecentContext) = {RecentContext[k] : k \in 1..r}
  BY <1>3, MembersOfSeq
<1>6. Range(Older) = {segments[i] : i \in 1..(n - r)}
  <2> DEFINE o == SubSeq(segments, 1, n - r)
  <2>1. /\ o \in Seq(Segments) /\ Len(o) = n - r
        /\ \A i \in 1..(n - r) : o[i] = segments[i]
    <3>1. \A i \in 1..(n - r) : segments[i] \in Segments
      BY <1>1, <1>4
    <3>2. /\ o \in Seq(Segments)
          /\ Len(o) = IF 1 <= n - r THEN n - r - 1 + 1 ELSE 0
          /\ \A i \in 1..(n - r - 1 + 1) : o[i] = segments[1 + i - 1]
      BY <1>1, <1>4, <3>1, SubSeqProperties
    <3> QED BY <1>1, <1>4, <3>2
  <2> HIDE DEF o
  <2>2. Range(o) = {o[i] : i \in 1..(n - r)}
    BY <2>1, MembersOfSeq
  <2>3. Older = o
    BY DEF Older, o
  <2> QED BY <2>1, <2>2, <2>3
<1> HIDE DEF r, n
<1>7. ASSUME NEW s \in Range(segments), s \notin Range(Older)
      PROVE  s \in Range(RecentContext)
  <2>1. PICK i \in 1..n : s = segments[i]
    BY <1>1
  <2>2. i > n - r
    BY <1>1, <1>4, <1>6, <1>7, <2>1
  <2>3. i - (n - r) \in 1..r /\ segments[n - r + (i - (n - r))] = s
    BY <1>1, <1>4, <2>1, <2>2
  <2> QED BY <1>3, <1>5, <2>3
<1>8. ASSUME NEW s \in Range(Older)
      PROVE  s \in Range(segments) /\ s \notin Range(RecentContext)
  <2>1. PICK i \in 1..(n - r) : s = segments[i]
    BY <1>6
  <2>2. ASSUME NEW k \in 1..r
        PROVE  s # RecentContext[k]
    <3>1. i \in 1..n /\ n - r + k \in 1..n /\ i < n - r + k
      BY <1>1, <1>4
    <3>2. s.id < RecentContext[k].id /\ s.id \in Nat
      BY <1>1, <1>3, <2>1, <3>1
    <3> QED BY <3>2
  <2> QED BY <1>1, <1>4, <1>5, <2>1, <2>2
<1> QED BY <1>7, <1>8

(* What is listed after the terms T: older segments with one of the terms, *)
(* once each, and none of those left out while there was room, unless it   *)
(* has too many newer ones.                                                *)
Listed(list, T) ==
  /\ list \in Seq(Segments)
  /\ IsInjective(list)
  /\ Len(list) <= SearchHits
  /\ \A e \in Range(list) : e \in Range(Older) /\ T \intersect Mentions[e.text] # {}
  /\ \A old \in Range(Older) : \A t \in T \intersect Mentions[old.text] :
       \/ old \in Range(list)
       \/ Len(list) = SearchHits
       \/ Cardinality(NewerWith(t, old)) >= HitsPerTerm

(* The loop body, for one term.                                            *)
LEMMA AddHitsLists ==
  ASSUME IInv, NEW list, NEW T, Listed(list, T), NEW term
  PROVE  Listed(AddHits(list, term), T \union {term})
<1> DEFINE hits == Search(term, HitsPerTerm)
           P    == {i \in 1..Len(hits) :
                      hits[i] \notin Range(RecentContext) \union Range(list)}
           new  == Subsequence(hits, P)
           all  == list \o new
           res  == Take(all, SearchHits)
<1>1. HitsPerTerm \in Nat /\ SearchHits \in Nat
  BY AssemblerConfig
<1>2. AddHits(list, term) = res
  BY DEF AddHits
<1>3. /\ hits \in Seq(Segments)
      /\ \A j, k \in 1..Len(hits) : j < k => hits[j].id < hits[k].id
      /\ \A k \in 1..Len(hits) :
           hits[k] \in Range(segments) /\ term \in Mentions[hits[k].text]
      /\ \A old \in Range(segments) : term \in Mentions[old.text] =>
           \/ old \in Range(hits)
           \/ Cardinality(NewerWith(term, old)) >= HitsPerTerm
  BY <1>1, SearchProperties
<1> HIDE DEF hits
<1>4. Len(hits) \in Nat /\ Range(hits) = {hits[k] : k \in 1..Len(hits)}
  BY <1>3, MembersOfSeq
<1>5. \A j, k \in 1..Len(hits) : hits[j] = hits[k] => j = k
  <2>1. \A k \in 1..Len(hits) : hits[k].id \in Nat
    <3>1. \A k \in 1..Len(hits) : hits[k] \in Segments
      BY <1>3, ElementOfSeq
    <3> QED BY <3>1 DEF Segments
  <2> TAKE j, k \in 1..Len(hits)
  <2> HAVE hits[j] = hits[k]
  <2>2. ~(j < k) /\ ~(k < j)
    BY <1>3, <2>1
  <2> QED BY <2>2
<1>6. new \in Seq(Segments) /\ \E at : Lists(at, new, hits, P, Len(hits))
  <2> HIDE DEF P
  <2> QED BY <1>3, SubsequenceProperties
<1> HIDE DEF new
<1>7. PICK at : Lists(at, new, hits, P, Len(hits))
  BY <1>6
<1>8. /\ at \in [1..Len(new) -> P]
      /\ \A j, k \in 1..Len(new) : j < k => at[j] < at[k]
      /\ \A k \in 1..Len(new) : new[k] = hits[at[k]]
      /\ \A i \in P : \E k \in 1..Len(new) : at[k] = i
  BY <1>4, <1>7 DEF Lists
<1>9. list \in Seq(Segments) /\ Len(list) <= SearchHits /\ IsInjective(list)
  BY DEF Listed
<1>10. /\ Len(list) \in Nat /\ DOMAIN list = 1..Len(list)
       /\ Range(list) = {list[k] : k \in 1..Len(list)}
       /\ Len(new) \in Nat
       /\ Range(new) = {new[k] : k \in 1..Len(new)}
  BY <1>6, <1>9, MembersOfSeq, LenProperties
<1>11. /\ all \in Seq(Segments) /\ Len(all) = Len(list) + Len(new)
       /\ \A k \in 1..Len(all) :
            all[k] = IF k <= Len(list) THEN list[k] ELSE new[k - Len(list)]
  BY <1>6, <1>9, ConcatProperties
<1> HIDE DEF all
<1>12. /\ res \in Seq(Segments)
       /\ Len(res) = IF Len(all) <= SearchHits THEN Len(all) ELSE SearchHits
       /\ \A i \in 1..Len(res) : i \in 1..Len(all) /\ res[i] = all[i]
  BY <1>1, <1>11, TakeProperties
<1> HIDE DEF res
<1>13. /\ Len(res) \in Nat /\ DOMAIN res = 1..Len(res)
       /\ Range(res) = {res[k] : k \in 1..Len(res)}
  BY <1>12, MembersOfSeq, LenProperties
<1>14. ASSUME NEW k \in 1..Len(new)
       PROVE  /\ new[k] \notin Range(list) /\ new[k] \notin Range(RecentContext)
              /\ new[k] \in Range(segments) /\ term \in Mentions[new[k].text]
  BY <1>3, <1>8
<1>15. \A j, k \in 1..Len(new) : new[j] = new[k] => j = k
  <2> TAKE j, k \in 1..Len(new)
  <2> HAVE new[j] = new[k]
  <2>1. at[j] \in 1..Len(hits) /\ at[k] \in 1..Len(hits) /\ hits[at[j]] = hits[at[k]]
    BY <1>8
  <2>2. at[j] = at[k]
    BY <1>5, <2>1
  <2>3. ~(j < k) /\ ~(k < j)
    BY <1>8, <2>1, <2>2
  <2> QED BY <2>3
<1>16. IsInjective(res)
  <2> SUFFICES ASSUME NEW j \in 1..Len(res), NEW k \in 1..Len(res), res[j] = res[k]
               PROVE  j = k
    BY <1>13 DEF IsInjective
  <2>1. /\ j \in 1..Len(all) /\ k \in 1..Len(all) /\ all[j] = all[k]
    BY <1>12
  <2>2. CASE j <= Len(list) /\ k <= Len(list)
    <3>1. j \in 1..Len(list) /\ k \in 1..Len(list) /\ list[j] = list[k]
      BY <1>10, <1>11, <2>1, <2>2
    <3> QED BY <1>9, <1>10, <3>1 DEF IsInjective
  <2>3. CASE ~(j <= Len(list)) /\ ~(k <= Len(list))
    <3>1. /\ j - Len(list) \in 1..Len(new) /\ k - Len(list) \in 1..Len(new)
          /\ new[j - Len(list)] = new[k - Len(list)]
      BY <1>10, <1>11, <2>1, <2>3
    <3>2. j - Len(list) = k - Len(list)
      BY <1>15, <3>1
    <3> QED BY <1>10, <2>1, <3>2
  <2>4. CASE j <= Len(list) /\ ~(k <= Len(list))
    <3>1. /\ j \in 1..Len(list) /\ k - Len(list) \in 1..Len(new)
          /\ list[j] = new[k - Len(list)]
      BY <1>10, <1>11, <2>1, <2>4
    <3> QED BY <1>10, <1>14, <3>1
  <2>5. CASE ~(j <= Len(list)) /\ k <= Len(list)
    <3>1. /\ k \in 1..Len(list) /\ j - Len(list) \in 1..Len(new)
          /\ list[k] = new[j - Len(list)]
      BY <1>10, <1>11, <2>1, <2>5
    <3> QED BY <1>10, <1>14, <3>1
  <2> QED BY <2>2, <2>3, <2>4, <2>5
<1>17. ASSUME NEW e \in Range(res)
       PROVE  e \in Range(Older) /\ (T \union {term}) \intersect Mentions[e.text] # {}
  <2>1. PICK k \in 1..Len(res) : e = res[k]
    BY <1>13
  <2>2. k \in 1..Len(all) /\ e = all[k]
    BY <1>12, <2>1
  <2>3. CASE k <= Len(list)
    <3>1. e \in Range(list)
      BY <1>10, <1>11, <2>2, <2>3
    <3> QED BY <3>1 DEF Listed
  <2>4. CASE ~(k <= Len(list))
    <3>1. k - Len(list) \in 1..Len(new) /\ e = new[k - Len(list)]
      BY <1>10, <1>11, <2>2, <2>4
    <3>2. /\ e \notin Range(RecentContext) /\ e \in Range(segments)
          /\ term \in Mentions[e.text]
      BY <1>14, <3>1
    <3> QED BY <3>2, OlderOrRecent
  <2> QED BY <2>3, <2>4
<1>18. ASSUME NEW old \in Range(Older),
              NEW t \in (T \union {term}) \intersect Mentions[old.text],
              Len(res) # SearchHits, ~(Cardinality(NewerWith(t, old)) >= HitsPerTerm)
       PROVE  old \in Range(res)
  <2>1. Len(res) = Len(all) /\ Len(all) < SearchHits
    BY <1>1, <1>10, <1>11, <1>12, <1>18
  <2>2. ASSUME NEW k \in 1..Len(all), all[k] = old
        PROVE  old \in Range(res)
    BY <1>12, <1>13, <2>1, <2>2
  <2>3. CASE old \in Range(list)
    <3>1. PICK k \in 1..Len(list) : list[k] = old
      BY <1>10, <2>3
    <3>2. k \in 1..Len(all) /\ all[k] = old
      BY <1>10, <1>11, <3>1
    <3> QED BY <2>2, <3>2
  <2>4. CASE old \notin Range(list) /\ t \in T
    <3>1. Len(list) = SearchHits
      BY <1>18, <2>4 DEF Listed
    <3> QED BY <1>1, <1>10, <1>11, <2>1, <3>1
  <2>5. CASE old \notin Range(list) /\ t = term
    <3>1. old \in Range(segments) /\ old \notin Range(RecentContext)
      BY OlderOrRecent
    <3>2. old \in Range(hits)
      BY <1>3, <1>18, <2>5, <3>1
    <3>3. PICK i \in 1..Len(hits) : hits[i] = old
      BY <1>4, <3>2
    <3>4. i \in P
      BY <2>5, <3>1, <3>3
    <3>5. PICK k \in 1..Len(new) : at[k] = i
      BY <1>8, <3>4
    <3>6. new[k] = old
      BY <1>8, <3>3, <3>5
    <3>7. Len(list) + k \in 1..Len(all) /\ all[Len(list) + k] = old
      BY <1>10, <1>11, <3>6
    <3> QED BY <2>2, <3>7
  <2> QED BY <1>18, <2>3, <2>4, <2>5
<1>19. Len(res) <= SearchHits
  BY <1>1, <1>10, <1>11, <1>12
<1> QED BY <1>2, <1>12, <1>16, <1>17, <1>18, <1>19 DEF Listed

LEMMA AddHitsType ==
  ASSUME IInv, NEW list \in Seq(Segments), NEW term
  PROVE  AddHits(list, term) \in Seq(Segments)
<1> DEFINE hits == Search(term, HitsPerTerm)
           P    == {i \in 1..Len(hits) :
                      hits[i] \notin Range(RecentContext) \union Range(list)}
           new  == Subsequence(hits, P)
<1>1. HitsPerTerm \in Nat /\ SearchHits \in Nat
  BY AssemblerConfig
<1>2. hits \in Seq(Segments)
  BY <1>1, SearchProperties
<1>3. new \in Seq(Segments)
  <2> HIDE DEF hits, P
  <2> QED BY <1>2, SubsequenceProperties
<1>4. AddHits(list, term) = Take(list \o new, SearchHits)
  BY DEF AddHits
<1> HIDE DEF new
<1>5. list \o new \in Seq(Segments)
  BY <1>3, ConcatProperties
<1>6. Take(list \o new, SearchHits) \in Seq(Segments)
  BY <1>1, <1>5, TakeProperties
<1> QED BY <1>4, <1>6

(* The loop over the terms of a question.                                  *)
LEMMA EarlierContextLists ==
  ASSUME IInv, NEW q \in Questions
  PROVE  Listed(EarlierContext(q), Range(SearchTerms(q)))
<1> DEFINE terms == SearchTerms(q)
           Rec(g) == [t \in 0..Len(terms) |->
                        IF t = 0 THEN << >> ELSE AddHits(g[t - 1], terms[t])]
           F == CHOOSE g : g = Rec(g)
           step == [t \in 1..Len(terms) |-> [x \in Seq(Segments) |->
                      AddHits(x, terms[t])]]
<1>1. EarlierContext(q) = F[Len(terms)]
  BY DEF EarlierContext
<1>2. terms \in Seq(Range(q.words))
  BY SearchTermsType
<1> HIDE DEF terms
<1>3. Len(terms) \in Nat /\ Range(terms) = {terms[t] : t \in 1..Len(terms)}
  BY <1>2, MembersOfSeq
<1>4. \E g : g = Rec(g)
  <2>1. step \in [1..Len(terms) -> [Seq(Segments) -> Seq(Segments)]]
    BY AddHitsType
  <2>2. PICK f \in Iterates(Len(terms), Seq(Segments), << >>, step) : TRUE
    <3> HIDE DEF step
    <3>1. << >> \in Seq(Segments)
      OBVIOUS
    <3>2. Iterates(Len(terms), Seq(Segments), << >>, step) # {}
      BY <1>3, <2>1, <3>1, Recursion
    <3> QED BY <3>2
  <2>3. /\ f = [t \in 0..Len(terms) |-> f[t]] /\ f[0] = << >>
        /\ \A t \in 0..Len(terms) : f[t] \in Seq(Segments)
    BY <2>2 DEF Iterates
  <2>4. \A t \in 1..Len(terms) : f[t] = AddHits(f[t - 1], terms[t])
    <3> TAKE t \in 1..Len(terms)
    <3>1. f[t - 1] \in Seq(Segments)
      BY <1>3, <2>3
    <3> QED BY <2>2, <3>1 DEF Iterates
  <2> HIDE DEF step
  <2>5. \A t \in 0..Len(terms) : f[t] = Rec(f)[t]
    <3> TAKE t \in 0..Len(terms)
    <3>1. CASE t = 0
      BY <2>3, <3>1
    <3>2. CASE t \in 1..Len(terms)
      BY <1>3, <2>4, <3>2
    <3> QED BY <1>3, <3>1, <3>2
  <2>6. f = Rec(f)
    BY <2>3, <2>5
  <2> QED BY <2>6
<1>5. F = Rec(F)
  <2> HIDE DEF Rec
  <2> QED BY <1>4
<1> HIDE DEF F
<1>6. F[0] = << >>
  BY <1>3, <1>5
<1>7. \A t \in 1..Len(terms) : F[t] = AddHits(F[t - 1], terms[t])
  <2> TAKE t \in 1..Len(terms)
  <2>1. Rec(F)[t] = AddHits(F[t - 1], terms[t])
    BY <1>3
  <2> HIDE DEF Rec
  <2> QED BY <1>5, <2>1
<1> HIDE DEF Rec, step
<1> DEFINE Upto(n) == {terms[t] : t \in 1..n}
           Good == {n \in Nat : n <= Len(terms) => Listed(F[n], Upto(n))}
<1>8. 0 \in Good
  <2>1. SearchHits \in Nat
    BY AssemblerConfig
  <2>2. << >> \in Seq(Segments) /\ Len(<< >>) = 0 /\ Range(<< >>) = {}
        /\ IsInjective(<< >>)
    BY DEF Range, IsInjective
  <2>3. Upto(0) = {}
    OBVIOUS
  <2> HIDE DEF Upto
  <2>4. Listed(<< >>, Upto(0))
    BY <2>1, <2>2, <2>3 DEF Listed
  <2> QED BY <1>6, <2>4
<1>9. ASSUME NEW n \in Nat, n \in Good
      PROVE  n + 1 \in Good
  <2> SUFFICES ASSUME n + 1 <= Len(terms) PROVE Listed(F[n + 1], Upto(n + 1))
    OBVIOUS
  <2>1. F[n + 1] = AddHits(F[n], terms[n + 1])
    BY <1>3, <1>7
  <2>2. Listed(F[n], Upto(n))
    BY <1>3, <1>9
  <2>3. Upto(n + 1) = Upto(n) \union {terms[n + 1]}
    OBVIOUS
  <2> HIDE DEF Upto
  <2>4. Listed(AddHits(F[n], terms[n + 1]), Upto(n) \union {terms[n + 1]})
    BY <2>2, AddHitsLists
  <2> QED BY <2>1, <2>3, <2>4
<1>10. Nat \subseteq Good
  <2> HIDE DEF Good
  <2> QED BY <1>8, <1>9, SetInduction
<1>11. Listed(F[Len(terms)], Upto(Len(terms)))
  <2>1. Len(terms) \in Good
    <3> HIDE DEF Good
    <3> QED BY <1>3, <1>10
  <2> QED BY <1>3, <2>1
<1> QED BY <1>1, <1>3, <1>11 DEF terms

(* In every reachable state of the store, for every question and all       *)
(* limits: nothing is given to the provider twice, and an older segment    *)
(* with a term is listed unless the list is full or newer segments use up  *)
(* the hits of the term.                                                   *)
THEOREM EarlierIsFound == Spec => []EarlierContextHolds
<1>1. IInv => EarlierContextHolds
  <2> SUFFICES ASSUME IInv, NEW q \in Questions
               PROVE  LET earlier == EarlierContext(q)
                          terms   == Range(SearchTerms(q))
                      IN  /\ IsInjective(earlier)
                          /\ Len(earlier) <= SearchHits
                          /\ \A e \in Range(earlier) :
                               /\ e \in Range(Older)
                               /\ terms \intersect Mentions[e.text] # {}
                          /\ \A old \in Range(Older) :
                               \A t \in terms \intersect Mentions[old.text] :
                                 \/ old \in Range(earlier)
                                 \/ Len(earlier) = SearchHits
                                 \/ Cardinality({s \in Range(segments) :
                                       s.id > old.id /\ t \in Mentions[s.text]})
                                      >= HitsPerTerm
    BY DEF EarlierContextHolds
  <2> QED BY EarlierContextLists DEF Listed, NewerWith
<1> QED BY Invariance, <1>1, PTL

----------------------------------------------------------------------------
(* The context assembler: the prompt. *)

Parts == {"question", "recent", "earlier", "source"}

PromptPieces == [part : Parts, text : Texts \union {NoText}, len : Nat]

(* How much is written: the sum over the pieces.                           *)
IsLength(f, out) ==
  /\ f \in [0..Len(out) -> Nat]
  /\ f[0] = 0
  /\ \A n \in 1..Len(out) : f[n] = f[n - 1] + out[n].len

LEMMA WrittenSums ==
  ASSUME NEW out \in Seq(PromptPieces)
  PROVE  \E f : IsLength(f, out) /\ Written(out) = f[Len(out)]
<1> DEFINE Rec(g) == [n \in 0..Len(out) |->
                        IF n = 0 THEN 0 ELSE g[n - 1] + out[n].len]
           F == CHOOSE g : g = Rec(g)
           step == [n \in 1..Len(out) |-> [x \in Nat |-> x + out[n].len]]
<1>1. Len(out) \in Nat /\ \A n \in 1..Len(out) : out[n].len \in Nat
  <2>1. \A n \in 1..Len(out) : out[n] \in PromptPieces
    BY ElementOfSeq
  <2> QED BY <2>1, LenProperties DEF PromptPieces
<1>2. Written(out) = F[Len(out)]
  BY DEF Written
<1>3. \E g : g = Rec(g)
  <2>1. step \in [1..Len(out) -> [Nat -> Nat]]
    BY <1>1
  <2>2. PICK f \in Iterates(Len(out), Nat, 0, step) : TRUE
    <3> HIDE DEF step
    <3>1. Len(out) \in Nat /\ 0 \in Nat
      BY <1>1
    <3>2. Iterates(Len(out), Nat, 0, step) # {}
      BY <2>1, <3>1, Recursion
    <3> QED BY <3>2
  <2>3. /\ f = [n \in 0..Len(out) |-> f[n]] /\ f[0] = 0
        /\ \A n \in 0..Len(out) : f[n] \in Nat
    BY <2>2 DEF Iterates
  <2>4. \A n \in 1..Len(out) : f[n] = f[n - 1] + out[n].len
    <3> TAKE n \in 1..Len(out)
    <3>1. f[n - 1] \in Nat
      BY <1>1, <2>3
    <3> QED BY <2>2, <3>1 DEF Iterates
  <2> HIDE DEF step
  <2>5. \A n \in 0..Len(out) : f[n] = Rec(f)[n]
    <3> TAKE n \in 0..Len(out)
    <3>1. CASE n = 0
      BY <2>3, <3>1
    <3>2. CASE n \in 1..Len(out)
      BY <1>1, <2>4, <3>2
    <3> QED BY <1>1, <3>1, <3>2
  <2>6. f = Rec(f)
    BY <2>3, <2>5
  <2> QED BY <2>6
<1>4. F = Rec(F)
  <2> HIDE DEF Rec
  <2> QED BY <1>3
<1> HIDE DEF F
<1>5. F[0] = 0
  BY <1>1, <1>4
<1>6. \A n \in 1..Len(out) : F[n] = F[n - 1] + out[n].len
  <2> TAKE n \in 1..Len(out)
  <2>1. Rec(F)[n] = F[n - 1] + out[n].len
    BY <1>1
  <2> HIDE DEF Rec
  <2> QED BY <1>4, <2>1
<1>7. F = [n \in 0..Len(out) |-> F[n]]
  BY <1>4
<1> HIDE DEF Rec, step
<1> DEFINE Good == {n \in Nat : n <= Len(out) => F[n] \in Nat}
<1>8. 0 \in Good
  BY <1>5
<1>9. ASSUME NEW n \in Nat, n \in Good
      PROVE  n + 1 \in Good
  BY <1>1, <1>6, <1>9
<1>10. Nat \subseteq Good
  <2> HIDE DEF Good
  <2> QED BY <1>8, <1>9, SetInduction
<1>11. \A n \in 0..Len(out) : F[n] \in Nat
  BY <1>1, <1>10
<1>12. F \in [0..Len(out) -> Nat]
  <2> HIDE DEF Good
  <2> QED BY <1>7, <1>11
<1>13. IsLength(F, out)
  BY <1>5, <1>6, <1>12 DEF IsLength
<1> QED BY <1>2, <1>13

(* A sequence has one length: two sums agree on what two sequences share.  *)
LEMMA LengthsAgree ==
  ASSUME NEW s \in Seq(PromptPieces), NEW t \in Seq(PromptPieces),
         NEW f, IsLength(f, s), NEW g, IsLength(g, t), NEW m \in Nat,
         m <= Len(s), m <= Len(t), \A n \in 1..m : s[n] = t[n]
  PROVE  f[m] = g[m]
<1> DEFINE Good == {n \in Nat : n <= m => f[n] = g[n]}
<1>1. Len(s) \in Nat /\ Len(t) \in Nat
  BY LenProperties
<1>2. 0 \in Good
  BY DEF IsLength
<1>3. ASSUME NEW n \in Nat, n \in Good
      PROVE  n + 1 \in Good
  <2> SUFFICES ASSUME n + 1 <= m PROVE f[n + 1] = g[n + 1]
    OBVIOUS
  <2>1. f[n] = g[n]
    BY <1>3
  <2>2. n + 1 \in 1..Len(s) /\ n + 1 \in 1..Len(t) /\ n + 1 \in 1..m
    BY <1>1
  <2>3. f[n + 1] = f[n] + s[n + 1].len /\ g[n + 1] = g[n] + t[n + 1].len
    BY <2>2 DEF IsLength
  <2> QED BY <2>1, <2>2, <2>3
<1>4. Nat \subseteq Good
  <2> HIDE DEF Good
  <2> QED BY <1>2, <1>3, SetInduction
<1> QED BY <1>4

LEMMA WrittenOfAppend ==
  ASSUME NEW out \in Seq(PromptPieces), NEW piece \in PromptPieces
  PROVE  /\ Written(out) \in Nat
         /\ Written(Append(out, piece)) = Written(out) + piece.len
<1> DEFINE longer == Append(out, piece)
<1>1. /\ longer \in Seq(PromptPieces) /\ Len(longer) = Len(out) + 1
      /\ \A n \in 1..Len(out) : longer[n] = out[n]
      /\ longer[Len(out) + 1] = piece
      /\ Len(out) \in Nat
  BY AppendProperties, LenProperties
<1> HIDE DEF longer
<1>2. PICK f : IsLength(f, out) /\ Written(out) = f[Len(out)]
  BY WrittenSums
<1>3. PICK g : IsLength(g, longer) /\ Written(longer) = g[Len(longer)]
  BY <1>1, WrittenSums
<1>4. f[Len(out)] = g[Len(out)]
  BY <1>1, <1>2, <1>3, LengthsAgree
<1>5. f[Len(out)] \in Nat
  BY <1>1, <1>2 DEF IsLength
<1>6. g[Len(longer)] = g[Len(out)] + piece.len
  <2>1. Len(out) + 1 \in 1..Len(longer)
    BY <1>1
  <2>2. g[Len(out) + 1] = g[Len(out) + 1 - 1] + longer[Len(out) + 1].len
    BY <1>3, <2>1 DEF IsLength
  <2> QED BY <1>1, <2>2
<1> QED BY <1>2, <1>3, <1>4, <1>5, <1>6 DEF longer

LEMMA PiecesType ==
  ASSUME IInv, NEW q \in Questions, NEW sources \in SourceLists
  PROVE  Pieces(q, sources) \in Seq(PromptPieces)
<1> DEFINE earlier == EarlierContext(q)
           blocks  == Fetched(sources)
           first   == <<Piece("question", NoText, PieceFrame + q.len)>>
           second  == SegmentPieces("recent", RecentContext)
           third   == IF earlier = << >> THEN << >>
                      ELSE Heading("earlier") \o SegmentPieces("earlier", earlier)
           listing == [i \in 1..Len(blocks) |->
                         Piece("source", NoText, PieceFrame + 1)]
           fourth  == IF blocks = << >> THEN << >> ELSE Heading("source") \o listing
<1>1. PieceFrame \in Nat /\ q.len \in Nat /\ RecentSegments \in Nat
      /\ sources \in Seq(Range(sources))
  BY AssemblerConfig
<1>2. \A part \in Parts : Heading(part) \in Seq(PromptPieces)
  BY <1>1 DEF Heading, Piece, PromptPieces
<1>3. ASSUME NEW list \in Seq(Segments), NEW part \in Parts
      PROVE  SegmentPieces(part, list) \in Seq(PromptPieces)
  <2>1. /\ Len(list) \in Nat
        /\ \A i \in 1..Len(list) : /\ list[i].text \in Texts
                                  /\ TextChars[list[i].text] \in Nat
    <3>1. \A i \in 1..Len(list) : list[i] \in Segments
      BY ElementOfSeq
    <3>2. \A i \in 1..Len(list) : list[i].text \in Texts
      BY <3>1 DEF Segments
    <3> QED BY <3>2, TextSizesConfig, LenProperties
  <2>2. ASSUME NEW i \in 1..Len(list)
        PROVE  Piece(part, list[i].text, PieceFrame + TextChars[list[i].text])
                 \in PromptPieces
    <3>1. PieceFrame + TextChars[list[i].text] \in Nat
      BY <1>1, <2>1
    <3> QED BY <2>1, <3>1 DEF Piece, PromptPieces
  <2> QED BY <2>1, <2>2 DEF SegmentPieces
<1>4. earlier \in Seq(Segments)
  BY EarlierContextLists DEF Listed
<1>5. RecentContext \in Seq(Segments)
  BY <1>1, RecentProperties DEF RecentContext
<1>6. Len(blocks) \in Nat
  <2> DEFINE P == {i \in 1..Len(sources) :
                     sources[i].readOnly /\ sources[i].result = "text"}
  <2>1. blocks = Subsequence(sources, P)
    BY DEF Fetched
  <2>2. Subsequence(sources, P) \in Seq(Range(sources))
    <3> HIDE DEF P
    <3> QED BY <1>1, SubsequenceProperties
  <2> QED BY <2>1, <2>2, LenProperties
<1> HIDE DEF earlier, blocks
<1>7. first \in Seq(PromptPieces)
  BY <1>1 DEF Piece, PromptPieces, Parts
<1>8. second \in Seq(PromptPieces)
  BY <1>3, <1>5 DEF Parts
<1>9. third \in Seq(PromptPieces)
  <2>1. SegmentPieces("earlier", earlier) \in Seq(PromptPieces)
        /\ Heading("earlier") \in Seq(PromptPieces)
    BY <1>2, <1>3, <1>4 DEF Parts
  <2> QED BY <2>1, ConcatProperties
<1>10. fourth \in Seq(PromptPieces)
  <2>1. listing \in Seq(PromptPieces)
    BY <1>1, <1>6 DEF Piece, PromptPieces, Parts
  <2>2. Heading("source") \in Seq(PromptPieces)
    BY <1>2 DEF Parts
  <2> HIDE DEF listing
  <2> QED BY <2>1, <2>2, ConcatProperties
<1>11. Heading("recent") \in Seq(PromptPieces)
  BY <1>2 DEF Parts
<1>12. Pieces(q, sources) = first \o Heading("recent") \o second \o third \o fourth
  BY DEF Pieces, earlier, blocks
<1> HIDE DEF first, second, third, fourth
<1>13. first \o Heading("recent") \in Seq(PromptPieces)
  BY <1>7, <1>11, ConcatProperties
<1>14. first \o Heading("recent") \o second \in Seq(PromptPieces)
  BY <1>8, <1>13, ConcatProperties
<1>15. first \o Heading("recent") \o second \o third \in Seq(PromptPieces)
  BY <1>9, <1>14, ConcatProperties
<1>16. first \o Heading("recent") \o second \o third \o fourth \in Seq(PromptPieces)
  BY <1>10, <1>15, ConcatProperties
<1> QED BY <1>12, <1>16

(* One call of push_bounded: what is written grows by the piece, up to the *)
(* bound.                                                                  *)
LEMMA PushBoundedEffect ==
  ASSUME NEW out \in Seq(PromptPieces), NEW piece \in PromptPieces
  PROVE  /\ PushBounded(out, piece) \in Seq(PromptPieces)
         /\ Written(out) \in Nat
         /\ Written(out) >= MaxContext => PushBounded(out, piece) = out
         /\ Written(out) < MaxContext =>
              \E len \in Nat :
                /\ PushBounded(out, piece)
                     = Append(out, Piece(piece.part, piece.text, len))
                /\ Written(PushBounded(out, piece)) = Written(out) + len
                /\ IF Written(out) + piece.len <= MaxContext
                   THEN len = piece.len ELSE Written(out) + len = MaxContext
<1> DEFINE room == MaxContext - Written(out)
           len  == Min({piece.len, room})
           cut  == [piece EXCEPT !.len = len]
<1>1. MaxContext \in Nat /\ Written(out) \in Nat /\ piece.len \in Nat
  BY WrittenOfAppend, AssemblerConfig DEF PromptPieces
<1>2. CASE Written(out) >= MaxContext
  BY <1>1, <1>2 DEF PushBounded
<1>3. CASE Written(out) < MaxContext
  <2>1. room \in Nat
    BY <1>1, <1>3
  <2>2. len = IF piece.len <= room THEN piece.len ELSE room
    <3> HIDE DEF room
    <3> QED BY <1>1, <2>1, MinOfTwo
  <2>3. len \in Nat
    BY <1>1, <2>1, <2>2
  <2>4. PushBounded(out, piece) = Append(out, cut)
    BY <1>1, <1>3 DEF PushBounded
  <2> HIDE DEF len
  <2>5. cut \in PromptPieces /\ cut = Piece(piece.part, piece.text, len)
    BY <2>3 DEF Piece, PromptPieces
  <2> HIDE DEF cut
  <2>6. Append(out, cut) \in Seq(PromptPieces)
        /\ Written(Append(out, cut)) = Written(out) + cut.len
    BY <2>5, AppendProperties, WrittenOfAppend
  <2>7. cut.len = len
    BY <2>5 DEF Piece
  <2>8. IF Written(out) + piece.len <= MaxContext
        THEN len = piece.len ELSE Written(out) + len = MaxContext
    BY <1>1, <2>2
  <2> QED BY <1>1, <1>3, <2>3, <2>4, <2>5, <2>6, <2>7, <2>8
<1> QED BY <1>1, <1>2, <1>3

(* After n pieces, whose length is w: all of them are there, or the prompt *)
(* is full and only its last piece was cut.                                *)
CutOnce(out, all, n, w) ==
  /\ out \in Seq(PromptPieces)
  /\ Written(out) = IF w <= MaxContext THEN w ELSE MaxContext
  /\ Len(out) <= n
  /\ Written(out) < MaxContext => Len(out) = n
  /\ \A i \in 1..Len(out) :
       /\ out[i].part = all[i].part /\ out[i].text = all[i].text
       /\ \/ out[i].len = all[i].len
          \/ i = Len(out) /\ Written(out) = MaxContext

LEMMA PushKeepsCutOnce ==
  ASSUME NEW all \in Seq(PromptPieces), NEW n \in Nat, n + 1 <= Len(all),
         NEW w \in Nat, NEW out, CutOnce(out, all, n, w)
  PROVE  CutOnce(PushBounded(out, all[n + 1]), all, n + 1, w + all[n + 1].len)
<1> DEFINE piece == all[n + 1]
           res == PushBounded(out, piece)
<1>1. piece \in PromptPieces
  BY ElementOfSeq, LenProperties
<1>2. piece.len \in Nat /\ MaxContext \in Nat
  BY <1>1, AssemblerConfig DEF PromptPieces
<1>3. /\ out \in Seq(PromptPieces)
      /\ Written(out) = IF w <= MaxContext THEN w ELSE MaxContext
      /\ Len(out) <= n /\ Len(out) \in Nat
      /\ Written(out) < MaxContext => Len(out) = n
      /\ \A i \in 1..Len(out) :
           /\ out[i].part = all[i].part /\ out[i].text = all[i].text
           /\ \/ out[i].len = all[i].len
              \/ i = Len(out) /\ Written(out) = MaxContext
  BY LenProperties DEF CutOnce
<1> HIDE DEF piece
<1>4. /\ res \in Seq(PromptPieces)
      /\ Written(out) \in Nat
      /\ Written(out) >= MaxContext => res = out
      /\ Written(out) < MaxContext =>
           \E len \in Nat :
             /\ res = Append(out, Piece(piece.part, piece.text, len))
             /\ Written(res) = Written(out) + len
             /\ IF Written(out) + piece.len <= MaxContext
                THEN len = piece.len ELSE Written(out) + len = MaxContext
  BY <1>1, <1>3, PushBoundedEffect
<1> HIDE DEF res
<1>5. CASE Written(out) >= MaxContext
  <2>1. res = out
    BY <1>4, <1>5
  <2>2. Written(out) = MaxContext /\ w >= MaxContext
    BY <1>2, <1>3, <1>5
  <2>3. Written(out) = IF w + piece.len <= MaxContext THEN w + piece.len ELSE MaxContext
    BY <1>2, <2>2
  <2>4. CutOnce(out, all, n + 1, w + piece.len)
    <3>1. Len(out) <= n + 1 /\ ~(Written(out) < MaxContext)
      BY <1>2, <1>3, <2>2
    <3> QED BY <1>3, <2>3, <3>1 DEF CutOnce
  <2> QED BY <2>1, <2>4 DEF res, piece
<1>6. CASE Written(out) < MaxContext
  <2>1. PICK len \in Nat :
          /\ res = Append(out, Piece(piece.part, piece.text, len))
          /\ Written(res) = Written(out) + len
          /\ IF Written(out) + piece.len <= MaxContext
             THEN len = piece.len ELSE Written(out) + len = MaxContext
    BY <1>4, <1>6
  <2>2. Written(out) = w /\ Len(out) = n
    BY <1>2, <1>3, <1>6
  <2> DEFINE cut == Piece(piece.part, piece.text, len)
  <2>3. cut \in PromptPieces
    BY <1>1 DEF Piece, PromptPieces
  <2>4. cut.part = piece.part /\ cut.text = piece.text /\ cut.len = len
    BY DEF Piece
  <2>5. res = Append(out, cut)
    BY <2>1
  <2> HIDE DEF cut
  <2>6. /\ Len(res) = n + 1
        /\ \A i \in 1..n : res[i] = out[i]
        /\ res[n + 1] = cut
    BY <1>3, <2>2, <2>3, <2>5, AppendProperties
  <2>7. Written(res) = IF w + piece.len <= MaxContext THEN w + piece.len ELSE MaxContext
    BY <1>2, <2>1, <2>2
  <2>8. ASSUME NEW i \in 1..Len(res)
        PROVE  /\ res[i].part = all[i].part /\ res[i].text = all[i].text
               /\ \/ res[i].len = all[i].len
                  \/ i = Len(res) /\ Written(res) = MaxContext
    <3>1. CASE i = n + 1
      <4>1. res[i].part = all[i].part /\ res[i].text = all[i].text
        BY <2>4, <2>6, <3>1 DEF piece
      <4>2. res[i].len = len /\ all[i].len = piece.len
        BY <2>4, <2>6, <3>1 DEF piece
      <4>3. len = piece.len \/ Written(res) = MaxContext
        BY <1>2, <2>1, <2>2
      <4> QED BY <2>6, <3>1, <4>1, <4>2, <4>3
    <3>2. CASE i \in 1..n
      <4>1. res[i] = out[i] /\ out[i].part = all[i].part
                            /\ out[i].text = all[i].text
        BY <1>3, <2>2, <2>6, <3>2
      <4>2. out[i].len = all[i].len
        BY <1>2, <1>3, <1>4, <1>6, <2>2, <3>2
      <4> QED BY <4>1, <4>2
    <3> QED BY <2>6, <3>1, <3>2
  <2>9. CutOnce(res, all, n + 1, w + piece.len)
    BY <1>4, <2>6, <2>7, <2>8 DEF CutOnce
  <2> QED BY <2>9 DEF res, piece
<1> QED BY <1>2, <1>4, <1>5, <1>6

LEMMA PromptIsCut ==
  ASSUME IInv, NEW q \in Questions, NEW sources \in SourceLists
  PROVE  LET all == Pieces(q, sources)
         IN  CutOnce(Prompt(q, sources), all, Len(all), Written(all))
<1> DEFINE all == Pieces(q, sources)
           Rec(g) == [n \in 0..Len(all) |->
                        IF n = 0 THEN << >> ELSE PushBounded(g[n - 1], all[n])]
           F == CHOOSE g : g = Rec(g)
           step == [n \in 1..Len(all) |-> [x \in Seq(PromptPieces) |->
                      PushBounded(x, all[n])]]
<1>1. all \in Seq(PromptPieces)
  BY PiecesType
<1>2. Prompt(q, sources) = F[Len(all)]
  BY DEF Prompt
<1> HIDE DEF all
<1>3. Len(all) \in Nat /\ \A n \in 1..Len(all) : all[n] \in PromptPieces
  BY <1>1, LenProperties, ElementOfSeq
<1>4. \E g : g = Rec(g)
  <2>1. step \in [1..Len(all) -> [Seq(PromptPieces) -> Seq(PromptPieces)]]
    BY <1>3, PushBoundedEffect
  <2>2. PICK f \in Iterates(Len(all), Seq(PromptPieces), << >>, step) : TRUE
    <3> HIDE DEF step
    <3>1. << >> \in Seq(PromptPieces)
      OBVIOUS
    <3>2. Iterates(Len(all), Seq(PromptPieces), << >>, step) # {}
      BY <1>3, <2>1, <3>1, Recursion
    <3> QED BY <3>2
  <2>3. /\ f = [n \in 0..Len(all) |-> f[n]] /\ f[0] = << >>
        /\ \A n \in 0..Len(all) : f[n] \in Seq(PromptPieces)
    BY <2>2 DEF Iterates
  <2>4. \A n \in 1..Len(all) : f[n] = PushBounded(f[n - 1], all[n])
    <3> TAKE n \in 1..Len(all)
    <3>1. f[n - 1] \in Seq(PromptPieces)
      BY <1>3, <2>3
    <3> QED BY <2>2, <3>1 DEF Iterates
  <2> HIDE DEF step
  <2>5. \A n \in 0..Len(all) : f[n] = Rec(f)[n]
    <3> TAKE n \in 0..Len(all)
    <3>1. CASE n = 0
      BY <2>3, <3>1
    <3>2. CASE n \in 1..Len(all)
      BY <1>3, <2>4, <3>2
    <3> QED BY <1>3, <3>1, <3>2
  <2>6. f = Rec(f)
    BY <2>3, <2>5
  <2> QED BY <2>6
<1>5. F = Rec(F)
  <2> HIDE DEF Rec
  <2> QED BY <1>4
<1> HIDE DEF F
<1>6. F[0] = << >>
  BY <1>3, <1>5
<1>7. \A n \in 1..Len(all) : F[n] = PushBounded(F[n - 1], all[n])
  <2> TAKE n \in 1..Len(all)
  <2>1. Rec(F)[n] = PushBounded(F[n - 1], all[n])
    BY <1>3
  <2> HIDE DEF Rec
  <2> QED BY <1>5, <2>1
<1> HIDE DEF Rec, step
<1>8. PICK W : IsLength(W, all) /\ Written(all) = W[Len(all)]
  BY <1>1, WrittenSums
<1> DEFINE Good == {n \in Nat : n <= Len(all) => CutOnce(F[n], all, n, W[n])}
<1>9. 0 \in Good
  <2>1. Written(<< >>) = 0
    <3>1. << >> \in Seq(PromptPieces) /\ Len(<< >>) = 0
      OBVIOUS
    <3>2. PICK f : IsLength(f, << >>) /\ Written(<< >>) = f[Len(<< >>)]
      BY <3>1, WrittenSums
    <3> QED BY <3>1, <3>2 DEF IsLength
  <2>2. W[0] = 0 /\ MaxContext \in Nat
    BY <1>8, AssemblerConfig DEF IsLength
  <2>3. << >> \in Seq(PromptPieces) /\ Len(<< >>) = 0
    OBVIOUS
  <2>4. CutOnce(<< >>, all, 0, 0)
    BY <2>1, <2>2, <2>3 DEF CutOnce
  <2> QED BY <1>6, <2>2, <2>4
<1>10. ASSUME NEW n \in Nat, n \in Good
       PROVE  n + 1 \in Good
  <2> SUFFICES ASSUME n + 1 <= Len(all)
               PROVE  CutOnce(F[n + 1], all, n + 1, W[n + 1])
    OBVIOUS
  <2>1. CutOnce(F[n], all, n, W[n])
    BY <1>3, <1>10
  <2>2. n + 1 \in 1..Len(all)
    BY <1>3
  <2>3. F[n + 1] = PushBounded(F[n], all[n + 1])
    BY <1>7, <2>2
  <2>4. W[n] \in Nat /\ W[n + 1] = W[n] + all[n + 1].len
    BY <1>8, <2>2 DEF IsLength
  <2>5. CutOnce(PushBounded(F[n], all[n + 1]), all, n + 1, W[n] + all[n + 1].len)
    BY <1>1, <2>1, <2>4, PushKeepsCutOnce
  <2> QED BY <2>3, <2>4, <2>5
<1>11. Nat \subseteq Good
  <2> HIDE DEF Good
  <2> QED BY <1>9, <1>10, SetInduction
<1>12. CutOnce(F[Len(all)], all, Len(all), W[Len(all)])
  <2>1. Len(all) \in Good
    <3> HIDE DEF Good
    <3> QED BY <1>3, <1>11
  <2> QED BY <1>3, <2>1
<1> QED BY <1>2, <1>8, <1>12 DEF all

(* For every question, every list of sources and every transcript: the     *)
(* prompt is the unbounded text cut at MaxContext characters, with nothing *)
(* missing before the cut and nothing written after it.                    *)
THEOREM PromptIsPrefix == Spec => []PromptIsCutOnce
<1>1. IInv => PromptIsCutOnce
  <2> SUFFICES ASSUME IInv, NEW q \in Questions, NEW sources \in SourceLists
               PROVE  LET all == Pieces(q, sources)
                          out == Prompt(q, sources)
                      IN  /\ Written(out) = Min({MaxContext, Written(all)})
                          /\ \A i \in 1..Len(out) :
                               /\ out[i].part = all[i].part
                               /\ out[i].text = all[i].text
                               /\ out[i].len = all[i].len \/ i = Len(out)
    BY DEF PromptIsCutOnce
  <2> DEFINE all == Pieces(q, sources)
  <2>1. CutOnce(Prompt(q, sources), all, Len(all), Written(all))
    BY PromptIsCut
  <2>2. MaxContext \in Nat /\ Written(all) \in Nat
    <3>1. all \in Seq(PromptPieces)
      BY PiecesType
    <3>2. PICK W : IsLength(W, all) /\ Written(all) = W[Len(all)]
      BY <3>1, WrittenSums
    <3>3. Len(all) \in Nat
      BY <3>1, LenProperties
    <3> QED BY <3>2, <3>3, AssemblerConfig DEF IsLength
  <2> HIDE DEF all
  <2>3. Min({MaxContext, Written(all)})
          = IF Written(all) <= MaxContext THEN Written(all) ELSE MaxContext
    BY <2>2, MinOfTwo
  <2> QED BY <2>1, <2>3 DEF CutOnce, all
<1> QED BY Invariance, <1>1, PTL
============================================================================
