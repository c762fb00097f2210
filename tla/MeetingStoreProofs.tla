------------------------- MODULE MeetingStoreProofs -------------------------
(***************************************************************************)
(* The safety of the meeting store, proved for every set of provider ids   *)
(* and texts and every configuration `validate` accepts, and that the      *)
(* store implements the sliding window of TranscriptWindow.                *)
(*                                                                         *)
(* No invariant of the store is inductive alone: the byte counter is exact *)
(* only if it was exact before (BoundsHold), the id queue stays free of    *)
(* repeats only if the set it is tested against mirrors it (SeenInSync),   *)
(* and a retained segment is known to be remembered only through the       *)
(* order of both queues (SeenMatchesSegments).  IInv is their conjunction. *)
(*                                                                         *)
(* In order: least elements and induction over the natural numbers; what   *)
(* the operators of MeetingStore compute; the invariants; the refinement.  *)
(***************************************************************************)
EXTENDS MeetingStore, SequenceTheorems, WellFoundedInduction, TLAPS

IInv ==
  /\ TypeOK
  /\ IdsAreContiguous
  /\ BoundsHold
  /\ SeenInSync
  /\ SeenMatchesSegments

----------------------------------------------------------------------------
(* Least elements and induction over the natural numbers, with sets in the *)
(* place of predicates.                                                    *)

(* The least-number principle, for a set of natural numbers: it rests on   *)
(* the library's theorem that < is well-founded on them.                   *)
LEMMA LeastElement ==
  ASSUME NEW T, T \subseteq Nat, T # {}
  PROVE  \E x \in T : \A y \in T : x <= y
<1> DEFINE R == {p \in Nat \X Nat : p[1] < p[2]}
<1>1. IsWellFoundedOn(R, Nat)
  BY NatLessThanWellFounded DEF OpToRel
<1>2. PICK x \in T : \A y \in T : <<y, x>> \notin R
  <2> HIDE DEF R
  <2> QED BY <1>1, WFMin
<1>3. ASSUME NEW y \in T
      PROVE  x <= y
  <2>1. <<y, x>> \in Nat \X Nat
    OBVIOUS
  <2>2. ~(<<y, x>>[1] < <<y, x>>[2])
    BY <1>2, <2>1
  <2> QED BY <2>2
<1> QED BY <1>3

(* Induction over the natural numbers, with the induction hypothesis as a  *)
(* set.                                                                    *)
LEMMA SetInduction ==
  ASSUME NEW S, 0 \in S, \A n \in Nat : n \in S => n + 1 \in S
  PROVE  Nat \subseteq S
<1> DEFINE T == Nat \ S
<1>1. SUFFICES ASSUME T # {} PROVE FALSE
  OBVIOUS
<1>2. PICK x \in T : \A y \in T : x <= y
  <2> HIDE DEF T
  <2>1. T \subseteq Nat
    BY DEF T
  <2> QED BY <1>1, <2>1, LeastElement
<1>3. x - 1 \in T
  BY <1>2
<1> QED BY <1>2, <1>3

(* Min picks the least element of a set of natural numbers.                *)
LEMMA MinOfSet ==
  ASSUME NEW T, T \subseteq Nat, T # {}
  PROVE  Min(T) \in T /\ \A y \in T : Min(T) <= y
<1>1. \E x \in T : \A y \in T : x <= y
  BY LeastElement
<1> QED BY <1>1 DEF Min

(* Min of a pair, as used for the length of the shared tail.               *)
LEMMA MinOfTwo ==
  ASSUME NEW m \in Nat, NEW n \in Nat
  PROVE  Min({m, n}) = IF m <= n THEN m ELSE n
<1>1. {m, n} \subseteq Nat /\ {m, n} # {}
  OBVIOUS
<1>2. Min({m, n}) \in {m, n} /\ \A y \in {m, n} : Min({m, n}) <= y
  BY <1>1, MinOfSet
<1> QED BY <1>2

----------------------------------------------------------------------------
(* What the operators of MeetingStore compute: sums of text lengths, the   *)
(* number of segments enforce_bounds evicts, and dropping from the front of *)
(* a sequence.                                                             *)

(* The text of a segment has a length in bytes.                            *)
LEMMA TextLenType ==
  ASSUME NEW seg \in Segments
  PROVE  TextLen[seg.text] \in Nat \ {0}
  BY StoreConfig DEF Segments

(* There is a function that sums the text lengths of a sequence of         *)
(* segments, for every length by induction.                                *)
LEMMA SumExists ==
  ASSUME NEW s \in Seq(Segments)
  PROVE  \E f \in [0..Len(s) -> Nat] :
           /\ f[0] = 0
           /\ \A n \in 1..Len(s) : f[n] = f[n - 1] + TextLen[s[n].text]
<1> DEFINE Sums(k) ==
             {f \in [0..k -> Nat] :
                /\ f[0] = 0
                /\ \A n \in 1..k : f[n] = f[n - 1] + TextLen[s[n].text]}
           Good == {k \in Nat : k <= Len(s) => Sums(k) # {}}
<1>1. 0 \in Good
  <2>1. [i \in 0..0 |-> 0] \in Sums(0)
    OBVIOUS
  <2> QED BY <2>1
<1>2. ASSUME NEW k \in Nat, k \in Good
      PROVE  k + 1 \in Good
  <2>1. CASE k + 1 <= Len(s)
    <3>1. PICK f \in Sums(k) : TRUE
      BY <1>2, <2>1
    <3>2. TextLen[s[k + 1].text] \in Nat
      <4>1. s[k + 1] \in Segments
        BY <2>1, ElementOfSeq
      <4> QED BY <4>1, TextLenType
    <3> DEFINE g == [i \in 0..(k + 1) |->
                       IF i = k + 1 THEN f[k] + TextLen[s[k + 1].text]
                                    ELSE f[i]]
    <3>3. g \in [0..(k + 1) -> Nat]
      BY <3>1, <3>2
    <3>4. \A n \in 1..(k + 1) : g[n] = g[n - 1] + TextLen[s[n].text]
      BY <3>1
    <3>5. g[0] = 0
      BY <3>1
    <3>6. g \in Sums(k + 1)
      BY <3>3, <3>4, <3>5
    <3>7. Sums(k + 1) # {}
      BY <3>6
    <3> HIDE DEF Sums
    <3> QED BY <3>7
  <2>2. CASE ~(k + 1 <= Len(s))
    BY <2>2
  <2> QED BY <2>1, <2>2
<1>3. Nat \subseteq Good
  <2> HIDE DEF Good
  <2> QED BY <1>1, <1>2, SetInduction
<1>4. Len(s) \in Good
  <2> HIDE DEF Good
  <2> QED BY <1>3, LenProperties
<1> QED BY <1>4

(* PrefixBytes is that function: the recursion that defines it is sound.   *)
LEMMA PrefixBytesSums ==
  ASSUME NEW s \in Seq(Segments)
  PROVE  /\ PrefixBytes(s) \in [0..Len(s) -> Nat]
         /\ PrefixBytes(s)[0] = 0
         /\ \A n \in 1..Len(s) :
              PrefixBytes(s)[n] = PrefixBytes(s)[n - 1] + TextLen[s[n].text]
<1> DEFINE Rec(g) == [n \in 0..Len(s) |->
                        IF n = 0 THEN 0 ELSE g[n - 1] + TextLen[s[n].text]]
           F == PrefixBytes(s)
<1>1. F = CHOOSE g : g = Rec(g)
  BY DEF PrefixBytes
<1>2. \E g : g = Rec(g)
  <2>1. PICK f \in [0..Len(s) -> Nat] :
           /\ f[0] = 0
           /\ \A n \in 1..Len(s) : f[n] = f[n - 1] + TextLen[s[n].text]
    BY SumExists
  <2>2. f = Rec(f)
    BY <2>1
  <2> QED BY <2>2
<1>3. F = Rec(F)
  <2> HIDE DEF Rec, F
  <2> QED BY <1>1, <1>2
<1>4. Len(s) \in Nat
  BY LenProperties
<1> HIDE DEF F
<1>5. F[0] = 0
  <2>1. Rec(F)[0] = 0
    BY <1>4
  <2> HIDE DEF Rec
  <2> QED BY <1>3, <2>1
<1>6. \A n \in 1..Len(s) : F[n] = F[n - 1] + TextLen[s[n].text]
  <2> TAKE n \in 1..Len(s)
  <2>1. Rec(F)[n] = F[n - 1] + TextLen[s[n].text]
    BY <1>4
  <2> HIDE DEF Rec
  <2> QED BY <1>3, <2>1
<1> DEFINE Good == {n \in Nat : n <= Len(s) => F[n] \in Nat}
<1>7. 0 \in Good
  BY <1>5
<1>8. ASSUME NEW n \in Nat, n \in Good
      PROVE  n + 1 \in Good
  <2>1. CASE n + 1 <= Len(s)
    <3>1. s[n + 1] \in Segments
      BY <1>4, <2>1, ElementOfSeq
    <3>2. TextLen[s[n + 1].text] \in Nat
      BY <3>1, TextLenType
    <3>3. F[n + 1] = F[n] + TextLen[s[n + 1].text]
      BY <1>4, <1>6, <2>1
    <3> QED BY <1>4, <1>8, <2>1, <3>2, <3>3
  <2>2. CASE ~(n + 1 <= Len(s))
    BY <2>2
  <2> QED BY <2>1, <2>2
<1>9. Nat \subseteq Good
  <2> HIDE DEF Good
  <2> QED BY <1>7, <1>8, SetInduction
<1>10. \A n \in 0..Len(s) : F[n] \in Nat
  BY <1>4, <1>9
<1>11. F \in [0..Len(s) -> Nat]
  <2>1. F = [n \in 0..Len(s) |-> F[n]]
    BY <1>3
  <2> HIDE DEF Good
  <2> QED BY <1>10, <2>1
<1> QED BY <1>5, <1>6, <1>11 DEF F

----------------------------------------------------------------------------
(* Dropping the first n elements.                                          *)
LEMMA DropFirstProperties ==
  ASSUME NEW S, NEW s \in Seq(S), NEW n \in 0..Len(s)
  PROVE  /\ DropFirst(s, n) \in Seq(S)
         /\ Len(DropFirst(s, n)) = Len(s) - n
         /\ \A i \in 1..(Len(s) - n) : DropFirst(s, n)[i] = s[i + n]
<1>1. Len(s) \in Nat
  BY LenProperties
<1>2. \A i \in (n + 1)..Len(s) : s[i] \in S
  BY <1>1, ElementOfSeq
<1>3. /\ SubSeq(s, n + 1, Len(s)) \in Seq(S)
      /\ Len(SubSeq(s, n + 1, Len(s)))
           = IF n + 1 <= Len(s) THEN Len(s) - (n + 1) + 1 ELSE 0
      /\ \A i \in 1..(Len(s) - (n + 1) + 1) :
           SubSeq(s, n + 1, Len(s))[i] = s[(n + 1) + i - 1]
  BY <1>1, <1>2, SubSeqProperties
<1> QED BY <1>1, <1>3 DEF DropFirst

(* What the first n elements weigh and what the rest weigh add up to what  *)
(* the whole sequence weighs.                                              *)
LEMMA TextBytesOfDropFirst ==
  ASSUME NEW s \in Seq(Segments), NEW n \in 0..Len(s)
  PROVE  TextBytes(DropFirst(s, n)) = TextBytes(s) - PrefixBytes(s)[n]
<1> DEFINE t == DropFirst(s, n)
           F == PrefixBytes(s)
           G == PrefixBytes(t)
<1>1. Len(s) \in Nat
  BY LenProperties
<1>2. /\ t \in Seq(Segments)
      /\ Len(t) = Len(s) - n
      /\ \A i \in 1..(Len(s) - n) : t[i] = s[i + n]
  BY DropFirstProperties
<1>3. /\ F \in [0..Len(s) -> Nat]
      /\ \A k \in 1..Len(s) : F[k] = F[k - 1] + TextLen[s[k].text]
  BY PrefixBytesSums
<1>4. /\ G \in [0..Len(t) -> Nat]
      /\ G[0] = 0
      /\ \A k \in 1..Len(t) : G[k] = G[k - 1] + TextLen[t[k].text]
  <2> HIDE DEF t
  <2> QED BY <1>2, PrefixBytesSums
<1> HIDE DEF t, F, G
<1> DEFINE Good == {k \in Nat : k <= Len(t) => G[k] = F[n + k] - F[n]}
<1>5. 0 \in Good
  BY <1>1, <1>3, <1>4
<1>6. ASSUME NEW k \in Nat, k \in Good
      PROVE  k + 1 \in Good
  <2>1. CASE k + 1 <= Len(t)
    <3>1. G[k + 1] = G[k] + TextLen[t[k + 1].text]
      BY <1>1, <1>2, <1>4, <2>1
    <3>2. F[n + k + 1] = F[n + k] + TextLen[s[n + k + 1].text]
      BY <1>1, <1>2, <1>3, <2>1
    <3>3. t[k + 1] = s[n + k + 1]
      BY <1>1, <1>2, <2>1
    <3>4. s[n + k + 1] \in Segments
      BY <1>1, <1>2, <2>1, ElementOfSeq
    <3>5. TextLen[s[n + k + 1].text] \in Nat
      BY <3>4, TextLenType
    <3>6. F[n] \in Nat /\ F[n + k] \in Nat
      <4>1. n \in 0..Len(s) /\ n + k \in 0..Len(s)
        BY <1>1, <1>2, <2>1
      <4> QED BY <1>3, <4>1
    <3>7. G[k] = F[n + k] - F[n]
      BY <1>1, <1>2, <1>6, <2>1
    <3>8. G[k + 1] = F[n + k + 1] - F[n]
      BY <3>1, <3>2, <3>3, <3>5, <3>6, <3>7
    <3> QED BY <3>8
  <2>2. CASE ~(k + 1 <= Len(t))
    BY <2>2
  <2> QED BY <2>1, <2>2
<1>7. Nat \subseteq Good
  <2> HIDE DEF Good
  <2> QED BY <1>5, <1>6, SetInduction
<1>8. G[Len(t)] = F[Len(s)] - F[n]
  BY <1>1, <1>2, <1>7
<1> QED BY <1>8 DEF TextBytes, t, F, G

(* One more segment weighs its own length more.                            *)
LEMMA TextBytesOfAppend ==
  ASSUME NEW s \in Seq(Segments), NEW seg \in Segments
  PROVE  TextBytes(Append(s, seg)) = TextBytes(s) + TextLen[seg.text]
<1> DEFINE t == Append(s, seg)
           F == PrefixBytes(s)
           G == PrefixBytes(t)
<1>1. Len(s) \in Nat
  BY LenProperties
<1>2. /\ t \in Seq(Segments)
      /\ Len(t) = Len(s) + 1
      /\ \A i \in 1..Len(s) : t[i] = s[i]
      /\ t[Len(s) + 1] = seg
  BY <1>1, AppendProperties
<1>3. /\ F \in [0..Len(s) -> Nat]
      /\ F[0] = 0
      /\ \A k \in 1..Len(s) : F[k] = F[k - 1] + TextLen[s[k].text]
  BY PrefixBytesSums
<1>4. /\ G \in [0..Len(t) -> Nat]
      /\ G[0] = 0
      /\ \A k \in 1..Len(t) : G[k] = G[k - 1] + TextLen[t[k].text]
  <2> HIDE DEF t
  <2> QED BY <1>2, PrefixBytesSums
<1> HIDE DEF t, F, G
<1> DEFINE Good == {k \in Nat : k <= Len(s) => G[k] = F[k]}
<1>5. 0 \in Good
  BY <1>3, <1>4
<1>6. ASSUME NEW k \in Nat, k \in Good
      PROVE  k + 1 \in Good
  <2>1. CASE k + 1 <= Len(s)
    <3>1. G[k + 1] = G[k] + TextLen[t[k + 1].text]
      BY <1>1, <1>2, <1>4, <2>1
    <3>2. F[k + 1] = F[k] + TextLen[s[k + 1].text]
      BY <1>1, <1>3, <2>1
    <3>3. t[k + 1] = s[k + 1]
      BY <1>1, <1>2, <2>1
    <3>4. G[k] = F[k]
      BY <1>1, <1>6, <2>1
    <3> QED BY <3>1, <3>2, <3>3, <3>4
  <2>2. CASE ~(k + 1 <= Len(s))
    BY <2>2
  <2> QED BY <2>1, <2>2
<1>7. Nat \subseteq Good
  <2> HIDE DEF Good
  <2> QED BY <1>5, <1>6, SetInduction
<1>8. G[Len(s)] = F[Len(s)]
  BY <1>1, <1>7
<1>9. G[Len(t)] = G[Len(s)] + TextLen[seg.text]
  BY <1>1, <1>2, <1>4
<1> QED BY <1>8, <1>9 DEF TextBytes, t, F, G

(* A sequence of segments weighs a natural number, and one segment weighs  *)
(* its own length.                                                         *)
LEMMA TextBytesType ==
  ASSUME NEW s \in Seq(Segments)
  PROVE  /\ TextBytes(s) \in Nat
         /\ Len(s) = 0 => TextBytes(s) = 0
         /\ Len(s) = 1 => TextBytes(s) = TextLen[s[1].text]
<1>1. Len(s) \in Nat
  BY LenProperties
<1>2. /\ PrefixBytes(s) \in [0..Len(s) -> Nat]
      /\ PrefixBytes(s)[0] = 0
      /\ \A n \in 1..Len(s) :
           PrefixBytes(s)[n] = PrefixBytes(s)[n - 1] + TextLen[s[n].text]
  BY PrefixBytesSums
<1>3. ASSUME Len(s) = 1
      PROVE  TextBytes(s) = TextLen[s[1].text]
  <2>1. TextLen[s[1].text] \in Nat
    BY <1>3, TextLenType, ElementOfSeq
  <2> QED BY <1>2, <1>3, <2>1 DEF TextBytes
<1> QED BY <1>1, <1>2, <1>3 DEF TextBytes

(* enforce_bounds pops a prefix; when the counter it starts from is the    *)
(* weight of the sequence and the last segment fits on its own, it leaves  *)
(* at least that segment, what it leaves is within both bounds, and what   *)
(* any shorter prefix would leave is not.                                  *)
LEMMA EvictionsProperties ==
  ASSUME NEW s \in Seq(Segments), s # << >>,
         TextLen[s[Len(s)].text] <= MaxTextBytes
  PROVE  LET n == Evictions(s, TextBytes(s))
             kept == DropFirst(s, n)
         IN  /\ n \in 0..(Len(s) - 1)
             /\ Len(kept) <= MaxSegments
             /\ TextBytes(kept) <= MaxTextBytes
             /\ SaturatingSub(TextBytes(s), PrefixBytes(s)[n])
                  = TextBytes(kept)
             /\ \A k \in 0..(n - 1) :
                  \/ Len(DropFirst(s, k)) > MaxSegments
                  \/ TextBytes(DropFirst(s, k)) > MaxTextBytes
<1> DEFINE b == TextBytes(s)
           Fits(n) == /\ Len(s) - n <= MaxSegments
                      /\ SaturatingSub(b, PrefixBytes(s)[n]) <= MaxTextBytes
           T == {n \in 0..Len(s) : n = Len(s) \/ Fits(n)}
           n == Evictions(s, b)
<1>1. Len(s) \in Nat \ {0}
  BY EmptySeq
<1>2. b \in Nat
  BY TextBytesType
<1>3. \A k \in 0..Len(s) :
        /\ SaturatingSub(b, PrefixBytes(s)[k]) = TextBytes(DropFirst(s, k))
        /\ TextBytes(DropFirst(s, k)) \in Nat
  <2> TAKE k \in 0..Len(s)
  <2>1. TextBytes(DropFirst(s, k)) = b - PrefixBytes(s)[k]
    BY TextBytesOfDropFirst
  <2>2. TextBytes(DropFirst(s, k)) \in Nat
    BY DropFirstProperties, TextBytesType
  <2>3. PrefixBytes(s)[k] \in Nat
    BY PrefixBytesSums
  <2> HIDE DEF b
  <2> QED BY <1>2, <2>1, <2>2, <2>3 DEF SaturatingSub
<1>4. Len(s) - 1 \in T
  <2>1. MaxSegments \in Nat \ {0} /\ MaxTextBytes \in Nat
    BY StoreConfig
  <2> DEFINE last == DropFirst(s, Len(s) - 1)
  <2>2. Len(s) - 1 \in 0..Len(s)
    BY <1>1
  <2>3. last \in Seq(Segments) /\ Len(last) = 1 /\ last[1] = s[Len(s)]
    <3>1. /\ last \in Seq(Segments)
          /\ Len(last) = Len(s) - (Len(s) - 1)
          /\ \A i \in 1..(Len(s) - (Len(s) - 1)) :
               last[i] = s[i + (Len(s) - 1)]
      BY <2>2, DropFirstProperties
    <3> HIDE DEF last
    <3> QED BY <1>1, <3>1
  <2>4. TextBytes(last) = TextLen[s[Len(s)].text]
    <3> HIDE DEF last
    <3> QED BY <2>3, TextBytesType
  <2>5. SaturatingSub(b, PrefixBytes(s)[Len(s) - 1]) <= MaxTextBytes
    BY <1>3, <2>2, <2>4
  <2> QED BY <1>1, <2>1, <2>2, <2>5
<1>5. n = Min(T)
  BY DEF Evictions
<1>6. n \in T /\ \A k \in T : n <= k
  <2>1. T \subseteq Nat /\ T # {}
    BY <1>4
  <2> HIDE DEF T, n
  <2> QED BY <1>5, <2>1, MinOfSet
<1>7. n \in 0..Len(s) /\ n <= Len(s) - 1
  BY <1>4, <1>6
<1>8. Fits(n)
  <2> HIDE DEF n
  <2> QED BY <1>1, <1>6, <1>7
<1>9. Len(DropFirst(s, n)) = Len(s) - n
  <2> HIDE DEF n
  <2> QED BY <1>7, DropFirstProperties
<1> HIDE DEF n
<1>10. /\ n \in 0..(Len(s) - 1)
       /\ Len(DropFirst(s, n)) <= MaxSegments
       /\ TextBytes(DropFirst(s, n)) <= MaxTextBytes
       /\ SaturatingSub(b, PrefixBytes(s)[n]) = TextBytes(DropFirst(s, n))
  BY <1>1, <1>3, <1>7, <1>8, <1>9
<1>11. ASSUME NEW k \in 0..(n - 1)
       PROVE  \/ Len(DropFirst(s, k)) > MaxSegments
              \/ TextBytes(DropFirst(s, k)) > MaxTextBytes
  <2>1. k \in 0..Len(s) /\ k < n
    BY <1>1, <1>7
  <2>2. k \notin T
    <3> HIDE DEF T
    <3> QED BY <1>1, <1>6, <1>7, <2>1
  <2>3. ~Fits(k)
    BY <2>1, <2>2
  <2>4. Len(DropFirst(s, k)) = Len(s) - k
    BY <2>1, DropFirstProperties
  <2>5. MaxSegments \in Nat /\ MaxTextBytes \in Nat
    BY StoreConfig
  <2> QED BY <1>1, <1>3, <2>1, <2>3, <2>4, <2>5
<1> QED BY <1>10, <1>11 DEF n

----------------------------------------------------------------------------
(* What an operation does to the invariants.                               *)

(* remember_provider_id on a new id: the queue grows by it and, when it    *)
(* was full, loses its oldest; the set follows.                            *)
LEMMA RememberEffect ==
  ASSUME TypeOK, SeenInSync,
         NEW pid \in ProviderIds, ~IsDuplicate(pid), Remember(pid)
  PROVE  LET order == Append(seenOrder, pid)
             d == IF Len(seenOrder) = DuplicateMemory THEN 1 ELSE 0
         IN  /\ seenOrder' \in Seq(ProviderIds)
             /\ Len(seenOrder') = Len(seenOrder) + 1 - d
             /\ \A i \in 1..Len(seenOrder') : seenOrder'[i] = order[i + d]
             /\ seenIds' = Range(seenOrder')
             /\ IsInjective(seenOrder')
<1> DEFINE order == Append(seenOrder, pid)
           d == IF Len(seenOrder) = DuplicateMemory THEN 1 ELSE 0
           len == Len(seenOrder)
<1>1. /\ seenOrder \in Seq(ProviderIds)
      /\ len \in Nat
      /\ DOMAIN seenOrder = 1..len
      /\ DuplicateMemory \in Nat \ {0}
      /\ nextSegmentId - 1 \in Nat
  BY StoreConfig, LenProperties DEF TypeOK
<1>2. len <= DuplicateMemory
  BY <1>1, MinOfTwo DEF SeenInSync
<1>3. /\ order \in Seq(ProviderIds)
      /\ Len(order) = len + 1
      /\ \A i \in 1..len : order[i] = seenOrder[i]
      /\ order[len + 1] = pid
  BY <1>1, AppendProperties
<1>4. SaturatingSub(Len(order), DuplicateMemory) = d
  <2>1. Len(order) = len + 1
    BY <1>3
  <2>2. d = IF len = DuplicateMemory THEN 1 ELSE 0
    OBVIOUS
  <2>3. \A m, k \in Nat : SaturatingSub(m, k) = IF m > k THEN m - k ELSE 0
    BY DEF SaturatingSub
  <2> HIDE DEF order, len, d
  <2>4. SaturatingSub(len + 1, DuplicateMemory)
          = IF len + 1 > DuplicateMemory THEN len + 1 - DuplicateMemory ELSE 0
    BY <1>1, <2>3
  <2>5. SaturatingSub(len + 1, DuplicateMemory) = d
    <3>1. CASE len = DuplicateMemory
      BY <1>1, <2>2, <2>4, <3>1
    <3>2. CASE len < DuplicateMemory
      BY <1>1, <2>2, <2>4, <3>2
    <3> QED BY <1>1, <1>2, <3>1, <3>2
  <2> QED BY <2>1, <2>5
<1>5. d \in {0, 1}
  OBVIOUS
<1> HIDE DEF d
<1>6. seenOrder' = DropFirst(order, d)
  BY <1>4 DEF Remember, order
<1> HIDE DEF order, len
<1>7. /\ seenOrder' \in Seq(ProviderIds)
      /\ Len(seenOrder') = len + 1 - d
      /\ \A i \in 1..(len + 1 - d) : seenOrder'[i] = order[i + d]
  <2>1. d \in 0..Len(order)
    BY <1>1, <1>3, <1>5
  <2>2. /\ DropFirst(order, d) \in Seq(ProviderIds)
        /\ Len(DropFirst(order, d)) = Len(order) - d
        /\ \A i \in 1..(Len(order) - d) :
             DropFirst(order, d)[i] = order[i + d]
    BY <1>3, <2>1, DropFirstProperties
  <2> DEFINE kept == DropFirst(order, d)
  <2>3. Len(order) - d = len + 1 - d
    BY <1>1, <1>3, <1>5
  <2>4. /\ kept \in Seq(ProviderIds)
        /\ Len(kept) = len + 1 - d
        /\ \A i \in 1..(len + 1 - d) : kept[i] = order[i + d]
    BY <2>2, <2>3
  <2>5. seenOrder' = kept
    BY <1>6
  <2> HIDE DEF kept
  <2> QED BY <2>4, <2>5
<1>8. DOMAIN seenOrder' = 1..(len + 1 - d)
  BY <1>7, LenProperties
<1>9. \A i, j \in 1..(len + 1) : order[i] = order[j] => i = j
  <2>1. \A i \in 1..len : seenOrder[i] # pid
    BY <1>1 DEF SeenInSync, IsDuplicate, Range, len
  <2>2. \A i, j \in 1..len : seenOrder[i] = seenOrder[j] => i = j
    BY <1>1 DEF SeenInSync, IsInjective, len
  <2> QED BY <1>1, <1>3, <2>1, <2>2
<1>10. IsInjective(seenOrder')
  <2> SUFFICES ASSUME NEW i \in 1..(len + 1 - d), NEW j \in 1..(len + 1 - d),
                      seenOrder'[i] = seenOrder'[j]
               PROVE  i = j
    BY <1>8 DEF IsInjective
  <2>1. order[i + d] = order[j + d]
    BY <1>7
  <2>2. i + d \in 1..(len + 1) /\ j + d \in 1..(len + 1)
    BY <1>1, <1>5
  <2> QED BY <1>5, <1>9, <2>1, <2>2
<1>11. seenIds' = Range(seenOrder')
  <2>1. seenIds = {seenOrder[i] : i \in 1..len}
    BY <1>1 DEF SeenInSync, Range, len
  <2>2. seenIds \union {pid} = {order[i] : i \in 1..(len + 1)}
    <3>1. \A i \in 1..(len + 1) : i \in 1..len \/ i = len + 1
      BY <1>1
    <3>2. \A i \in 1..len : i \in 1..(len + 1)
      BY <1>1
    <3>3. len + 1 \in 1..(len + 1)
      BY <1>1
    <3> QED BY <1>3, <2>1, <3>1, <3>2, <3>3
  <2>3. seenIds' = {order[i] : i \in 1..(len + 1)} \ {order[i] : i \in 1..d}
    <3>1. SaturatingSub(Len(Append(seenOrder, pid)), DuplicateMemory) = d
      BY <1>4 DEF order
    <3> QED BY <2>2, <3>1 DEF Remember, order
  <2>4. Range(seenOrder') = {order[i + d] : i \in 1..(len + 1 - d)}
    BY <1>7, <1>8 DEF Range
  <2>5. {order[i] : i \in 1..(len + 1)} \ {order[i] : i \in 1..d}
          = {order[i] : i \in (d + 1)..(len + 1)}
    <3>1. \A i \in 1..(len + 1) : i \in 1..d \/ i \in (d + 1)..(len + 1)
      BY <1>1, <1>5
    <3>2. \A i \in (d + 1)..(len + 1) : i \in 1..(len + 1) /\ i \notin 1..d
      BY <1>1, <1>5
    <3>3. \A i \in 1..d : i \in 1..(len + 1)
      BY <1>1, <1>5
    <3> QED BY <1>9, <3>1, <3>2, <3>3
  <2>6. {order[i] : i \in (d + 1)..(len + 1)}
          = {order[i + d] : i \in 1..(len + 1 - d)}
    <3>1. \A i \in (d + 1)..(len + 1) :
            i - d \in 1..(len + 1 - d) /\ i = (i - d) + d
      BY <1>1, <1>5
    <3>2. \A i \in 1..(len + 1 - d) : i + d \in (d + 1)..(len + 1)
      BY <1>1, <1>5
    <3> QED BY <3>1, <3>2
  <2> QED BY <2>3, <2>4, <2>5, <2>6
<1> QED BY <1>7, <1>10, <1>11 DEF order, d, len

(* enforce_bounds after a final that fits: what stays is a non-empty end   *)
(* of the extended log, within both bounds, and the counter weighs it.     *)
LEMMA AcceptEffect ==
  ASSUME TypeOK, BoundsHold,
         NEW pid \in ProviderIds, NEW text \in Texts, Accept(pid, text)
  PROVE  LET new  == [id |-> nextSegmentId, pid |-> pid, text |-> text]
             full == Append(segments, new)
         IN  \E n \in 0..Len(segments) :
               /\ segments' \in Seq(Segments)
               /\ Len(segments') = Len(segments) + 1 - n
               /\ \A i \in 1..Len(segments') : segments'[i] = full[i + n]
               /\ Len(segments') <= MaxSegments
               /\ retainedTextBytes' = TextBytes(segments')
               /\ retainedTextBytes' \in Nat
               /\ retainedTextBytes' <= MaxTextBytes
<1> DEFINE new  == [id |-> nextSegmentId, pid |-> pid, text |-> text]
           full == Append(segments, new)
           n    == Evictions(full, TextBytes(full))
<1>1. segments \in Seq(Segments) /\ Len(segments) \in Nat
  BY LenProperties DEF TypeOK
<1>2. new \in Segments
  BY DEF TypeOK, Segments
<1>3. /\ full \in Seq(Segments)
      /\ Len(full) = Len(segments) + 1
      /\ full[Len(full)] = new
  <2> HIDE DEF new
  <2> QED BY <1>1, <1>2, AppendProperties
<1>4. TextBytes(full) = retainedTextBytes + TextLen[text]
  <2>1. TextBytes(full) = TextBytes(segments) + TextLen[new.text]
    <3> HIDE DEF new
    <3> QED BY <1>1, <1>2, TextBytesOfAppend
  <2> QED BY <2>1 DEF BoundsHold
<1>5. TextLen[full[Len(full)].text] <= MaxTextBytes
  <2>1. TextLen[text] \in Nat /\ MaxTextBytes \in Nat
    BY StoreConfig
  <2>2. TextLen[text] <= MaxTextBytes
    BY <2>1 DEF Accept, IsAccepted, IsTooLarge
  <2> HIDE DEF full
  <2> QED BY <1>3, <2>2
<1>6. full # << >>
  <2> HIDE DEF full
  <2> QED BY <1>1, <1>3, EmptySeq
<1>7. EnforceBounds(full, TextBytes(full))
  BY <1>4 DEF Accept
<1> HIDE DEF full
<1>8. /\ n \in 0..(Len(full) - 1)
      /\ Len(DropFirst(full, n)) <= MaxSegments
      /\ TextBytes(DropFirst(full, n)) <= MaxTextBytes
      /\ SaturatingSub(TextBytes(full), PrefixBytes(full)[n])
           = TextBytes(DropFirst(full, n))
  BY <1>3, <1>5, <1>6, EvictionsProperties
<1>9. /\ segments' = DropFirst(full, n)
      /\ retainedTextBytes' = TextBytes(DropFirst(full, n))
  BY <1>7, <1>8 DEF EnforceBounds
<1> HIDE DEF n
<1>10. /\ DropFirst(full, n) \in Seq(Segments)
       /\ Len(DropFirst(full, n)) = Len(full) - n
       /\ \A i \in 1..(Len(full) - n) : DropFirst(full, n)[i] = full[i + n]
  <2>1. n \in 0..Len(full)
    BY <1>1, <1>3, <1>8
  <2> QED BY <1>3, <2>1, DropFirstProperties
<1>11. retainedTextBytes' \in Nat
  BY <1>9, <1>10, TextBytesType
<1>12. n \in 0..Len(segments)
  BY <1>1, <1>3, <1>8
<1> DEFINE Left(k) ==
             /\ segments' \in Seq(Segments)
             /\ Len(segments') = Len(segments) + 1 - k
             /\ \A i \in 1..Len(segments') : segments'[i] = full[i + k]
             /\ Len(segments') <= MaxSegments
             /\ retainedTextBytes' = TextBytes(segments')
             /\ retainedTextBytes' \in Nat
             /\ retainedTextBytes' <= MaxTextBytes
<1>13. Left(n)
  <2>1. Len(segments') = Len(full) - n
    BY <1>9, <1>10
  <2>2. \A i \in 1..Len(segments') : segments'[i] = full[i + n]
    BY <1>9, <1>10, <2>1
  <2>3. Len(segments') = Len(segments) + 1 - n
    BY <1>1, <1>3, <1>12, <2>1
  <2> QED BY <1>8, <1>9, <1>10, <1>11, <2>2, <2>3
<1>14. \E k \in 0..Len(segments) : Left(k)
  <2> HIDE DEF Left
  <2> QED BY <1>12, <1>13
<1> QED BY <1>14 DEF full

(* An empty store satisfies the invariant, whatever the counters.          *)
LEMMA ClearedStore ==
  ASSUME ClearSessionState, sessionId' \in Nat, active' \in BOOLEAN
  PROVE  IInv'
<1>1. /\ segments' \in Seq(Segments)
      /\ seenOrder' \in Seq(ProviderIds)
      /\ Len(segments') = 0
      /\ Len(seenOrder') = 0
      /\ DOMAIN seenOrder' = {}
  BY EmptySeq DEF ClearSessionState
<1>2. TypeOK'
  BY <1>1 DEF ClearSessionState, TypeOK
<1>3. IdsAreContiguous'
  BY <1>1 DEF ClearSessionState, IdsAreContiguous
<1>4. BoundsHold'
  <2>1. TextBytes(segments') = 0
    BY <1>1, TextBytesType
  <2>2. MaxSegments \in Nat /\ MaxTextBytes \in Nat
    BY StoreConfig
  <2> QED BY <1>1, <2>1, <2>2 DEF ClearSessionState, BoundsHold
<1>5. SeenInSync'
  <2>1. seenIds' = Range(seenOrder') /\ IsInjective(seenOrder')
    BY <1>1 DEF ClearSessionState, Range, IsInjective
  <2>2. Min({DuplicateMemory, nextSegmentId' - 1}) = 0
    <3>1. DuplicateMemory \in Nat \ {0} /\ nextSegmentId' - 1 = 0
      BY StoreConfig DEF ClearSessionState
    <3>2. Min({DuplicateMemory, 0}) = 0
      BY <3>1, MinOfTwo
    <3> QED BY <3>1, <3>2
  <2> QED BY <1>1, <2>1, <2>2 DEF SeenInSync
<1>6. SeenMatchesSegments'
  <2>1. Min({Len(segments'), Len(seenOrder')}) = 0
    BY <1>1, MinOfTwo
  <2>2. 0..(Min({Len(segments'), Len(seenOrder')}) - 1) = {}
    BY <2>1
  <2> QED BY <2>2 DEF SeenMatchesSegments
<1> QED BY <1>2, <1>3, <1>4, <1>5, <1>6 DEF IInv

----------------------------------------------------------------------------
(* Accepting a final preserves the invariant.                              *)
LEMMA AcceptPreserves ==
  ASSUME IInv, NEW pid \in ProviderIds, NEW text \in Texts,
         Accept(pid, text)
  PROVE  IInv'
<1> DEFINE new   == [id |-> nextSegmentId, pid |-> pid, text |-> text]
           full  == Append(segments, new)
           order == Append(seenOrder, pid)
           d     == IF Len(seenOrder) = DuplicateMemory THEN 1 ELSE 0
<1>1. /\ segments \in Seq(Segments) /\ Len(segments) \in Nat
      /\ seenOrder \in Seq(ProviderIds) /\ Len(seenOrder) \in Nat
      /\ nextSegmentId \in Nat \ {0}
      /\ DuplicateMemory \in Nat \ {0}
  BY StoreConfig, LenProperties DEF IInv, TypeOK
<1>2. new \in Segments
  BY <1>1 DEF Segments
<1>3. /\ \A i \in 1..Len(segments) : full[i] = segments[i]
      /\ full[Len(segments) + 1] = new
      /\ \A i \in 1..Len(seenOrder) : order[i] = seenOrder[i]
      /\ order[Len(seenOrder) + 1] = pid
  <2> HIDE DEF new
  <2> QED BY <1>1, <1>2, AppendProperties
<1>4. nextSegmentId' = nextSegmentId + 1
  BY DEF Accept
<1>5. PICK n \in 0..Len(segments) :
        /\ segments' \in Seq(Segments)
        /\ Len(segments') = Len(segments) + 1 - n
        /\ \A i \in 1..Len(segments') : segments'[i] = full[i + n]
        /\ Len(segments') <= MaxSegments
        /\ retainedTextBytes' = TextBytes(segments')
        /\ retainedTextBytes' \in Nat
        /\ retainedTextBytes' <= MaxTextBytes
  BY AcceptEffect DEF IInv
<1>6. /\ seenOrder' \in Seq(ProviderIds)
      /\ Len(seenOrder') = Len(seenOrder) + 1 - d
      /\ \A i \in 1..Len(seenOrder') : seenOrder'[i] = order[i + d]
      /\ seenIds' = Range(seenOrder')
      /\ IsInjective(seenOrder')
  BY RememberEffect DEF IInv, Accept, IsAccepted
<1>7. d \in {0, 1}
  OBVIOUS
<1>8. Len(seenOrder) = Min({DuplicateMemory, nextSegmentId - 1})
  BY DEF IInv, SeenInSync
<1>9. Len(seenOrder) = IF DuplicateMemory <= nextSegmentId - 1
                       THEN DuplicateMemory ELSE nextSegmentId - 1
  BY <1>1, <1>8, MinOfTwo
<1> HIDE DEF full, order, new
<1>10. TypeOK'
  <2>1. seenIds' \subseteq ProviderIds
    <3>1. DOMAIN seenOrder' = 1..Len(seenOrder')
      BY <1>6, LenProperties
    <3>2. \A i \in 1..Len(seenOrder') : seenOrder'[i] \in ProviderIds
      BY <1>6, ElementOfSeq
    <3> QED BY <1>6, <3>1, <3>2 DEF Range
  <2>2. sessionId' \in Nat /\ active' \in BOOLEAN
    BY DEF IInv, TypeOK, Accept
  <2> QED BY <1>1, <1>4, <1>5, <1>6, <2>1, <2>2 DEF TypeOK
<1>11. IdsAreContiguous'
  <2>1. /\ Len(segments) < nextSegmentId
        /\ \A i \in 1..Len(segments) :
             segments[i].id = nextSegmentId - 1 - Len(segments) + i
    BY DEF IInv, IdsAreContiguous
  <2>2. Len(segments') < nextSegmentId'
    BY <1>1, <1>4, <1>5, <2>1
  <2>3. ASSUME NEW i \in 1..Len(segments')
        PROVE  segments'[i].id = nextSegmentId' - 1 - Len(segments') + i
    <3>1. segments'[i] = full[i + n]
      BY <1>5
    <3>2. i + n \in 1..(Len(segments) + 1)
      BY <1>1, <1>5
    <3>3. CASE i + n = Len(segments) + 1
      <4>1. segments'[i].id = nextSegmentId
        BY <1>3, <3>1, <3>3 DEF new
      <4>2. i = Len(segments')
        BY <1>1, <1>5, <3>3
      <4> QED BY <1>1, <1>4, <1>5, <4>1, <4>2
    <3>4. CASE i + n \in 1..Len(segments)
      <4>1. segments'[i].id = nextSegmentId - 1 - Len(segments) + (i + n)
        BY <1>3, <2>1, <3>1, <3>4
      <4> QED BY <1>1, <1>4, <1>5, <4>1
    <3> QED BY <1>1, <3>2, <3>3, <3>4
  <2> QED BY <2>2, <2>3 DEF IdsAreContiguous
<1>12. BoundsHold'
  BY <1>5 DEF BoundsHold
<1>13. SeenInSync'
  <2>1. nextSegmentId' - 1 \in Nat
    BY <1>1, <1>4
  <2>2. Min({DuplicateMemory, nextSegmentId' - 1})
          = IF DuplicateMemory <= nextSegmentId' - 1
            THEN DuplicateMemory ELSE nextSegmentId' - 1
    BY <1>1, <2>1, MinOfTwo
  <2>3. Len(seenOrder') = Min({DuplicateMemory, nextSegmentId' - 1})
    <3>1. Len(seenOrder') = IF DuplicateMemory <= nextSegmentId' - 1
                            THEN DuplicateMemory ELSE nextSegmentId' - 1
      <4>1. CASE Len(seenOrder) = DuplicateMemory
        <5>1. Len(seenOrder') = DuplicateMemory
          BY <1>1, <1>6, <4>1
        <5>2. DuplicateMemory <= nextSegmentId - 1
          BY <1>1, <1>9, <4>1
        <5> QED BY <1>1, <1>4, <5>1, <5>2
      <4>2. CASE Len(seenOrder) # DuplicateMemory
        <5>1. Len(seenOrder') = Len(seenOrder) + 1
          BY <1>1, <1>6, <4>2
        <5>2. /\ Len(seenOrder) = nextSegmentId - 1
              /\ nextSegmentId - 1 < DuplicateMemory
          BY <1>1, <1>9, <4>2
        <5> QED BY <1>1, <1>4, <5>1, <5>2
      <4> QED BY <4>1, <4>2
    <3> QED BY <2>2, <3>1
  <2> QED BY <1>6, <2>3 DEF SeenInSync
<1>14. SeenMatchesSegments'
  <2>1. \A k \in Nat : k < Len(segments) /\ k < Len(seenOrder) =>
          segments[Len(segments) - k].pid = seenOrder[Len(seenOrder) - k]
    <3>1. Min({Len(segments), Len(seenOrder)})
            = IF Len(segments) <= Len(seenOrder)
              THEN Len(segments) ELSE Len(seenOrder)
      BY <1>1, MinOfTwo
    <3>2. \A k \in 0..(Min({Len(segments), Len(seenOrder)}) - 1) :
            segments[Len(segments) - k].pid = seenOrder[Len(seenOrder) - k]
      BY DEF IInv, SeenMatchesSegments
    <3>3. ASSUME NEW k \in Nat, k < Len(segments), k < Len(seenOrder)
          PROVE  k \in 0..(Min({Len(segments), Len(seenOrder)}) - 1)
      <4>1. CASE Len(segments) <= Len(seenOrder)
        BY <1>1, <3>1, <3>3, <4>1
      <4>2. CASE ~(Len(segments) <= Len(seenOrder))
        BY <1>1, <3>1, <3>3, <4>2
      <4> QED BY <4>1, <4>2
    <3> QED BY <3>2, <3>3
  <2>2. Len(segments') \in Nat /\ Len(seenOrder') \in Nat
    BY <1>1, <1>5, <1>6, <1>7
  <2>3. ASSUME NEW k \in Nat, k < Len(segments'), k < Len(seenOrder')
        PROVE  segments'[Len(segments') - k].pid
                 = seenOrder'[Len(seenOrder') - k]
    <3>1. segments'[Len(segments') - k] = full[Len(segments) + 1 - k]
      <4>1. /\ Len(segments') - k \in 1..Len(segments')
            /\ Len(segments') - k + n = Len(segments) + 1 - k
        BY <1>1, <1>5, <2>2, <2>3
      <4> QED BY <1>5, <4>1
    <3>2. seenOrder'[Len(seenOrder') - k] = order[Len(seenOrder) + 1 - k]
      <4>1. Len(seenOrder') - k \in 1..Len(seenOrder')
        BY <2>2, <2>3
      <4>2. Len(seenOrder') - k + d = Len(seenOrder) + 1 - k
        <5>1. Len(seenOrder') = Len(seenOrder) + 1 - d
          BY <1>6
        <5> HIDE DEF d
        <5> QED BY <1>1, <1>7, <5>1
      <4> QED BY <1>6, <4>1, <4>2
    <3>3. CASE k = 0
      BY <1>1, <1>3, <3>1, <3>2, <3>3 DEF new
    <3>4. CASE k > 0
      <4>1. /\ k - 1 \in Nat
            /\ k - 1 < Len(segments)
            /\ k - 1 < Len(seenOrder)
        <5>1. Len(segments') <= Len(segments) + 1
          BY <1>1, <1>5
        <5>2. Len(seenOrder') <= Len(seenOrder) + 1
          <6>1. Len(seenOrder') = Len(seenOrder) + 1 - d
            BY <1>6
          <6> HIDE DEF d
          <6> QED BY <1>1, <1>7, <6>1
        <5> QED BY <1>1, <2>2, <2>3, <3>4, <5>1, <5>2
      <4>2. segments[Len(segments) - (k - 1)].pid
              = seenOrder[Len(seenOrder) - (k - 1)]
        BY <2>1, <4>1
      <4>3. full[Len(segments) + 1 - k] = segments[Len(segments) - (k - 1)]
        BY <1>1, <1>3, <3>4, <4>1
      <4>4. order[Len(seenOrder) + 1 - k]
              = seenOrder[Len(seenOrder) - (k - 1)]
        BY <1>1, <1>3, <3>4, <4>1
      <4> QED BY <3>1, <3>2, <4>2, <4>3, <4>4
    <3> QED BY <3>3, <3>4
  <2>4. \A k \in 0..(Min({Len(segments'), Len(seenOrder')}) - 1) :
          k \in Nat /\ k < Len(segments') /\ k < Len(seenOrder')
    <3>1. Min({Len(segments'), Len(seenOrder')})
            = IF Len(segments') <= Len(seenOrder')
              THEN Len(segments') ELSE Len(seenOrder')
      BY <2>2, MinOfTwo
    <3> QED BY <2>2, <3>1
  <2> QED BY <2>3, <2>4 DEF SeenMatchesSegments
<1> QED BY <1>10, <1>11, <1>12, <1>13, <1>14 DEF IInv

\* The store before the first final, whether or not a session has started.
EmptyStore ==
  /\ sessionId \in Nat /\ active \in BOOLEAN
  /\ nextSegmentId = 1 /\ retainedTextBytes = 0
  /\ segments = << >> /\ seenIds = {} /\ seenOrder = << >>

LEMMA EmptyStoreFits ==
  ASSUME EmptyStore
  PROVE  IInv
<1>1. /\ segments \in Seq(Segments)
      /\ seenOrder \in Seq(ProviderIds)
      /\ Len(segments) = 0
      /\ Len(seenOrder) = 0
      /\ DOMAIN seenOrder = {}
  BY EmptySeq DEF EmptyStore
<1>2. TypeOK /\ IdsAreContiguous
  <2>1. nextSegmentId = 1 /\ retainedTextBytes = 0 /\ seenIds = {}
    BY DEF EmptyStore
  <2>2. sessionId \in Nat /\ active \in BOOLEAN
    BY DEF EmptyStore
  <2> QED BY <1>1, <2>1, <2>2 DEF TypeOK, IdsAreContiguous
<1>3. BoundsHold
  <2>1. TextBytes(segments) = 0
    BY <1>1, TextBytesType
  <2>2. MaxSegments \in Nat /\ MaxTextBytes \in Nat
    BY StoreConfig
  <2> QED BY <1>1, <2>1, <2>2 DEF EmptyStore, BoundsHold
<1>4. SeenInSync
  <2>1. seenIds = Range(seenOrder) /\ IsInjective(seenOrder)
    BY <1>1 DEF EmptyStore, Range, IsInjective
  <2>2. DuplicateMemory \in Nat \ {0} /\ nextSegmentId - 1 = 0
    BY StoreConfig DEF EmptyStore
  <2>3. Min({DuplicateMemory, 0}) = 0
    BY <2>2, MinOfTwo
  <2> QED BY <1>1, <2>1, <2>2, <2>3 DEF SeenInSync
<1>5. SeenMatchesSegments
  <2>1. Min({Len(segments), Len(seenOrder)}) = 0
    BY <1>1, MinOfTwo
  <2> QED BY <2>1 DEF SeenMatchesSegments
<1> QED BY <1>2, <1>3, <1>4, <1>5 DEF IInv

(* MeetingStore::new satisfies the inductive invariant.                    *)
LEMMA InitIInv == Init => IInv
<1> SUFFICES ASSUME Init PROVE IInv
  OBVIOUS
<1>1. sessionId \in Nat /\ active \in BOOLEAN
  BY DEF Init
<1>2. EmptyStore
  BY <1>1 DEF Init, EmptyStore
<1> QED BY <1>2, EmptyStoreFits

(* A step that leaves the store alone keeps it (search, recent).           *)
LEMMA StutterPreserves == IInv /\ UNCHANGED vars => IInv'
  BY DEF IInv, vars, TypeOK, IdsAreContiguous, BoundsHold, SeenInSync,
         SeenMatchesSegments

(* Every public method of the store keeps it, one step per action.         *)
LEMMA NextPreserves == IInv /\ [Next]_vars => IInv'
<1> SUFFICES ASSUME IInv, [Next]_vars PROVE IInv'
  OBVIOUS
<1>1. CASE StartSession
  BY <1>1, ClearedStore DEF StartSession, IInv, TypeOK
<1>2. CASE StopSession
  BY <1>2 DEF StopSession, IInv, TypeOK, IdsAreContiguous, BoundsHold,
              SeenInSync, SeenMatchesSegments
<1>3. CASE Reset
  BY <1>3, ClearedStore DEF Reset, IInv, TypeOK
<1>4. ASSUME NEW pid \in ProviderIds, NEW text \in Texts,
             IngestFinal(pid, text)
      PROVE  IInv'
  <2>1. CASE Accept(pid, text)
    BY <2>1, AcceptPreserves
  <2>2. CASE Refuse(pid, text)
    BY <2>2, StutterPreserves DEF Refuse
  <2> QED BY <1>4, <2>1, <2>2 DEF IngestFinal
<1>5. CASE UNCHANGED vars
  BY <1>5, StutterPreserves
<1> QED BY <1>1, <1>2, <1>3, <1>4, <1>5 DEF Next

(* The inductive invariant holds in every reachable state of the store,    *)
(* for all bounds and all sets of provider ids and texts: the theorems     *)
(* below are its consequences.                                             *)
THEOREM Invariance == Spec => []IInv
  BY InitIInv, NextPreserves, PTL DEF Spec

----------------------------------------------------------------------------
(* Every variable of the store keeps its type: in particular the byte      *)
(* counter of enforce_bounds never goes below zero.                        *)
THEOREM TypeCorrect == Spec => []TypeOK
<1>1. IInv => TypeOK
  BY DEF IInv
<1> QED BY Invariance, <1>1, PTL

(* get_segment and the MCP resources may rely on ids: the retained window  *)
(* ends at the last id given out and has no gap.                           *)
THEOREM ContiguousIds == Spec => []IdsAreContiguous
<1>1. IInv => IdsAreContiguous
  BY DEF IInv
<1> QED BY Invariance, <1>1, PTL

(* The transcript never exceeds max_segments or max_text_bytes, and the    *)
(* running byte counter always weighs exactly what is retained.            *)
THEOREM MemoryBounds == Spec => []BoundsHold
<1>1. IInv => BoundsHold
  BY DEF IInv
<1> QED BY Invariance, <1>1, PTL

(* The hash set and the queue of remember_provider_id never drift apart.   *)
THEOREM DuplicateMemoryInSync == Spec => []SeenInSync
<1>1. IInv => SeenInSync
  BY DEF IInv
<1> QED BY Invariance, <1>1, PTL

(* The newest ids of the duplicate memory are those of the newest retained *)
(* segments, in the same order.                                            *)
THEOREM MemoryFollowsSegments == Spec => []SeenMatchesSegments
<1>1. IInv => SeenMatchesSegments
  BY DEF IInv
<1> QED BY Invariance, <1>1, PTL

(* With a duplicate memory at least as long as the transcript, no provider *)
(* segment is ever retained twice: two retained copies would be two equal  *)
(* ids in the queue.                                                       *)
THEOREM RetainedOnce == Spec => []NoDuplicateRetained
<1>1. IInv => NoDuplicateRetained
  <2> SUFFICES ASSUME IInv, DuplicateMemory >= MaxSegments,
                      NEW i \in 1..Len(segments), NEW j \in 1..Len(segments),
                      segments[i].pid = segments[j].pid
               PROVE  i = j
    BY DEF NoDuplicateRetained
  <2> DEFINE n == Len(segments)
             m == Len(seenOrder)
  <2>1. /\ n \in Nat
        /\ seenOrder \in Seq(ProviderIds)
        /\ m \in Nat
        /\ DOMAIN seenOrder = 1..m
        /\ DuplicateMemory \in Nat \ {0} /\ MaxSegments \in Nat
        /\ nextSegmentId \in Nat \ {0}
    BY StoreConfig, LenProperties DEF IInv, TypeOK
  <2>2. n <= MaxSegments /\ n < nextSegmentId
    BY DEF IInv, BoundsHold, IdsAreContiguous
  <2>3. m = Min({DuplicateMemory, nextSegmentId - 1})
    BY DEF IInv, SeenInSync
  <2>4. m = IF DuplicateMemory <= nextSegmentId - 1
            THEN DuplicateMemory ELSE nextSegmentId - 1
    BY <2>1, <2>3, MinOfTwo
  <2>5. n <= m
    <3> HIDE DEF n, m
    <3> QED BY <2>1, <2>2, <2>4
  <2>6. Min({n, m}) = n
    BY <2>1, <2>5, MinOfTwo
  <2>7. \A k \in 0..(n - 1) : segments[n - k].pid = seenOrder[m - k]
    BY <2>6 DEF IInv, SeenMatchesSegments
  <2>8. \A a, b \in 1..m : seenOrder[a] = seenOrder[b] => a = b
    BY <2>1 DEF IInv, SeenInSync, IsInjective
  <2> HIDE DEF n, m
  <2>9. i \in 1..n /\ j \in 1..n
    BY DEF n
  <2>10. /\ segments[n - (n - i)].pid = seenOrder[m - (n - i)]
         /\ segments[n - (n - j)].pid = seenOrder[m - (n - j)]
    <3>1. n - i \in 0..(n - 1) /\ n - j \in 0..(n - 1)
      BY <2>1, <2>9
    <3> QED BY <2>7, <3>1
  <2>11. n - (n - i) = i /\ n - (n - j) = j
    BY <2>1, <2>9
  <2>12. m - (n - i) = m - (n - j)
    <3>1. segments[n - (n - i)].pid = segments[n - (n - j)].pid
      BY <2>11
    <3>2. m - (n - i) \in 1..m /\ m - (n - j) \in 1..m
      BY <2>1, <2>5, <2>9
    <3> QED BY <2>8, <2>10, <3>1, <3>2
  <2> QED BY <2>1, <2>9, <2>12
<1> QED BY Invariance, <1>1, PTL

----------------------------------------------------------------------------
(* What enforce_bounds leaves of the log with the accepted final: the rest *)
(* behind the shortest prefix whose removal brings it within both bounds.  *)
LEMMA AcceptEvictsLeast ==
  ASSUME IInv, NEW pid \in ProviderIds, NEW text \in Texts, Accept(pid, text)
  PROVE  LET new  == [id |-> nextSegmentId, pid |-> pid, text |-> text]
             full == Append(segments, new)
             n    == Len(full) - Len(segments')
         IN  /\ segments' # << >>
             /\ segments' = DropFirst(full, n)
             /\ n > 0 => LET more == DropFirst(full, n - 1)
                         IN  \/ Len(more) > MaxSegments
                             \/ TextBytes(more) > MaxTextBytes
<1> DEFINE new  == [id |-> nextSegmentId, pid |-> pid, text |-> text]
           full == Append(segments, new)
           e    == Evictions(full, TextBytes(full))
           n    == Len(full) - Len(segments')
<1>1. segments \in Seq(Segments) /\ Len(segments) \in Nat
  BY LenProperties DEF IInv, TypeOK
<1>2. new \in Segments
  BY DEF IInv, TypeOK, Segments
<1>3. /\ full \in Seq(Segments)
      /\ Len(full) = Len(segments) + 1
      /\ full[Len(full)] = new
  <2> HIDE DEF new
  <2> QED BY <1>1, <1>2, AppendProperties
<1>4. TextBytes(full) = retainedTextBytes + TextLen[text]
  <2>1. TextBytes(full) = TextBytes(segments) + TextLen[new.text]
    <3> HIDE DEF new
    <3> QED BY <1>1, <1>2, TextBytesOfAppend
  <2> QED BY <2>1 DEF IInv, BoundsHold
<1>5. TextLen[full[Len(full)].text] <= MaxTextBytes
  <2>1. TextLen[text] \in Nat /\ MaxTextBytes \in Nat
    BY StoreConfig
  <2>2. TextLen[text] <= MaxTextBytes
    BY <2>1 DEF Accept, IsAccepted, IsTooLarge
  <2> HIDE DEF full
  <2> QED BY <1>3, <2>2
<1>6. full # << >>
  <2> HIDE DEF full
  <2> QED BY <1>1, <1>3, EmptySeq
<1>7. EnforceBounds(full, TextBytes(full))
  BY <1>4 DEF Accept
<1> HIDE DEF full
<1>8. /\ e \in 0..(Len(full) - 1)
      /\ \A k \in 0..(e - 1) :
           \/ Len(DropFirst(full, k)) > MaxSegments
           \/ TextBytes(DropFirst(full, k)) > MaxTextBytes
  BY <1>3, <1>5, <1>6, EvictionsProperties
<1>9. segments' = DropFirst(full, e)
  BY <1>7 DEF EnforceBounds
<1> HIDE DEF e
<1>10. Len(segments') = Len(full) - e
  <2>1. e \in 0..Len(full)
    BY <1>1, <1>3, <1>8
  <2> QED BY <1>3, <1>9, <2>1, DropFirstProperties
<1>11. n = e /\ Len(segments') > 0
  BY <1>1, <1>3, <1>8, <1>10
<1>12. segments' # << >>
  BY <1>11, EmptySeq
<1>13. n > 0 => \/ Len(DropFirst(full, n - 1)) > MaxSegments
                \/ TextBytes(DropFirst(full, n - 1)) > MaxTextBytes
  <2> SUFFICES ASSUME n > 0
               PROVE  \/ Len(DropFirst(full, e - 1)) > MaxSegments
                      \/ TextBytes(DropFirst(full, e - 1)) > MaxTextBytes
    BY <1>11
  <2>1. e - 1 \in 0..(e - 1)
    BY <1>1, <1>3, <1>8, <1>11
  <2> QED BY <1>8, <2>1
<1> QED BY <1>9, <1>11, <1>12, <1>13 DEF full

(* enforce_bounds takes segments from the front only, never the one just   *)
(* accepted, and no more than the bounds require.                          *)
THEOREM LeastEviction == Spec => EvictionIsMinimal
<1>1. IInv /\ [Next]_vars =>
        [\A pid \in ProviderIds, text \in Texts :
           Accept(pid, text) =>
             LET new  == [id |-> nextSegmentId, pid |-> pid, text |-> text]
                 full == Append(segments, new)
                 n    == Len(full) - Len(segments')
             IN  /\ segments' # << >>
                 /\ segments' = DropFirst(full, n)
                 /\ n > 0 => LET more == DropFirst(full, n - 1)
                             IN  \/ Len(more) > MaxSegments
                                 \/ TextBytes(more) > MaxTextBytes]_vars
  BY AcceptEvictsLeast
<1> QED BY Invariance, <1>1, PTL DEF Spec, EvictionIsMinimal

----------------------------------------------------------------------------
(* The refinement.  What an accepted final does to the numbers and contents *)
(* of the window follows from AcceptEffect, which says where each retained *)
(* segment comes from.                                                     *)

\* The variables of the window, as ImplementsWindow maps them.
First == nextSegmentId - Len(segments)
Content(s) == [pid |-> s.pid, text |-> s.text]
At == [n \in First..(nextSegmentId - 1) |-> Content(segments[n - First + 1])]

(* An empty store shows the window before its first segment.               *)
LEMMA EmptyWindow ==
  ASSUME nextSegmentId = 1, segments = << >>
  PROVE  First = 1 /\ At = [n \in 1..0 |-> n]
<1>1. First = 1
  BY EmptySeq DEF First
<1>2. First..(nextSegmentId - 1) = 1..0
  BY <1>1
<1>3. \A n \in 1..0 : Content(segments[n - First + 1]) = n
  OBVIOUS
<1> QED BY <1>1, <1>2, <1>3 DEF At

(* start_session and reset empty the window and restart its numbers.       *)
LEMMA ClearedWindow == ClearSessionState => Window!Restart
<1> SUFFICES ASSUME ClearSessionState PROVE Window!Restart
  OBVIOUS
<1>1. nextSegmentId' = 1 /\ segments' = << >>
  BY DEF ClearSessionState
<1>2. First' = 1
  BY <1>1, EmptySeq DEF First
<1>3. At' = [n \in 1..0 |-> n]
  <2>1. First'..(nextSegmentId' - 1) = 1..0
    BY <1>1, <1>2
  <2>2. \A n \in 1..0 : Content(segments'[n - First' + 1]) = n
    OBVIOUS
  <2> QED BY <2>1, <2>2 DEF At
<1> QED BY <1>1, <1>2, <1>3 DEF Window!Restart, First, At, Content

(* An accepted final takes the next number, and enforce_bounds moves the   *)
(* beginning of the window up to it at most; what is still retained keeps  *)
(* its number.                                                             *)
LEMMA AcceptedAppends ==
  ASSUME IInv, NEW pid \in ProviderIds, NEW text \in Texts, Accept(pid, text)
  PROVE  Window!Append([pid |-> pid, text |-> text])
<1> DEFINE new  == [id |-> nextSegmentId, pid |-> pid, text |-> text]
           full == Append(segments, new)
           c    == [pid |-> pid, text |-> text]
<1>1. /\ segments \in Seq(Segments) /\ Len(segments) \in Nat
      /\ nextSegmentId \in Nat \ {0}
  BY LenProperties DEF IInv, TypeOK
<1>2. new \in Segments
  BY <1>1 DEF Segments
<1>3. /\ \A i \in 1..Len(segments) : full[i] = segments[i]
      /\ full[Len(segments) + 1] = new
  <2> HIDE DEF new
  <2> QED BY <1>1, <1>2, AppendProperties
<1>4. nextSegmentId' = nextSegmentId + 1
  BY DEF Accept
<1>5. PICK k \in 0..Len(segments) :
        /\ Len(segments') = Len(segments) + 1 - k
        /\ \A i \in 1..Len(segments') : segments'[i] = full[i + k]
  BY AcceptEffect DEF IInv
<1> HIDE DEF full
<1>6. First' = First + k
  BY <1>1, <1>4, <1>5 DEF First
<1>7. First' \in First..nextSegmentId
  BY <1>1, <1>5, <1>6 DEF First
<1>8. nextSegmentId' - 1 = nextSegmentId
  BY <1>1, <1>4
<1>9. ASSUME NEW n \in First'..nextSegmentId
      PROVE  Content(segments'[n - First' + 1])
               = IF n = nextSegmentId THEN c ELSE At[n]
  <2>1. n - First' + 1 \in 1..Len(segments')
    BY <1>1, <1>4, <1>5 DEF First
  <2>2. segments'[n - First' + 1] = full[n - First + 1]
    <3>1. (n - First' + 1) + k = n - First + 1
      BY <1>1, <1>5, <1>6 DEF First
    <3> QED BY <1>5, <2>1, <3>1
  <2>3. CASE n = nextSegmentId
    <3>1. n - First + 1 = Len(segments) + 1
      BY <1>1, <2>3 DEF First
    <3> QED BY <1>3, <2>2, <2>3, <3>1 DEF Content
  <2>4. CASE n # nextSegmentId
    <3>1. n \in First..(nextSegmentId - 1)
      BY <1>1, <1>5, <1>6, <2>4 DEF First
    <3>2. n - First + 1 \in 1..Len(segments)
      BY <1>1, <3>1 DEF First
    <3> QED BY <1>3, <2>2, <2>4, <3>1, <3>2 DEF At
  <2> QED BY <2>3, <2>4
<1>10. At' = [n \in First'..nextSegmentId |->
                IF n = nextSegmentId THEN c ELSE At[n]]
  BY <1>8, <1>9 DEF At
<1> QED BY <1>4, <1>7, <1>10 DEF Window!Append, First, At, Content

(* Every step of the store is one of the window, or none.                  *)
LEMMA StepRefines == IInv /\ [Next]_vars => [Window!Next]_(Window!vars)
<1> SUFFICES ASSUME IInv, [Next]_vars PROVE [Window!Next]_(Window!vars)
  OBVIOUS
<1>1. CASE StartSession
  BY <1>1, ClearedWindow DEF StartSession, Window!Next
<1>2. CASE Reset
  BY <1>2, ClearedWindow DEF Reset, Window!Next
<1>3. ASSUME NEW pid \in ProviderIds, NEW text \in Texts, Accept(pid, text)
      PROVE  Window!Next
  BY <1>3, AcceptedAppends DEF Window!Next
<1>4. CASE UNCHANGED <<nextSegmentId, segments>>
  BY <1>4 DEF Window!vars
<1> QED BY <1>1, <1>2, <1>3, <1>4
        DEF Next, StopSession, IngestFinal, Refuse, vars

(* What an id of get_segment names never changes while it is retained, ids *)
(* are handed out in order, and only the oldest segments leave.            *)
THEOREM StoreIsAWindow == Spec => ImplementsWindow
<1>1. Init => Window!Init
  <2> SUFFICES ASSUME Init PROVE Window!Init
    OBVIOUS
  <2>1. nextSegmentId = 1 /\ segments = << >>
    BY DEF Init
  <2> QED BY <2>1, EmptyWindow DEF Window!Init, First, At, Content
<1> QED BY <1>1, Invariance, StepRefines, PTL
        DEF Spec, ImplementsWindow, Window!Spec
=============================================================================
