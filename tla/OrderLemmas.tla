---------------------------- MODULE OrderLemmas ----------------------------
(* Facts about finite sets, their order and sequences that several proofs    *)
(* rest on.                                                                  *)
EXTENDS Integers, Ordering, WellFoundedInduction, FiniteSetTheorems, SequenceTheorems,
        TLAPS

-----------------------------------------------------------------------------
(* Natural numbers. *)

(* A non-empty set of naturals has a least element. *)
LEMMA LeastNatural ==
  ASSUME NEW S \in SUBSET Nat, S # {}
  PROVE  \E least \in S : \A s \in S : least <= s
<1>1. PICK x \in S : \A y \in S : ~(<<y, x>> \in OpToRel(<, Nat))
  BY NatLessThanWellFounded, WFMin
<1>2. ASSUME NEW y \in S PROVE x <= y
  <2>1. SUFFICES ASSUME y < x PROVE FALSE
    OBVIOUS
  <2>2. /\ <<y, x>> \in Nat \X Nat
        /\ <<y, x>>[1] < <<y, x>>[2]
    BY <2>1
  <2>3. <<y, x>> \in {ss \in Nat \X Nat : ss[1] < ss[2]}
    BY <2>2, Zenon
  <2>4. <<y, x>> \in OpToRel(<, Nat)
    BY <2>3, Zenon DEF OpToRel
  <2> QED
    BY <2>4, <1>1
<1> QED
  BY <1>2

\* The members of W up to i: their number is the rank of i when i is one.
UpTo(W, i) == {j \in W : j <= i}

(* A rank is a natural number between 1 and the size of the set. *)
LEMMA RankBounds ==
  ASSUME NEW W, IsFiniteSet(W), \A j \in W : j \in Nat, NEW i \in W
  PROVE  /\ Cardinality(UpTo(W, i)) \in Nat
         /\ 1 <= Cardinality(UpTo(W, i))
         /\ Cardinality(UpTo(W, i)) <= Cardinality(W)
<1>1. UpTo(W, i) \in SUBSET W /\ i \in UpTo(W, i)
  BY DEF UpTo
<1>2. IsFiniteSet(UpTo(W, i)) /\ Cardinality(UpTo(W, i)) <= Cardinality(W)
  BY <1>1, FS_Subset
<1>3. Cardinality(UpTo(W, i)) \in Nat /\ Cardinality(UpTo(W, i)) # 0
  BY <1>1, <1>2, FS_CardinalityType, FS_EmptySet
<1> QED
  BY <1>2, <1>3

(* No two members have one rank. *)
LEMMA RanksDiffer ==
  ASSUME NEW W, IsFiniteSet(W), \A j \in W : j \in Nat, NEW i \in W, NEW k \in W,
         Cardinality(UpTo(W, i)) = Cardinality(UpTo(W, k))
  PROVE  i = k
<1>1. ASSUME NEW a \in W, NEW b \in W, a < b,
             Cardinality(UpTo(W, a)) = Cardinality(UpTo(W, b))
      PROVE  FALSE
  <2>0. /\ \A j \in W : j <= a => j <= b
        /\ b <= b /\ ~(b <= a)
    BY <1>1
  <2>1. UpTo(W, a) \in SUBSET UpTo(W, b) /\ b \in UpTo(W, b) /\ b \notin UpTo(W, a)
    BY <2>0 DEF UpTo
  <2>2. UpTo(W, b) \in SUBSET W
    BY DEF UpTo
  <2>3. IsFiniteSet(UpTo(W, b))
    BY <2>2, FS_Subset
  <2>4. UpTo(W, a) = UpTo(W, b)
    BY <1>1, <2>1, <2>3, FS_Subset
  <2> QED
    BY <2>1, <2>4
<1>2. i < k \/ k < i \/ i = k
  OBVIOUS
<1> QED
  BY <1>1, <1>2

(* Every number from 1 to the size of the set is the rank of a member. *)
LEMMA RankExists ==
  ASSUME NEW W, IsFiniteSet(W), \A j \in W : j \in Nat, NEW m \in Nat, \A j \in W : j <= m,
         NEW n \in Nat, 1 <= n, n <= Cardinality(W)
  PROVE  \E i \in W : Cardinality(UpTo(W, i)) = n
<1> DEFINE S == {i \in Nat : n <= Cardinality(UpTo(W, i))}
<1>1. \A i \in Nat : IsFiniteSet(UpTo(W, i)) /\ Cardinality(UpTo(W, i)) \in Nat
  <2> TAKE i \in Nat
  <2>1. UpTo(W, i) \in SUBSET W
    BY DEF UpTo
  <2> QED
    BY <2>1, FS_Subset, FS_CardinalityType
<1>2. UpTo(W, m) = W
  BY DEF UpTo
<1>3. S \in SUBSET Nat /\ m \in S
  BY <1>2
<1>4. PICK least \in S : \A s \in S : least <= s
  BY <1>3, LeastNatural
<1>5. least \in Nat /\ n <= Cardinality(UpTo(W, least))
  BY <1>4
<1>6. CASE least = 0
  <2>1. CASE 0 \in W
    <3>1. \A j \in W : j <= least <=> j = 0
      BY <1>6
    <3>2. UpTo(W, least) = {0}
      BY <2>1, <3>1 DEF UpTo
    <3>3. Cardinality(UpTo(W, least)) = 1
      BY <3>2, FS_Singleton
    <3> QED
      BY <1>5, <1>6, <2>1, <3>3
  <2>2. CASE 0 \notin W
    <3>1. \A j \in W : ~(j <= least)
      BY <1>6, <2>2
    <3>2. UpTo(W, least) = {}
      BY <3>1 DEF UpTo
    <3>3. Cardinality(UpTo(W, least)) = 0
      BY <3>2, FS_EmptySet
    <3> QED
      BY <1>5, <3>3
  <2> QED
    BY <2>1, <2>2
<1>7. CASE least # 0
  <2>1. least - 1 \in Nat /\ least - 1 \notin S
    BY <1>4, <1>5, <1>7
  <2>2. Cardinality(UpTo(W, least - 1)) < n
    BY <1>1, <2>1
  <2>3. CASE least \in W
    <3>1. \A j \in W : j <= least <=> j <= least - 1 \/ j = least
      BY <1>5, <2>1
    <3>2. UpTo(W, least) = UpTo(W, least - 1) \cup {least}
      BY <2>3, <3>1 DEF UpTo
    <3>3. least \notin UpTo(W, least - 1)
      BY <1>5, <2>1 DEF UpTo
    <3>4. Cardinality(UpTo(W, least)) = Cardinality(UpTo(W, least - 1)) + 1
      BY <1>1, <2>1, <3>2, <3>3, FS_AddElement
    <3> QED
      BY <1>1, <1>5, <2>1, <2>2, <2>3, <3>4
  <2>4. CASE least \notin W
    <3>1. \A j \in W : j <= least <=> j <= least - 1
      BY <1>5, <2>1, <2>4
    <3>2. UpTo(W, least) = UpTo(W, least - 1)
      BY <3>1 DEF UpTo
    <3> QED
      BY <1>1, <1>5, <2>1, <2>2, <3>2
  <2> QED
    BY <2>3, <2>4
<1> QED
  BY <1>6, <1>7

-----------------------------------------------------------------------------
(* Finite sets in order. *)

\* R puts any two members of S one before the other, and never in a circle.
OrdersStrictly(R, S) ==
  /\ \A x \in S : <<x, x>> \notin R
  /\ \A x, y, z \in S : <<x, y>> \in R /\ <<y, z>> \in R => <<x, z>> \in R
  /\ \A x, y \in S : x = y \/ <<x, y>> \in R \/ <<y, x>> \in R

\* seq holds every member of S once, each before those that R puts after it.
Arranges(seq, S, R) ==
  /\ seq \in Seq(S) /\ Len(seq) = Cardinality(S)
  /\ \A x \in S : \E i \in 1 .. Len(seq) : seq[i] = x
  /\ \A i, j \in 1 .. Len(seq) : i < j => seq[i] # seq[j] /\ <<seq[i], seq[j]>> \in R

(* What comes earlier has fewer members before it. *)
LEMMA EarlierHasFewer ==
  ASSUME NEW S, IsFiniteSet(S), NEW R, OrdersStrictly(R, S),
         NEW x \in S, NEW y \in S, <<x, y>> \in R
  PROVE  Cardinality(Preceding(S, R, x)) < Cardinality(Preceding(S, R, y))
<1>1. /\ Preceding(S, R, x) \in SUBSET Preceding(S, R, y)
      /\ x \in Preceding(S, R, y) \ Preceding(S, R, x)
      /\ Preceding(S, R, y) \in SUBSET S
  BY DEF OrdersStrictly, Preceding
<1>2. IsFiniteSet(Preceding(S, R, y))
  BY <1>1, FS_Subset
<1>3. /\ IsFiniteSet(Preceding(S, R, x))
      /\ Cardinality(Preceding(S, R, x)) <= Cardinality(Preceding(S, R, y))
      /\ Cardinality(Preceding(S, R, y)) = Cardinality(Preceding(S, R, x))
           => Preceding(S, R, y) = Preceding(S, R, x)
  BY <1>1, <1>2, FS_Subset
<1>4. /\ Cardinality(Preceding(S, R, x)) \in Nat
      /\ Cardinality(Preceding(S, R, y)) \in Nat
  BY <1>2, <1>3, FS_CardinalityType
<1>5. Cardinality(Preceding(S, R, y)) # Cardinality(Preceding(S, R, x))
  BY <1>1, <1>3
<1> QED
  BY <1>3, <1>4, <1>5

(* Every place but one past the last is that of one member. *)
LEMMA EveryPlaceIsTaken ==
  ASSUME NEW S, IsFiniteSet(S), NEW R, OrdersStrictly(R, S)
  PROVE  /\ \A x \in S : Cardinality(Preceding(S, R, x)) \in 0 .. Cardinality(S) - 1
         /\ \A n \in 0 .. Cardinality(S) - 1 : \E x \in S : Cardinality(Preceding(S, R, x)) = n
<1> DEFINE places == 0 .. Cardinality(S) - 1
           place == [x \in S |-> Cardinality(Preceding(S, R, x))]
<1>0. Cardinality(S) \in Nat
  BY FS_CardinalityType
<1>1. ASSUME NEW x \in S PROVE place[x] \in places
  <2>1. Preceding(S, R, x) \in SUBSET S /\ x \notin Preceding(S, R, x)
    BY DEF OrdersStrictly, Preceding
  <2>2. /\ IsFiniteSet(Preceding(S, R, x))
        /\ Cardinality(Preceding(S, R, x)) <= Cardinality(S)
        /\ Cardinality(Preceding(S, R, x)) # Cardinality(S)
    BY <2>1, FS_Subset
  <2>3. Cardinality(Preceding(S, R, x)) \in Nat
    BY <2>2, FS_CardinalityType
  <2> QED
    BY <1>0, <2>2, <2>3
<1>2. ASSUME NEW x \in S, NEW y \in S, place[x] = place[y] PROVE x = y
  <2>1. \A z \in S : place[z] = Cardinality(Preceding(S, R, z)) /\ place[z] \in Nat
    BY <1>0, <1>1
  <2>2. ASSUME <<x, y>> \in R PROVE FALSE
    BY <1>2, <2>1, <2>2, EarlierHasFewer
  <2>3. ASSUME <<y, x>> \in R PROVE FALSE
    BY <1>2, <2>1, <2>3, EarlierHasFewer
  <2> QED
    BY <2>2, <2>3 DEF OrdersStrictly
<1>3. place \in Injection(S, places)
  BY <1>1, <1>2 DEF Injection, IsInjective
<1>4. IsFiniteSet(places) /\ Cardinality(places) = Cardinality(S)
  <2>1. Cardinality(S) - 1 \in Int /\ 0 \in Int
    BY <1>0
  <2>2. /\ IsFiniteSet(places)
        /\ Cardinality(places) = IF 0 > Cardinality(S) - 1 THEN 0 ELSE Cardinality(S) - 1 - 0 + 1
    BY <2>1, FS_Interval
  <2> QED
    BY <1>0, <2>2
<1>5. place \in Surjection(S, places)
  BY <1>3, <1>4, FS_Injection
<1>6. \A n \in places : \E x \in S : place[x] = n
  BY <1>5 DEF Surjection
<1> QED
  BY <1>1, <1>6

(* InOrder puts a set in order, whatever strict order it is given. *)
LEMMA InOrderArranges ==
  ASSUME NEW S, IsFiniteSet(S), NEW R, OrdersStrictly(R, S)
  PROVE  Arranges(InOrder(S, R), S, R)
<1> DEFINE seq == InOrder(S, R)
           before(x) == Cardinality(Preceding(S, R, x))
<1>0. Cardinality(S) \in Nat
  BY FS_CardinalityType
<1>1. ASSUME NEW n \in 1 .. Cardinality(S) PROVE seq[n] \in S /\ before(seq[n]) = n - 1
  <2>1. n - 1 \in 0 .. Cardinality(S) - 1
    BY <1>0
  <2>2. \E x \in S : before(x) = n - 1
    BY <2>1, EveryPlaceIsTaken
  <2>3. seq[n] = CHOOSE x \in S : before(x) = n - 1
    BY DEF InOrder
  <2> HIDE DEF seq
  <2> QED
    BY <2>2, <2>3
<1>2. seq = [n \in 1 .. Cardinality(S) |-> seq[n]]
  BY DEF InOrder
<1> HIDE DEF seq
<1>3. seq \in Seq(S) /\ Len(seq) = Cardinality(S)
  <2>1. [n \in 1 .. Cardinality(S) |-> seq[n]] \in [1 .. Cardinality(S) -> S]
    BY <1>1
  <2>2. seq \in [1 .. Cardinality(S) -> S]
    BY <1>2, <2>1
  <2> QED
    BY <1>0, <2>2
<1>4. ASSUME NEW x \in S PROVE \E i \in 1 .. Len(seq) : seq[i] = x
  <2>1. before(x) \in 0 .. Cardinality(S) - 1
    BY EveryPlaceIsTaken
  <2>2. PICK k \in 1 .. Cardinality(S) : k - 1 = before(x)
    BY <1>0, <2>1
  <2>3. seq[k] \in S /\ before(seq[k]) = before(x) /\ before(x) \in Nat
    BY <1>1, <2>1, <2>2
  <2>4. seq[k] = x
    <3>1. ASSUME NEW y \in S, before(y) = before(x), y # x PROVE FALSE
      <4>1. CASE <<y, x>> \in R
        BY <2>3, <3>1, <4>1, EarlierHasFewer
      <4>2. CASE <<x, y>> \in R
        BY <2>3, <3>1, <4>2, EarlierHasFewer
      <4> QED
        BY <3>1, <4>1, <4>2 DEF OrdersStrictly
    <3> QED
      BY <2>3, <3>1
  <2> QED
    BY <1>3, <2>4
<1>5. ASSUME NEW i \in 1 .. Len(seq), NEW j \in 1 .. Len(seq), i < j
      PROVE  seq[i] # seq[j] /\ <<seq[i], seq[j]>> \in R
  <2>1. /\ seq[i] \in S /\ before(seq[i]) = i - 1
        /\ seq[j] \in S /\ before(seq[j]) = j - 1
    BY <1>1, <1>3
  <2>2. i - 1 < j - 1 /\ i - 1 \in Int /\ j - 1 \in Int
    BY <1>5
  <2>3. seq[i] # seq[j]
    BY <2>1, <2>2
  <2>4. <<seq[j], seq[i]>> \notin R
    <3>1. SUFFICES ASSUME <<seq[j], seq[i]>> \in R PROVE FALSE
      OBVIOUS
    <3>2. before(seq[j]) < before(seq[i])
      BY <2>1, <3>1, EarlierHasFewer
    <3> QED
      BY <2>1, <2>2, <3>2
  <2> QED
    BY <2>1, <2>3, <2>4 DEF OrdersStrictly
<1>6. Arranges(seq, S, R)
  BY <1>3, <1>4, <1>5 DEF Arranges
<1> QED
  BY <1>6 DEF seq

(* The first elements of a sequence are elements of it, in their places. *)
LEMMA FirstOfIsPrefix ==
  ASSUME NEW T, NEW seq \in Seq(T), NEW n \in Nat
  PROVE  /\ FirstOf(seq, n) \in Seq(T)
         /\ Len(FirstOf(seq, n)) <= n /\ Len(FirstOf(seq, n)) <= Len(seq)
         /\ \A i \in 1 .. Len(FirstOf(seq, n)) : i \in 1 .. Len(seq) /\ FirstOf(seq, n)[i] = seq[i]
         /\ Len(seq) <= n => FirstOf(seq, n) = seq
         /\ n <= Len(seq) => Len(FirstOf(seq, n)) = n
<1> DEFINE m == IF Len(seq) < n THEN Len(seq) ELSE n
<1>1. Len(seq) \in Nat /\ m \in Nat /\ m <= Len(seq) /\ m <= n
  OBVIOUS
<1>2. FirstOf(seq, n) = SubSeq(seq, 1, m)
  BY DEF FirstOf
<1>3. Len(seq) <= n => m = Len(seq)
  OBVIOUS
<1>4. n <= Len(seq) => m = n
  OBVIOUS
<1> HIDE DEF m
<1>5. /\ SubSeq(seq, 1, m) \in Seq(T) /\ Len(SubSeq(seq, 1, m)) = m
      /\ \A i \in 1 .. m : SubSeq(seq, 1, m)[i] = seq[i]
  BY <1>1
<1>6. SubSeq(seq, 1, Len(seq)) = seq
  BY <1>1
<1>7. Len(FirstOf(seq, n)) = m /\ FirstOf(seq, n) \in Seq(T)
  BY <1>2, <1>5
<1>8. \A i \in 1 .. m : i \in 1 .. Len(seq) /\ FirstOf(seq, n)[i] = seq[i]
  BY <1>1, <1>2, <1>5
<1>9. Len(seq) <= n => FirstOf(seq, n) = seq
  BY <1>2, <1>3, <1>6
<1>10. n <= Len(seq) => Len(FirstOf(seq, n)) = n
  BY <1>4, <1>7
<1> QED
  BY <1>1, <1>7, <1>8, <1>9, <1>10

-----------------------------------------------------------------------------
(* Sequences. *)

(* What ends a sequence ends what follows its first element. *)
LEMMA TailEndsAlike ==
  ASSUME NEW T, NEW s \in Seq(T), Len(s) > 1
  PROVE  Tail(s) # << >> /\ Tail(s)[Len(Tail(s))] = s[Len(s)]
<1>1. Len(s) \in Nat /\ Len(Tail(s)) = Len(s) - 1 /\ Tail(s) \in Seq(T)
  OBVIOUS
<1>2. Tail(s)[Len(s) - 1] = s[Len(s) - 1 + 1]
  BY <1>1
<1>3. Tail(s) # << >>
  <2>1. Len(Tail(s)) # 0 /\ Len(<< >>) = 0
    BY <1>1
  <2> QED
    BY <2>1, Zenon
<1> QED
  BY <1>1, <1>2, <1>3

(* Taking the next element moves it from what is left to what is done. *)
LEMMA NextIsTaken ==
  ASSUME NEW T, NEW done \in Seq(T), NEW left \in Seq(T), left # << >>
  PROVE  /\ Append(done, Head(left)) \o Tail(left) = done \o left
         /\ Len(left) = 1 => Append(done, Head(left)) = done \o left
         /\ Len(left) > 1 => Tail(left) # << >>
<1>1. Len(left) \in Nat /\ Len(left) # 0 /\ Len(done) \in Nat
  OBVIOUS
<1>2. Append(done, Head(left)) \in Seq(T) /\ Tail(left) \in Seq(T) /\ Head(left) \in T
  OBVIOUS
<1>3. Append(done, Head(left)) \o Tail(left) = done \o left
  <2> DEFINE one == Append(done, Head(left)) \o Tail(left)
             two == done \o left
  <2>1. one \in Seq(T) /\ two \in Seq(T) /\ Len(one) = Len(two) /\ Len(two) = Len(done) + Len(left)
    BY <1>1, <1>2
  <2>2. \A i \in 1 .. Len(two) : one[i] = two[i]
    BY <1>1, <1>2
  <2> HIDE DEF one, two
  <2> QED
    BY <2>1, <2>2, SeqEqual
<1>4. ASSUME Len(left) = 1 PROVE Append(done, Head(left)) = done \o left
  <2>1. Len(Tail(left)) = 0
    BY <1>1, <1>4
  <2>2. Tail(left) = << >>
    BY <1>2, <2>1, EmptySeq
  <2> QED
    BY <1>2, <1>3, <2>2, ConcatEmptySeq
<1>5. ASSUME Len(left) > 1 PROVE Tail(left) # << >>
  BY <1>5, TailEndsAlike
<1> QED
  BY <1>3, <1>4, <1>5

(* Removing one element leaves the others. *)
LEMMA RemovalLeavesTheOthers ==
  ASSUME NEW T, NEW s \in Seq(T), NEW i \in DOMAIN s
  PROVE  /\ SubSeq(s, 1, i - 1) \o SubSeq(s, i + 1, Len(s)) \in Seq(T)
         /\ Len(SubSeq(s, 1, i - 1) \o SubSeq(s, i + 1, Len(s))) = Len(s) - 1
         /\ \A x : (\E k \in DOMAIN s : s[k] = x) <=>
              \/ x = s[i]
              \/ \E k \in 1 .. Len(s) - 1 : (SubSeq(s, 1, i - 1) \o SubSeq(s, i + 1, Len(s)))[k] = x
<1> DEFINE left == SubSeq(s, 1, i - 1)
           right == SubSeq(s, i + 1, Len(s))
           rest == left \o right
<1>1. Len(s) \in Nat /\ i \in 1 .. Len(s) /\ DOMAIN s = 1 .. Len(s)
  OBVIOUS
<1>2. /\ left \in Seq(T) /\ Len(left) = i - 1
      /\ \A k \in 1 .. i - 1 : left[k] = s[k]
  BY <1>1
<1>3. /\ right \in Seq(T) /\ Len(right) = Len(s) - i
      /\ \A k \in 1 .. Len(s) - i : right[k] = s[i + k]
  BY <1>1
<1> HIDE DEF left, right
<1>4. /\ rest \in Seq(T) /\ Len(rest) = Len(s) - 1
      /\ \A k \in 1 .. i - 1 : rest[k] = s[k]
      /\ \A k \in i .. Len(s) - 1 : rest[k] = s[k + 1]
  <2>1. rest \in Seq(T) /\ Len(rest) = Len(s) - 1
    <3>1. left \o right \in Seq(T) /\ Len(left \o right) = Len(left) + Len(right)
      BY <1>2, <1>3, ConcatProperties
    <3>2. Len(left) + Len(right) = Len(s) - 1
      BY <1>1, <1>2, <1>3
    <3> QED
      BY <3>1, <3>2
  <2>2. \A k \in 1 .. i - 1 : rest[k] = s[k]
    BY <1>1, <1>2, <1>3
  <2>3. ASSUME NEW k \in i .. Len(s) - 1 PROVE rest[k] = s[k + 1]
    <3>1. /\ k \in 1 .. Len(left) + Len(right) /\ ~(k <= Len(left))
          /\ k - Len(left) \in 1 .. Len(s) - i /\ i + (k - Len(left)) = k + 1
      BY <1>1, <1>2, <1>3
    <3>2. rest[k] = right[k - Len(left)]
      BY <1>2, <1>3, <3>1
    <3> QED
      BY <1>3, <3>1, <3>2
  <2> QED
    BY <2>1, <2>2, <2>3
<1> HIDE DEF rest
<1>5. ASSUME NEW x, NEW k \in DOMAIN s, s[k] = x, x # s[i] PROVE \E n \in 1 .. Len(s) - 1 : rest[n] = x
  <2>1. CASE k < i
    <3>1. k \in 1 .. i - 1 /\ k \in 1 .. Len(s) - 1
      BY <1>1, <2>1
    <3> QED
      BY <1>4, <1>5, <3>1
  <2>2. CASE k > i
    <3>1. k - 1 \in i .. Len(s) - 1 /\ k - 1 \in 1 .. Len(s) - 1 /\ (k - 1) + 1 = k
      BY <1>1, <2>2
    <3> QED
      BY <1>4, <1>5, <3>1
  <2> QED
    BY <1>1, <1>5, <2>1, <2>2
<1>6. ASSUME NEW x, NEW n \in 1 .. Len(s) - 1, rest[n] = x PROVE \E k \in DOMAIN s : s[k] = x
  <2>1. CASE n < i
    <3>1. n \in 1 .. i - 1 /\ n \in DOMAIN s
      BY <1>1, <2>1
    <3> QED
      BY <1>4, <1>6, <3>1
  <2>2. CASE ~(n < i)
    <3>1. n \in i .. Len(s) - 1 /\ n + 1 \in DOMAIN s
      BY <1>1, <2>2
    <3> QED
      BY <1>4, <1>6, <3>1
  <2> QED
    BY <2>1, <2>2
<1>7. \A x : (\E k \in DOMAIN s : s[k] = x) <=> x = s[i] \/ \E n \in 1 .. Len(s) - 1 : rest[n] = x
  BY <1>5, <1>6
<1> QED
  BY <1>4, <1>7 DEF rest, left, right
=============================================================================
