------------------------------ MODULE Extrema ------------------------------
(***************************************************************************)
(* Facts about bounded sets of integers that the proofs of several modules *)
(* need: least and greatest elements, what Max and Min of FiniteSetsExt    *)
(* return for them, and induction along an interval, stated for a set      *)
(* instead of a predicate.  Then facts about lists.                        *)
(***************************************************************************)
EXTENDS Integers, SequencesExt, TLAPS, WellFoundedInduction, SequenceTheorems

LessNat == {ss \in Nat \X Nat : ss[1] < ss[2]}

\* The order of the naturals is well-founded, as a relation.
LEMMA LessNatWF == IsWellFoundedOn(LessNat, Nat)
  BY NatLessThanWellFounded DEF OpToRel, LessNat

\* A non-empty set of integers between two bounds has a greatest element: the
\* element whose distance to the upper bound is minimal.
LEMMA BoundedMax ==
  ASSUME NEW a \in Int, NEW b \in Int, NEW S \in SUBSET (a..b), S # {}
  PROVE  \E m \in S : \A x \in S : m >= x
<1> DEFINE T == {n \in Nat : b - n \in S}
<1>1. T \subseteq Nat /\ T # {}
  <2>1. PICK x \in S : TRUE
    OBVIOUS
  <2>2. b - x \in T
    BY <2>1
  <2> QED BY <2>2
<1>2. PICK t \in T : \A y \in T : ~ (<<y, t>> \in LessNat)
  <2> HIDE DEF T
  <2> QED BY <1>1, LessNatWF, WFMin
<1>3. ASSUME NEW y \in T PROVE t <= y
  <2>1. <<y, t>> \in Nat \X Nat
    BY <1>1
  <2>2. ~ (y < t)
    BY <1>2, <2>1 DEF LessNat
  <2> QED BY <2>2, <1>1
<1>4. b - t \in S
  OBVIOUS
<1>5. ASSUME NEW x \in S PROVE b - t >= x
  <2>1. b - x \in T
    OBVIOUS
  <2>2. t <= b - x
    BY <2>1, <1>3
  <2>3. t \in Int /\ x \in Int
    OBVIOUS
  <2> QED BY <2>2, <2>3
<1> QED
  BY <1>4, <1>5

\* Max of such a set is its greatest element.
LEMMA MaxOfBounded ==
  ASSUME NEW a \in Int, NEW b \in Int, NEW S \in SUBSET (a..b), S # {}
  PROVE  Max(S) \in S /\ \A x \in S : Max(S) >= x
  BY BoundedMax DEF Max

\* A non-empty set of natural numbers has a least element, and Min is it.
LEMMA MinOfNats ==
  ASSUME NEW S \in SUBSET Nat, S # {}
  PROVE  Min(S) \in S /\ \A x \in S : Min(S) <= x
<1>1. PICK m \in S : \A y \in S : ~ (<<y, m>> \in LessNat)
  BY LessNatWF, WFMin
<1>2. ASSUME NEW y \in S PROVE m <= y
  <2>1. <<y, m>> \in Nat \X Nat /\ ~ (y < m)
    BY <1>1 DEF LessNat
  <2> QED BY <2>1
<1> QED BY <1>1, <1>2 DEF Min

\* What holds at a, and with k also at k + 1, holds up to b.
LEMMA Upwards ==
  ASSUME NEW a \in Int, NEW b \in Int, NEW S, a \in S,
         \A k \in a..(b - 1) : k \in S => k + 1 \in S
  PROVE  \A k \in a..b : k \in S
<1> DEFINE T == {n \in Nat : a + n \in a..b /\ a + n \notin S}
<1> SUFFICES ASSUME NEW z \in a..b, z \notin S PROVE FALSE
  OBVIOUS
<1>1. T \subseteq Nat /\ T # {}
  <2>1. z - a \in T
    OBVIOUS
  <2> QED BY <2>1
<1>2. PICK t \in T : \A y \in T : ~ (<<y, t>> \in LessNat)
  <2> HIDE DEF T
  <2> QED BY <1>1, LessNatWF, WFMin
<1>3. t \in Nat /\ t # 0 /\ a + t \in a..b /\ a + t \notin S
  OBVIOUS
<1>4. t - 1 \in Nat /\ <<t - 1, t>> \in LessNat
  BY <1>3 DEF LessNat
<1>5. t - 1 \notin T
  <2> HIDE DEF T
  <2> QED BY <1>2, <1>4
<1>6. a + (t - 1) \in S /\ a + (t - 1) \in a..(b - 1)
  BY <1>3, <1>4, <1>5
<1>7. (a + (t - 1)) + 1 \in S
  BY <1>6
<1>8. (a + (t - 1)) + 1 = a + t
  BY <1>3
<1> QED BY <1>3, <1>7, <1>8

\* Finitely many natural numbers have an upper bound.
LEMMA NatsHaveBound ==
  ASSUME NEW n \in Nat, NEW f, \A i \in 1..n : f[i] \in Nat
  PROVE  \E b \in Nat : \A i \in 1..n : f[i] <= b
<1> DEFINE S == {k \in Nat : \E b \in Nat : \A i \in 1..k : i <= n => f[i] <= b}
<1>1. 0 \in S
  OBVIOUS
<1>2. ASSUME NEW k \in 0..(n - 1), k \in S PROVE k + 1 \in S
  <2>1. PICK b \in Nat : \A i \in 1..k : i <= n => f[i] <= b
    BY <1>2
  <2>2. k + 1 \in 1..n /\ f[k + 1] \in Nat
    OBVIOUS
  <2>3. PICK c \in Nat : b <= c /\ f[k + 1] <= c
    <3>1. b <= b + f[k + 1] /\ f[k + 1] <= b + f[k + 1] /\ b + f[k + 1] \in Nat
      BY <2>2
    <3> QED BY <3>1
  <2>4. \A i \in 1..(k + 1) : i <= n => f[i] <= c
    <3> SUFFICES ASSUME NEW i \in 1..(k + 1), i <= n PROVE f[i] <= c
      OBVIOUS
    <3>1. f[i] \in Nat
      OBVIOUS
    <3> QED BY <2>1, <2>3, <3>1
  <2> QED BY <2>3, <2>4
<1> HIDE DEF S
<1>3. \A k \in 0..n : k \in S
  BY <1>1, <1>2, Upwards
<1>4. n \in S
  BY <1>3
<1> QED BY <1>4 DEF S

\* So Max finds the greatest of finitely many natural numbers.
LEMMA MaxOfListed ==
  ASSUME NEW n \in Nat \ {0}, NEW f, \A i \in 1..n : f[i] \in Nat,
         NEW S, S = {f[i] : i \in 1..n}
  PROVE  Max(S) \in S /\ Max(S) \in Nat /\ \A i \in 1..n : f[i] <= Max(S)
<1>1. PICK b \in Nat : \A i \in 1..n : f[i] <= b
  BY NatsHaveBound
<1>2. S \in SUBSET (0..b) /\ f[1] \in S
  BY <1>1
<1>3. S # {} /\ 0 \in Int /\ b \in Int
  BY <1>2
<1>4. Max(S) \in S /\ \A x \in S : Max(S) >= x
  BY <1>2, <1>3, MaxOfBounded
<1>5. \A i \in 1..n : f[i] \in S
  OBVIOUS
<1> QED BY <1>2, <1>4, <1>5

-----------------------------------------------------------------------------
(* Lists.                                                                  *)

\* Moving an element of a list to its end keeps the list's elements.
LEMMA LastNowKeepsAll ==
  ASSUME NEW T, NEW q \in Seq(T), NEW i \in 1..Len(q)
  PROVE  LET new == Append(RemoveAt(q, i), q[i])
         IN  new \in Seq(T) /\ ToSet(new) = ToSet(q)
<1> DEFINE n == Len(q)
           rest == RemoveAt(q, i)
           new == Append(rest, q[i])
<1>1. n \in Nat /\ i \in 1..n /\ q[i] \in T /\ \A k \in 1..n : q[k] \in T
  OBVIOUS
<1>2. /\ SubSeq(q, 1, i - 1) \in Seq(T) /\ Len(SubSeq(q, 1, i - 1)) = i - 1
      /\ \A k \in 1..(i - 1) : SubSeq(q, 1, i - 1)[k] = q[k]
  BY <1>1
<1>3. /\ SubSeq(q, i + 1, n) \in Seq(T) /\ Len(SubSeq(q, i + 1, n)) = n - i
      /\ \A k \in 1..(n - i) : SubSeq(q, i + 1, n)[k] = q[k + i]
  BY <1>1
<1>4. /\ rest \in Seq(T) /\ Len(rest) = n - 1
      /\ \A k \in 1..(i - 1) : rest[k] = q[k]
      /\ \A k \in i..(n - 1) : rest[k] = q[k + 1]
  <2> DEFINE a == SubSeq(q, 1, i - 1)
             b == SubSeq(q, i + 1, n)
  <2>1. rest = a \o b
    BY DEF RemoveAt
  <2>2. /\ a \in Seq(T) /\ Len(a) = i - 1 /\ \A k \in 1..(i - 1) : a[k] = q[k]
        /\ b \in Seq(T) /\ Len(b) = n - i /\ \A k \in 1..(n - i) : b[k] = q[k + i]
    BY <1>2, <1>3
  <2> HIDE DEF a, b, rest, n
  <2>3. /\ a \o b \in Seq(T) /\ Len(a \o b) = n - 1
        /\ \A k \in 1..(n - 1) : (a \o b)[k] = IF k <= i - 1 THEN a[k] ELSE b[k - (i - 1)]
    BY <1>1, <2>2
  <2>4. ASSUME NEW k \in i..(n - 1) PROVE rest[k] = q[k + 1]
    <3>1. k \in 1..(n - 1) /\ ~(k <= i - 1) /\ k - (i - 1) \in 1..(n - i)
          /\ (k - (i - 1)) + i = k + 1
      BY <1>1
    <3> QED BY <2>1, <2>2, <2>3, <3>1
  <2>5. ASSUME NEW k \in 1..(i - 1) PROVE rest[k] = q[k]
    <3>1. k \in 1..(n - 1) /\ k <= i - 1
      BY <1>1
    <3> QED BY <2>1, <2>2, <2>3, <3>1
  <2> QED BY <2>1, <2>3, <2>4, <2>5
<1> HIDE DEF rest
<1>5. /\ new \in Seq(T) /\ Len(new) = n /\ new[n] = q[i]
      /\ \A k \in 1..(n - 1) : new[k] = rest[k]
  BY <1>1, <1>4
<1> HIDE DEF new
<1>6. \A k \in 1..n : \E j \in 1..n : new[j] = q[k]
  <2> SUFFICES ASSUME NEW k \in 1..n PROVE \E j \in 1..n : new[j] = q[k]
    OBVIOUS
  <2>1. CASE k < i
    <3>1. k \in 1..(i - 1) /\ k \in 1..(n - 1) /\ k \in 1..n
      BY <1>1, <2>1
    <3> QED BY <1>4, <1>5, <3>1
  <2>2. CASE k = i
    BY <1>1, <1>5, <2>2
  <2>3. CASE k > i
    <3>1. k - 1 \in i..(n - 1) /\ k - 1 \in 1..(n - 1) /\ k - 1 \in 1..n /\ (k - 1) + 1 = k
      BY <1>1, <2>3
    <3>2. new[k - 1] = q[k]
      BY <1>4, <1>5, <3>1
    <3> QED BY <3>1, <3>2
  <2> QED BY <1>1, <2>1, <2>2, <2>3
<1>7. \A k \in 1..n : \E j \in 1..n : new[k] = q[j]
  <2> SUFFICES ASSUME NEW k \in 1..n PROVE \E j \in 1..n : new[k] = q[j]
    OBVIOUS
  <2>1. CASE k = n
    BY <1>1, <1>5, <2>1
  <2>2. CASE k < i
    <3>1. k \in 1..(i - 1) /\ k \in 1..(n - 1) /\ k \in 1..n
      BY <1>1, <2>2
    <3> QED BY <1>4, <1>5, <3>1
  <2>3. CASE k >= i /\ k < n
    <3>1. k \in i..(n - 1) /\ k \in 1..(n - 1) /\ k + 1 \in 1..n
      BY <1>1, <2>3
    <3> QED BY <1>4, <1>5, <3>1
  <2> QED BY <1>1, <2>1, <2>2, <2>3
<1>8. DOMAIN q = 1..n /\ DOMAIN new = 1..n
  BY <1>5
<1>9. ToSet(new) = ToSet(q)
  <2>1. ToSet(new) = {new[k] : k \in 1..n} /\ ToSet(q) = {q[k] : k \in 1..n}
    BY <1>8 DEF ToSet
  <2>2. {new[k] : k \in 1..n} \subseteq {q[k] : k \in 1..n}
    BY <1>7, Zenon
  <2>3. {q[k] : k \in 1..n} \subseteq {new[k] : k \in 1..n}
    <3> SUFFICES ASSUME NEW k \in 1..n PROVE q[k] \in {new[j] : j \in 1..n}
      OBVIOUS
    <3> QED BY <1>6
  <2> QED BY <2>1, <2>2, <2>3
<1> QED BY <1>5, <1>9 DEF new, rest

\* What is in a list, and a list without repetitions.
Items(q) == {q[i] : i \in 1..Len(q)}
Distinct(q) == \A i, j \in 1..Len(q) : q[i] = q[j] => i = j

\* What is added to a list is in it.
LEMMA ItemsAppend ==
  ASSUME NEW T, NEW q \in Seq(T), NEW m \in T
  PROVE  /\ Items(Append(q, m)) = Items(q) \cup {m}
         /\ m \notin Items(q) /\ Distinct(q) => Distinct(Append(q, m))
<1> DEFINE n == Len(q)
           q2 == Append(q, m)
<1>1. n \in Nat /\ Len(q2) = n + 1 /\ q2[n + 1] = m /\ \A i \in 1..n : q2[i] = q[i]
  OBVIOUS
<1> HIDE DEF n, q2
<1>2. \A x : (\E i \in 1..(n + 1) : x = q2[i]) <=> (\E i \in 1..n : x = q[i]) \/ x = m
  <2>1. \A i \in 1..(n + 1) : i \in 1..n \/ i = n + 1
    BY <1>1
  <2>2. n + 1 \in 1..(n + 1) /\ \A i \in 1..n : i \in 1..(n + 1)
    BY <1>1
  <2> QED BY <1>1, <2>1, <2>2
<1>3. Items(q2) = Items(q) \cup {m}
  BY <1>1, <1>2 DEF Items, n
<1>4. ASSUME m \notin Items(q), Distinct(q) PROVE Distinct(q2)
  <2>1. \A i \in 1..n : q[i] # m
    BY <1>4 DEF Items, n
  <2> QED BY <1>1, <1>4, <2>1 DEF Distinct, n
<1> QED BY <1>3, <1>4 DEF q2

\* What is left of a list without repetitions is what was in it but the head.
LEMMA ItemsTail ==
  ASSUME NEW T, NEW q \in Seq(T), q # <<>>
  PROVE  /\ Head(q) \in Items(q) /\ Tail(q) \in Seq(T)
         /\ Distinct(q) => Items(Tail(q)) = Items(q) \ {Head(q)} /\ Distinct(Tail(q))
<1> DEFINE n == Len(q)
           q2 == Tail(q)
<1>1. /\ n \in Nat /\ n >= 1 /\ Len(q2) = n - 1 /\ Head(q) = q[1] /\ q2 \in Seq(T)
      /\ \A i \in 1..(n - 1) : q2[i] = q[i + 1]
  OBVIOUS
<1> HIDE DEF n, q2
<1>2. Head(q) \in Items(q)
  BY <1>1 DEF Items, n
<1>3. ASSUME Distinct(q) PROVE Items(q2) = Items(q) \ {Head(q)} /\ Distinct(q2)
  <2>1. ASSUME NEW i \in 1..(n - 1) PROVE q2[i] \in Items(q) \ {Head(q)}
    <3>1. i + 1 \in 1..n /\ 1 \in 1..n /\ i + 1 # 1
      BY <1>1
    <3> QED BY <1>1, <1>3, <3>1 DEF Items, Distinct, n
  <2>2. ASSUME NEW i \in 1..n, q[i] # Head(q) PROVE q[i] \in Items(q2)
    <3>1. i - 1 \in 1..(n - 1) /\ (i - 1) + 1 = i
      BY <1>1, <2>2
    <3>2. q2[i - 1] = q[i]
      BY <1>1, <3>1
    <3> QED BY <1>1, <3>1, <3>2 DEF Items
  <2>3. Distinct(q2)
    <3> SUFFICES ASSUME NEW i \in 1..(n - 1), NEW j \in 1..(n - 1), q2[i] = q2[j] PROVE i = j
      BY <1>1 DEF Distinct
    <3>1. i + 1 \in 1..n /\ j + 1 \in 1..n /\ q[i + 1] = q[j + 1]
      BY <1>1
    <3>2. i + 1 = j + 1
      BY <1>3, <3>1 DEF Distinct, n
    <3> QED BY <3>2
  <2>4. Items(q2) = {q2[i] : i \in 1..(n - 1)} /\ Items(q) = {q[i] : i \in 1..n}
    BY <1>1 DEF Items, n
  <2> QED BY <2>1, <2>2, <2>3, <2>4
<1> QED BY <1>1, <1>2, <1>3 DEF q2

\* The first element of a list that is in a set is in the set.
LEMMA FirstInSet ==
  ASSUME NEW T, NEW seq \in Seq(T), NEW S, S # {}, S \subseteq ToSet(seq)
  PROVE  seq[Min({i \in 1..Len(seq) : seq[i] \in S})] \in S
<1> DEFINE I == {i \in 1..Len(seq) : seq[i] \in S}
<1>1. I \in SUBSET Nat /\ I # {}
  BY DEF ToSet
<1> HIDE DEF I
<1>2. Min(I) \in I
  BY <1>1, MinOfNats
<1> QED BY <1>2 DEF I

\* A queue with one element.
LEMMA OneElement ==
  ASSUME NEW S, NEW q \in Seq(S), q # <<>>, Len(q) <= 1
  PROVE  Len(q) = 1 /\ Tail(q) = <<>> /\ Head(q) = q[1]
<1>1. Len(q) \in Nat /\ Len(q) # 0 /\ Head(q) = q[1]
  OBVIOUS
<1>2. Len(q) = 1
  BY <1>1
<1>3. Tail(q) \in Seq(S) /\ Len(Tail(q)) = 0
  BY <1>2
<1> QED BY <1>1, <1>2, <1>3, EmptySeq

=============================================================================
