------------------------ MODULE LinxMessageFilterProofs ------------------------
(***************************************************************************)
(* What FirstMatch and RemoveAt return, for any list, and what happens to  *)
(* the elements and to the order of a list without repetition.             *)
(***************************************************************************)
EXTENDS LinxMessageFilter, FiniteSets, TLAPS, SequenceTheorems, FiniteSetTheorems,
        WellFoundedInduction

LEMMA NatMinimum ==
  ASSUME NEW S, S \subseteq Nat, S # {}
  PROVE  \E x \in S : \A y \in S : x <= y
<1>1. PICK x \in S : \A y \in S : <<y, x>> \notin OpToRel(<, Nat)
  BY WFMin, NatLessThanWellFounded, Zenon
<1>2. \A y \in S : ~(y < x)
  BY <1>1, Zenon DEF OpToRel
<1> QED BY <1>2

LEMMA MinOfNat ==
  ASSUME NEW S, S \subseteq Nat, S # {}
  PROVE  Min(S) \in S /\ \A y \in S : Min(S) <= y
BY NatMinimum DEF Min

LEMMA FirstMatchProperties ==
  ASSUME NEW S, NEW s \in Seq(S), NEW filter
  PROVE  /\ FirstMatch(s, filter) \in 0..Len(s)
         /\ FirstMatch(s, filter) = 0 <=>
              \A i \in 1..Len(s) : ~Matches(s[i], filter)
<1> DEFINE I == {i \in 1..Len(s) : Matches(s[i], filter)}
<1>1. FirstMatch(s, filter) = IF I # {} THEN Min(I) ELSE 0
  BY DEF FirstMatch, SelectInSeq
<1>2. Len(s) \in Nat /\ I \subseteq Nat
  OBVIOUS
<1>3. I # {} => Min(I) \in I
  BY <1>2, MinOfNat
<1> QED BY <1>1, <1>2, <1>3

LEMMA FirstMatchIsFirst ==
  ASSUME NEW S, NEW s \in Seq(S), NEW filter, FirstMatch(s, filter) # 0
  PROVE  /\ Matches(s[FirstMatch(s, filter)], filter)
         /\ \A i \in 1..Len(s) : i < FirstMatch(s, filter) => ~Matches(s[i], filter)
<1> DEFINE I == {i \in 1..Len(s) : Matches(s[i], filter)}
<1>1. FirstMatch(s, filter) = IF I # {} THEN Min(I) ELSE 0
  BY DEF FirstMatch, SelectInSeq
<1>2. Len(s) \in Nat /\ I \subseteq Nat /\ I # {}
  BY <1>1
<1>3. FirstMatch(s, filter) \in I /\ \A i \in I : FirstMatch(s, filter) <= i
  BY <1>1, <1>2, MinOfNat
<1> QED BY <1>2, <1>3

LEMMA RemoveAtProperties ==
  ASSUME NEW S, NEW s \in Seq(S), NEW i \in 1..Len(s)
  PROVE  /\ RemoveAt(s, i) \in Seq(S)
         /\ Len(RemoveAt(s, i)) = Len(s) - 1
         /\ \A j \in 1..(Len(s) - 1) :
              RemoveAt(s, i)[j] = IF j < i THEN s[j] ELSE s[j + 1]
<1> DEFINE before == SubSeq(s, 1, i - 1)
           after  == SubSeq(s, i + 1, Len(s))
<1>1. Len(s) \in Nat /\ RemoveAt(s, i) = before \o after
  BY DEF RemoveAt
<1>2. /\ before \in Seq(S) /\ Len(before) = i - 1
      /\ \A j \in 1..(i - 1) : before[j] = s[j]
  BY <1>1, SubSeqProperties
<1>3. /\ after \in Seq(S) /\ Len(after) = Len(s) - i
      /\ \A j \in 1..(Len(s) - i) : after[j] = s[i + j]
  BY <1>1, SubSeqProperties
<1> HIDE DEF before, after
<1>4. /\ before \o after \in Seq(S)
      /\ Len(before \o after) = Len(before) + Len(after)
      /\ \A j \in 1..(Len(before) + Len(after)) : (before \o after)[j] =
           IF j <= Len(before) THEN before[j] ELSE after[j - Len(before)]
  BY <1>2, <1>3, ConcatProperties, Zenon
<1>5. i \in Nat /\ 1 <= i /\ i <= Len(s) /\ Len(before) + Len(after) = Len(s) - 1
  BY <1>1, <1>2, <1>3
<1>6. ASSUME NEW j \in 1..(Len(s) - 1), j < i
      PROVE  RemoveAt(s, i)[j] = s[j]
  <2>1. j \in 1..(i - 1) /\ j <= Len(before) /\ j \in 1..(Len(before) + Len(after))
    BY <1>1, <1>2, <1>5, <1>6
  <2> QED BY <2>1, <1>1, <1>2, <1>4
<1>7. ASSUME NEW j \in 1..(Len(s) - 1), ~(j < i)
      PROVE  RemoveAt(s, i)[j] = s[j + 1]
  <2>1. /\ j - Len(before) \in 1..(Len(s) - i)
        /\ i + (j - Len(before)) = j + 1
        /\ ~(j <= Len(before))
        /\ j \in 1..(Len(before) + Len(after))
    BY <1>1, <1>2, <1>5, <1>7
  <2>2. RemoveAt(s, i)[j] = after[j - Len(before)]
    BY <2>1, <1>1, <1>4
  <2> QED BY <2>1, <2>2, <1>3
<1> QED BY <1>1, <1>4, <1>5, <1>6, <1>7

-----------------------------------------------------------------------------
(* Sequences without repetition                                            *)

Injective(s) == \A i, j \in DOMAIN s : s[i] = s[j] => i = j

\* x stands before y.
Earlier(s, x, y) == \E i, j \in DOMAIN s : i < j /\ s[i] = x /\ s[j] = y

LEMMA AppendKeeps ==
  ASSUME NEW S, NEW s \in Seq(S), NEW d \in S
  PROVE  /\ ToSet(Append(s, d)) = ToSet(s) \union {d}
         /\ \A x, y : Earlier(s, x, y) => Earlier(Append(s, d), x, y)
         /\ \A x \in ToSet(s) : Earlier(Append(s, d), x, d)
         /\ Injective(s) /\ d \notin ToSet(s) => Injective(Append(s, d))
<1> DEFINE t == Append(s, d)
<1>1. /\ Len(s) \in Nat /\ DOMAIN s = 1..Len(s) /\ DOMAIN t = 1..(Len(s) + 1)
      /\ \A i \in 1..Len(s) : t[i] = s[i]
      /\ t[Len(s) + 1] = d
  OBVIOUS
<1> HIDE DEF t
<1>2. ToSet(t) = ToSet(s) \union {d}
  <2>1. ASSUME NEW x \in ToSet(t) PROVE x \in ToSet(s) \union {d}
    BY <1>1, <2>1 DEF ToSet
  <2>2. ASSUME NEW x \in ToSet(s) PROVE x \in ToSet(t)
    BY <1>1, <2>2 DEF ToSet
  <2>3. d \in ToSet(t)
    BY <1>1 DEF ToSet
  <2> QED BY <2>1, <2>2, <2>3
<1>3. ASSUME NEW x, NEW y, Earlier(s, x, y) PROVE Earlier(t, x, y)
  BY <1>1, <1>3 DEF Earlier
<1>4. ASSUME NEW x \in ToSet(s) PROVE Earlier(t, x, d)
  BY <1>1, <1>4 DEF Earlier, ToSet
<1>5. ASSUME Injective(s), d \notin ToSet(s) PROVE Injective(t)
  BY <1>1, <1>5 DEF Injective, ToSet
<1> QED BY <1>2, <1>3, <1>4, <1>5 DEF t

LEMMA EarlierIsStrict ==
  ASSUME NEW S, NEW s \in Seq(S), Injective(s), NEW x, NEW y, Earlier(s, x, y)
  PROVE  x # y /\ ~Earlier(s, y, x) /\ x \in ToSet(s) /\ y \in ToSet(s)
BY DEF Injective, Earlier, ToSet

\* A sequence whose elements stand in the order of another one.
InOrder(s, t) == \A i, j \in DOMAIN s : i < j => Earlier(t, s[i], s[j])

LEMMA OrderedIsInjective ==
  ASSUME NEW S, NEW s \in Seq(S), NEW t \in Seq(S), Injective(t), InOrder(s, t)
  PROVE  Injective(s)
<1> SUFFICES ASSUME NEW i \in DOMAIN s, NEW j \in DOMAIN s, s[i] = s[j], i # j PROVE FALSE
  BY DEF Injective
<1>1. i < j \/ j < i
  OBVIOUS
<1> QED BY <1>1, EarlierIsStrict DEF InOrder

LEMMA AppendInOrder ==
  ASSUME NEW S, NEW s \in Seq(S), NEW t, InOrder(s, t), NEW d \in S,
         \A x \in ToSet(s) : Earlier(t, x, d)
  PROVE  InOrder(Append(s, d), t)
<1>1. /\ Len(s) \in Nat /\ DOMAIN s = 1..Len(s) /\ DOMAIN Append(s, d) = 1..(Len(s) + 1)
      /\ \A i \in 1..Len(s) : Append(s, d)[i] = s[i]
      /\ Append(s, d)[Len(s) + 1] = d
  OBVIOUS
<1>2. \A i \in 1..Len(s) : s[i] \in ToSet(s)
  BY <1>1 DEF ToSet
<1> QED BY <1>1, <1>2 DEF InOrder

LEMMA RemoveKeeps ==
  ASSUME NEW S, NEW s \in Seq(S), NEW i \in 1..Len(s), Injective(s)
  PROVE  /\ ToSet(RemoveAt(s, i)) = ToSet(s) \ {s[i]}
         /\ \A t : InOrder(s, t) => InOrder(RemoveAt(s, i), t)
<1> DEFINE r == RemoveAt(s, i)
<1>1. /\ Len(s) \in Nat /\ DOMAIN s = 1..Len(s) /\ DOMAIN r = 1..(Len(s) - 1)
      /\ \A j \in 1..(Len(s) - 1) : r[j] = IF j < i THEN s[j] ELSE s[j + 1]
  BY RemoveAtProperties
<1> HIDE DEF r
<1>2. ASSUME NEW x \in ToSet(r) PROVE x \in ToSet(s) \ {s[i]}
  BY <1>1, <1>2 DEF ToSet, Injective
<1>3. ASSUME NEW x \in ToSet(s), x # s[i] PROVE x \in ToSet(r)
  <2>1. PICK j \in 1..Len(s) : s[j] = x /\ j # i
    BY <1>1, <1>3 DEF ToSet
  <2>2. CASE j < i
    BY <1>1, <2>1, <2>2 DEF ToSet
  <2>3. CASE j > i
    <3>1. j - 1 \in 1..(Len(s) - 1) /\ r[j - 1] = x
      BY <1>1, <2>1, <2>3
    <3> QED BY <1>1, <3>1 DEF ToSet
  <2> QED BY <2>1, <2>2, <2>3
<1>4. ASSUME NEW t, InOrder(s, t) PROVE InOrder(r, t)
  <2> SUFFICES ASSUME NEW j \in DOMAIN r, NEW k \in DOMAIN r, j < k
               PROVE  Earlier(t, r[j], r[k])
    BY DEF InOrder
  <2>1. PICK m \in DOMAIN s : r[j] = s[m] /\ m = IF j < i THEN j ELSE j + 1
    BY <1>1
  <2>2. PICK n \in DOMAIN s : r[k] = s[n] /\ n = IF k < i THEN k ELSE k + 1
    BY <1>1
  <2>3. m < n
    BY <1>1, <2>1, <2>2
  <2> QED BY <1>4, <2>1, <2>2, <2>3 DEF InOrder
<1> QED BY <1>2, <1>3, <1>4 DEF r

LEMMA TailKeeps ==
  ASSUME NEW S, NEW s \in Seq(S), s # <<>>, Injective(s)
  PROVE  /\ Tail(s) \in Seq(S) /\ Head(s) \in S
         /\ ToSet(Tail(s)) = ToSet(s) \ {Head(s)} /\ Head(s) \in ToSet(s)
         /\ \A t : InOrder(s, t) =>
              /\ InOrder(Tail(s), t)
              /\ \A x \in ToSet(Tail(s)) : Earlier(t, Head(s), x)
<1> DEFINE r == Tail(s)
<1>1. /\ Len(s) \in Nat \ {0} /\ DOMAIN s = 1..Len(s) /\ DOMAIN r = 1..(Len(s) - 1)
      /\ \A j \in 1..(Len(s) - 1) : r[j] = s[j + 1]
      /\ r \in Seq(S) /\ Head(s) \in S /\ Head(s) = s[1]
  BY HeadTailProperties, EmptySeq
<1> HIDE DEF r
<1>2. ASSUME NEW x \in ToSet(r) PROVE x \in ToSet(s) \ {s[1]}
  BY <1>1, <1>2 DEF ToSet, Injective
<1>3. ASSUME NEW x \in ToSet(s), x # s[1] PROVE x \in ToSet(r)
  <2>1. PICK j \in 1..Len(s) : s[j] = x /\ j # 1
    BY <1>1, <1>3 DEF ToSet
  <2>2. j - 1 \in 1..(Len(s) - 1) /\ r[j - 1] = x
    BY <1>1, <2>1
  <2> QED BY <1>1, <2>2 DEF ToSet
<1>4. ASSUME NEW t, InOrder(s, t) PROVE InOrder(r, t)
  <2> SUFFICES ASSUME NEW i \in DOMAIN r, NEW j \in DOMAIN r, i < j PROVE Earlier(t, r[i], r[j])
    BY DEF InOrder
  <2>1. i \in 1..(Len(s) - 1) /\ j \in 1..(Len(s) - 1)
    BY <1>1
  <2>2. r[i] = s[i + 1] /\ r[j] = s[j + 1]
    BY <1>1, <2>1
  <2>3. i + 1 \in DOMAIN s /\ j + 1 \in DOMAIN s /\ i + 1 < j + 1
    BY <1>1, <2>1
  <2> QED BY <1>4, <2>2, <2>3 DEF InOrder
<1>5. ASSUME NEW t, InOrder(s, t), NEW x \in ToSet(r) PROVE Earlier(t, s[1], x)
  <2>1. PICK j \in DOMAIN r : r[j] = x
    BY <1>5 DEF ToSet
  <2>2. 1 \in DOMAIN s /\ j + 1 \in DOMAIN s /\ 1 < j + 1 /\ s[j + 1] = x
    BY <1>1, <2>1
  <2> QED BY <1>5, <2>2 DEF InOrder
<1>6. s[1] \in ToSet(s)
  BY <1>1 DEF ToSet
<1> QED BY <1>1, <1>2, <1>3, <1>4, <1>5, <1>6 DEF r

LEMMA EmptyKeeps == ToSet(<<>>) = {} /\ \A t : InOrder(<<>>, t)
BY DEF ToSet, InOrder

LEMMA CopiesOf ==
  ASSUME NEW S, NEW s \in Seq(S), Injective(s), NEW d
  PROVE  Cardinality({i \in DOMAIN s : s[i] = d}) = IF d \in ToSet(s) THEN 1 ELSE 0
<1> DEFINE C == {i \in DOMAIN s : s[i] = d}
<1>1. CASE d \in ToSet(s)
  <2>1. PICK i \in DOMAIN s : s[i] = d
    BY <1>1 DEF ToSet
  <2>2. C = {i}
    BY <2>1 DEF Injective
  <2> QED BY <1>1, <2>2, FS_Singleton
<1>2. CASE d \notin ToSet(s)
  <2>1. C = {}
    BY <1>2 DEF ToSet
  <2> QED BY <1>2, <2>1, FS_EmptySet
<1> QED BY <1>1, <1>2

\* Whether x is in a sequence, and at most once.
Occurs(s, x) == \E i \in DOMAIN s : s[i] = x
Single(s, x) == \A i, j \in DOMAIN s : s[i] = x /\ s[j] = x => i = j

LEMMA AppendOccurs ==
  ASSUME NEW S, NEW s \in Seq(S), NEW d \in S, NEW x
  PROVE  /\ Occurs(Append(s, d), x) <=> Occurs(s, x) \/ d = x
         /\ Single(s, x) /\ (d = x => ~Occurs(s, x)) => Single(Append(s, d), x)
<1> DEFINE t == Append(s, d)
<1>1. /\ Len(s) \in Nat /\ DOMAIN s = 1..Len(s) /\ DOMAIN t = 1..(Len(s) + 1)
      /\ \A i \in 1..Len(s) : t[i] = s[i]
      /\ t[Len(s) + 1] = d
  OBVIOUS
<1> HIDE DEF t
<1>2. /\ Occurs(t, x) <=> Occurs(s, x) \/ d = x
      /\ Single(s, x) /\ (d = x => ~Occurs(s, x)) => Single(t, x)
  BY <1>1 DEF Occurs, Single
<1> QED BY <1>2 DEF t

LEMMA TailOccurs ==
  ASSUME NEW S, NEW s \in Seq(S), s # <<>>
  PROVE  \A x : /\ Occurs(s, x) <=> Occurs(Tail(s), x) \/ Head(s) = x
                /\ Single(s, x) =>
                     Single(Tail(s), x) /\ (Head(s) = x => ~Occurs(Tail(s), x))
<1> DEFINE t == Tail(s)
           h == Head(s)
           n == Len(s)
<1>1. /\ n \in Nat \ {0} /\ DOMAIN s = 1..n /\ DOMAIN t = 1..(n - 1)
      /\ \A i \in 1..(n - 1) : t[i] = s[i + 1]
      /\ h = s[1]
  BY HeadTailProperties, EmptySeq
<1> HIDE DEF t, h, n
<1>2. \A i \in 1..(n - 1) : i + 1 \in 1..n
  BY <1>1
<1>3. \A i \in 1..n : i = 1 \/ (i - 1 \in 1..(n - 1) /\ t[i - 1] = s[i])
  BY <1>1
<1>4. \A x : Occurs(s, x) <=> Occurs(t, x) \/ h = x
  <2>1. ASSUME NEW x, Occurs(s, x) PROVE Occurs(t, x) \/ h = x
    <3>1. PICK i \in 1..n : s[i] = x
      BY <1>1, <2>1 DEF Occurs
    <3>2. i = 1 \/ (i - 1 \in 1..(n - 1) /\ t[i - 1] = s[i])
      BY <1>3
    <3> QED BY <1>1, <3>1, <3>2 DEF Occurs
  <2>2. ASSUME NEW x, Occurs(t, x) \/ h = x PROVE Occurs(s, x)
    <3>1. CASE h = x
      <4>1. 1 \in DOMAIN s /\ s[1] = x
        BY <1>1, <3>1
      <4> QED BY <4>1 DEF Occurs
    <3>2. CASE Occurs(t, x)
      <4>1. PICK i \in 1..(n - 1) : t[i] = x
        BY <1>1, <3>2 DEF Occurs
      <4> QED BY <1>1, <1>2, <4>1 DEF Occurs
    <3> QED BY <2>2, <3>1, <3>2
  <2> QED BY <2>1, <2>2
<1>5. ASSUME NEW x, Single(s, x) PROVE Single(t, x) /\ (h = x => ~Occurs(t, x))
  <2>1. ASSUME NEW i \in 1..(n - 1), NEW j \in 1..(n - 1), t[i] = x, t[j] = x PROVE i = j
    <3>1. i + 1 \in 1..n /\ j + 1 \in 1..n /\ s[i + 1] = x /\ s[j + 1] = x
      BY <1>1, <1>2, <2>1
    <3>2. i + 1 = j + 1
      BY <1>1, <1>5, <3>1 DEF Single
    <3> QED BY <3>2
  <2>2. ASSUME h = x, NEW i \in 1..(n - 1), t[i] = x PROVE FALSE
    <3>1. i + 1 \in 1..n /\ 1 \in 1..n /\ s[i + 1] = x /\ s[1] = x
      BY <1>1, <1>2, <2>2
    <3>2. i + 1 = 1
      BY <1>1, <1>5, <3>1 DEF Single
    <3> QED BY <3>2
  <2> QED BY <1>1, <2>1, <2>2 DEF Single, Occurs
<1> QED BY <1>4, <1>5 DEF t, h

LEMMA EmptyOccurs == \A x : ~Occurs(<<>>, x) /\ Single(<<>>, x)
BY DEF Occurs, Single

LEMMA CopiesOfSingle ==
  ASSUME NEW s, NEW d, Single(s, d)
  PROVE  Cardinality({i \in DOMAIN s : s[i] = d}) = IF Occurs(s, d) THEN 1 ELSE 0
<1> DEFINE C == {i \in DOMAIN s : s[i] = d}
<1>1. CASE Occurs(s, d)
  <2>1. PICK i \in DOMAIN s : s[i] = d
    BY <1>1 DEF Occurs
  <2>2. C = {i}
    BY <2>1 DEF Single
  <2> QED BY <1>1, <2>2, FS_Singleton
<1>2. CASE ~Occurs(s, d)
  <2>1. C = {}
    BY <1>2 DEF Occurs
  <2> QED BY <1>2, <2>1, FS_EmptySet
<1> QED BY <1>1, <1>2
=============================================================================
