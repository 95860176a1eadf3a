---------------------------- MODULE ListTheorems ----------------------------
(***************************************************************************)
(* What the operations on lists do, for lists of any length, induction     *)
(* over the natural numbers, and functions defined by recursion on them.   *)
(***************************************************************************)
EXTENDS Lists, SequenceTheorems, WellFoundedInduction, TLAPS

-----------------------------------------------------------------------------
(* Induction.                                                              *)

\* Every non-empty set of natural numbers has a least element.
LEMMA LeastNatural ==
  ASSUME NEW T, T \subseteq Nat, T # {}
  PROVE  \E x \in T : \A y \in T : x <= y
<1> DEFINE R == {ss \in Nat \X Nat : ss[1] < ss[2]}
<1>1. IsWellFoundedOn(R, Nat)
  BY NatLessThanWellFounded, Zenon DEF OpToRel
<1>2. \A x, y \in Nat : y < x => <<y, x>> \in R
  OBVIOUS
<1> HIDE DEF R
<1>3. PICK x \in T : \A y \in T : <<y, x>> \notin R
  BY <1>1, WFMin
<1>4. \A y \in T : y \in Nat /\ x \in Nat /\ ~(y < x)
  BY <1>2, <1>3
<1>5. \A y \in T : x <= y
  BY <1>4
<1> QED
  BY <1>5

\* Induction over the natural numbers, for a set instead of a predicate.
LEMMA SetInduction ==
  ASSUME NEW S, 0 \in S, \A n \in Nat : n \in S => n + 1 \in S
  PROVE  Nat \subseteq S
<1> SUFFICES ASSUME Nat \ S # {} PROVE FALSE
  OBVIOUS
<1>1. PICK x \in Nat \ S : \A y \in Nat \ S : x <= y
  BY LeastNatural
<1>2. x # 0 /\ x - 1 \in Nat /\ x - 1 < x
  BY <1>1
<1>3. x - 1 \in S
  BY <1>1, <1>2
<1>4. (x - 1) + 1 \in S
  BY <1>2, <1>3
<1> QED
  BY <1>1, <1>4

\* f begins with a and goes on by the step g
IsRecursion(f, S, a, n, g) ==
  /\ f \in [0..n -> S] /\ f[0] = a
  /\ \A k \in 1..n : f[k] = g[<<k, f[k - 1]>>]

\* A function on 0..n is given by its first value and a step.
LEMMA RecursionExists ==
  ASSUME NEW S, NEW a \in S, NEW n \in Nat, NEW g \in [(1..n) \X S -> S]
  PROVE  \E f : IsRecursion(f, S, a, n, g)
<1> DEFINE P(f, m) == /\ f \in [0..m -> S] /\ f[0] = a
                      /\ \A k \in 1..m : f[k] = g[<<k, f[k - 1]>>]
           Upto == {m \in Nat : m <= n => \E f : P(f, m)}
<1>1. 0 \in Upto
  <2>1. P([k \in 0..0 |-> a], 0)
    OBVIOUS
  <2> QED
    BY <2>1
<1> HIDE DEF P
<1>2. ASSUME NEW m \in Nat, m \in Upto PROVE m + 1 \in Upto
  <2> SUFFICES ASSUME m + 1 <= n PROVE \E f : P(f, m + 1)
    OBVIOUS
  <2>1. PICK f : P(f, m)
    BY <1>2
  <2> USE DEF P
  <2> DEFINE last == g[<<m + 1, f[m]>>]
             h == [k \in 0..(m + 1) |-> IF k = m + 1 THEN last ELSE f[k]]
  <2>2. f[m] \in S /\ m + 1 \in 1..n
    BY <2>1
  <2>3. last \in S
    BY <2>2
  <2> HIDE DEF last
  <2>4. h \in [0..(m + 1) -> S] /\ h[0] = a
    BY <2>1, <2>3
  <2>5. \A k \in 1..(m + 1) : h[k] = g[<<k, h[k - 1]>>]
    <3>1. \A k \in 1..m : h[k] = f[k] /\ h[k - 1] = f[k - 1]
      BY <2>1
    <3>2. h[m + 1] = last /\ h[m] = f[m]
      BY <2>1
    <3> HIDE DEF h
    <3>3. h[m + 1] = g[<<m + 1, h[m]>>]
      BY <3>2 DEF last
    <3> SUFFICES ASSUME NEW k \in 1..(m + 1) PROVE h[k] = g[<<k, h[k - 1]>>]
      OBVIOUS
    <3>4. CASE k = m + 1
      <4>1. k - 1 = m
        BY <3>4
      <4> QED
        BY <3>3, <3>4, <4>1
    <3>5. CASE k \in 1..m
      BY <2>1, <3>1, <3>5
    <3> QED
      BY <3>4, <3>5
  <2> HIDE DEF h
  <2> QED
    BY <2>4, <2>5
<1> HIDE DEF Upto
<1>3. n \in Upto
  BY <1>1, <1>2, SetInduction
<1> QED
  BY <1>3 DEF Upto, P, IsRecursion

\* Two functions with the same first value and the same step agree.
LEMMA RecursionUnique ==
  ASSUME NEW n \in Nat, NEW f, NEW h, f[0] = h[0],
         \A k \in 1..n : f[k - 1] = h[k - 1] => f[k] = h[k]
  PROVE  f[n] = h[n]
<1> DEFINE Upto == {m \in Nat : m <= n => f[m] = h[m]}
<1>1. 0 \in Upto
  OBVIOUS
<1>2. ASSUME NEW m \in Nat, m \in Upto PROVE m + 1 \in Upto
  <2>1. CASE m + 1 <= n
    <3>1. m + 1 \in 1..n /\ (m + 1) - 1 = m /\ f[m] = h[m]
      BY <1>2, <2>1
    <3>2. f[m + 1] = h[m + 1]
      BY <3>1
    <3> QED
      BY <3>2
  <2> QED
    BY <2>1
<1> HIDE DEF Upto
<1>3. n \in Upto
  BY <1>1, <1>2, SetInduction
<1> QED
  BY <1>3 DEF Upto

-----------------------------------------------------------------------------
(* Facts about sequences.                                                  *)

LEMMA EmptyFacts ==
  Elements(<<>>) = {} /\ NoDuplicates(<<>>) /\ \A S : <<>> \in Seq(S)
<1>1. DOMAIN <<>> = {}
  OBVIOUS
<1> QED
  BY <1>1 DEF Elements, NoDuplicates

LEMMA ElementsType ==
  ASSUME NEW S, NEW s \in Seq(S)
  PROVE  Elements(s) \subseteq S /\ (Elements(s) = {} => s = <<>>)
<1>1. DOMAIN s = 1..Len(s) /\ Len(s) \in Nat /\ \A i \in 1..Len(s) : s[i] \in S
  OBVIOUS
<1>2. s # <<>> => 1 \in DOMAIN s
  BY <1>1
<1> QED
  BY <1>1, <1>2 DEF Elements

LEMMA AppendFacts ==
  ASSUME NEW S, NEW s \in Seq(S), NEW e \in S
  PROVE  /\ Append(s, e) \in Seq(S)
         /\ Elements(Append(s, e)) = Elements(s) \cup {e}
         /\ NoDuplicates(s) /\ e \notin Elements(s) => NoDuplicates(Append(s, e))
<1> DEFINE new == Append(s, e)
<1>1. /\ DOMAIN new = 1..(Len(s) + 1) /\ DOMAIN s = 1..Len(s) /\ Len(s) \in Nat
      /\ \A i \in 1..Len(s) : new[i] = s[i]
      /\ new[Len(s) + 1] = e /\ new \in Seq(S)
  OBVIOUS
<1> HIDE DEF new
<1>2. \A i \in DOMAIN new : i = Len(s) + 1 \/ (i \in DOMAIN s /\ new[i] = s[i])
  BY <1>1
<1>3. Len(s) + 1 \in DOMAIN new /\ DOMAIN s \subseteq DOMAIN new
  BY <1>1
<1>4. Elements(new) = Elements(s) \cup {e}
  BY <1>1, <1>2, <1>3 DEF Elements
<1>5. ASSUME NoDuplicates(s), e \notin Elements(s)
      PROVE  NoDuplicates(new)
  <2>1. \A k \in DOMAIN s : new[k] # e
    BY <1>1, <1>5 DEF Elements
  <2> QED
    BY <1>1, <1>2, <1>5, <2>1 DEF NoDuplicates
<1> QED
  BY <1>1, <1>4, <1>5 DEF new

LEMMA TailFacts ==
  ASSUME NEW S, NEW s \in Seq(S), s # <<>>
  PROVE  /\ Tail(s) \in Seq(S) /\ Head(s) \in S
         /\ Elements(s) = Elements(Tail(s)) \cup {Head(s)}
         /\ NoDuplicates(s) => NoDuplicates(Tail(s)) /\ Head(s) \notin Elements(Tail(s))
<1> DEFINE new == Tail(s)
<1>1. /\ DOMAIN new = 1..(Len(s) - 1) /\ DOMAIN s = 1..Len(s) /\ Len(s) \in Nat /\ Len(s) > 0
      /\ \A i \in 1..(Len(s) - 1) : new[i] = s[i + 1]
      /\ Head(s) = s[1] /\ new \in Seq(S) /\ Head(s) \in S
  OBVIOUS
<1> HIDE DEF new
<1>2. \A i \in DOMAIN new : i \in Nat /\ i > 0 /\ i + 1 \in DOMAIN s /\ new[i] = s[i + 1]
  BY <1>1
<1>3. \A i \in DOMAIN s : i = 1 \/ (i - 1 \in DOMAIN new /\ new[i - 1] = s[i])
  BY <1>1
<1>4. 1 \in DOMAIN s
  BY <1>1
<1>5. Elements(s) = Elements(new) \cup {s[1]}
  BY <1>2, <1>3, <1>4 DEF Elements
<1>6. ASSUME NoDuplicates(s)
      PROVE  NoDuplicates(new) /\ s[1] \notin Elements(new)
  <2>1. \A i \in DOMAIN new : new[i] # s[1]
    BY <1>2, <1>4, <1>6 DEF NoDuplicates
  <2>2. \A i, j \in DOMAIN new : new[i] = new[j] => i + 1 = j + 1 /\ i \in Nat /\ j \in Nat
    BY <1>2, <1>6 DEF NoDuplicates
  <2>3. NoDuplicates(new)
    BY <2>2 DEF NoDuplicates
  <2> QED
    BY <2>1, <2>3 DEF Elements
<1> QED
  BY <1>1, <1>5, <1>6 DEF new

\* The index of an element of a list without duplicates.
LEMMA IndexFacts ==
  ASSUME NEW S, NEW s \in Seq(S), NEW x
  PROVE  /\ x \in Elements(s) => IndexOf(s, x) \in DOMAIN s /\ s[IndexOf(s, x)] = x
         /\ NoDuplicates(s) => \A i \in DOMAIN s : s[i] = x => IndexOf(s, x) = i
         /\ DOMAIN s = 1..Len(s) /\ Len(s) \in Nat
<1>1. x \in Elements(s) => IndexOf(s, x) \in DOMAIN s /\ s[IndexOf(s, x)] = x
  BY DEF IndexOf, Elements
<1>2. \A i \in DOMAIN s : s[i] = x => x \in Elements(s)
  BY DEF Elements
<1> QED
  BY <1>1, <1>2 DEF NoDuplicates

\* The first n elements of a list, and those behind them.
LEMMA SplitFacts ==
  ASSUME NEW S, NEW s \in Seq(S), NEW n \in 0..Len(s)
  PROVE  /\ SubSeq(s, 1, n) \in Seq(S) /\ Len(SubSeq(s, 1, n)) = n
         /\ \A k \in 1..n : SubSeq(s, 1, n)[k] = s[k]
         /\ SubSeq(s, n + 1, Len(s)) \in Seq(S) /\ Len(SubSeq(s, n + 1, Len(s))) = Len(s) - n
         /\ \A k \in 1..(Len(s) - n) : SubSeq(s, n + 1, Len(s))[k] = s[k + n]
<1> DEFINE front == SubSeq(s, 1, n)
           back == SubSeq(s, n + 1, Len(s))
<1>1. Len(s) \in Nat /\ n \in Nat /\ n <= Len(s) /\ \A k \in 1..Len(s) : s[k] \in S
  OBVIOUS
<1>2. front \in Seq(S) /\ Len(front) = n /\ \A k \in 1..n : front[k] = s[k]
  BY <1>1
<1>3. n + 1 \in Int /\ Len(s) \in Int /\ \A k \in (n + 1)..Len(s) : s[k] \in S
  BY <1>1
<1>4. /\ back \in Seq(S) /\ Len(back) = IF n + 1 <= Len(s) THEN Len(s) - (n + 1) + 1 ELSE 0
      /\ \A k \in 1..(Len(s) - (n + 1) + 1) : back[k] = s[(n + 1) + k - 1]
  BY <1>3, SubSeqProperties
<1> HIDE DEF front, back
<1>5. Len(s) - (n + 1) + 1 = Len(s) - n /\ \A k \in Int : (n + 1) + k - 1 = k + n
  BY <1>1
<1>6. ASSUME NEW k \in 1..(Len(s) - n) PROVE back[k] = s[k + n]
  <2>1. k \in Int
    BY <1>1
  <2> QED
    BY <1>4, <1>5, <2>1
<1>7. Len(back) = Len(s) - n
  <2>1. Len(back) = IF n + 1 <= Len(s) THEN Len(s) - (n + 1) + 1 ELSE 0
    BY <1>4
  <2> QED
    BY <1>1, <2>1
<1> QED
  BY <1>2, <1>4, <1>6, <1>7 DEF front, back

\* What is where after the removal of the element at i.
LEMMA WithoutPlaces ==
  ASSUME NEW S, NEW s \in Seq(S), NEW x \in Elements(s)
  PROVE  LET new == Without(s, x)
             i == IndexOf(s, x)
         IN  /\ new \in Seq(S) /\ Len(new) = Len(s) - 1 /\ DOMAIN new = 1..(Len(s) - 1)
             /\ \A k \in 1..(Len(s) - 1) : new[k] = IF k < i THEN s[k] ELSE s[k + 1]
<1> DEFINE new == Without(s, x)
           i == IndexOf(s, x)
           front == SubSeq(s, 1, i - 1)
           back == SubSeq(s, i + 1, Len(s))
<1>1. i \in 1..Len(s) /\ Len(s) \in Nat
  BY IndexFacts
<1>2. new = front \o back
  BY DEF Without
<1> HIDE DEF new, i
<1>3. i - 1 \in 0..Len(s) /\ i \in 0..Len(s)
  BY <1>1
<1>4. /\ front \in Seq(S) /\ Len(front) = i - 1
      /\ \A k \in 1..(i - 1) : front[k] = s[k]
  BY <1>3, SplitFacts
<1>5. /\ back \in Seq(S) /\ Len(back) = Len(s) - i
      /\ \A k \in 1..(Len(s) - i) : back[k] = s[k + i]
  BY <1>3, SplitFacts
<1> HIDE DEF front, back
<1>6. /\ new \in Seq(S) /\ Len(new) = Len(front) + Len(back)
      /\ \A k \in 1..(Len(front) + Len(back)) :
           new[k] = IF k <= Len(front) THEN front[k] ELSE back[k - Len(front)]
  BY <1>2, <1>4, <1>5, ConcatProperties, Zenon
<1>7. Len(front) + Len(back) = Len(s) - 1
  BY <1>1, <1>4, <1>5
<1>8. \A k \in 1..(Len(s) - 1) : k < i => new[k] = s[k]
  BY <1>1, <1>4, <1>6, <1>7
<1>9. ASSUME NEW k \in 1..(Len(s) - 1), ~(k < i) PROVE new[k] = s[k + 1]
  <2>1. new[k] = back[k - (i - 1)]
    BY <1>1, <1>4, <1>6, <1>7, <1>9
  <2>2. k - (i - 1) \in 1..(Len(s) - i) /\ (k - (i - 1)) + i = k + 1
    BY <1>1, <1>9
  <2> QED
    BY <2>1, <2>2, <1>5
<1>10. \A k \in 1..(Len(s) - 1) : new[k] = IF k < i THEN s[k] ELSE s[k + 1]
  BY <1>8, <1>9
<1> QED
  BY <1>6, <1>7, <1>10 DEF new, i

LEMMA WithoutFacts ==
  ASSUME NEW S, NEW s \in Seq(S), NEW x, NoDuplicates(s)
  PROVE  /\ Without(s, x) \in Seq(S)
         /\ Elements(Without(s, x)) = Elements(s) \ {x}
         /\ NoDuplicates(Without(s, x))
<1>1. CASE x \notin Elements(s)
  <2>1. Without(s, x) = s
    BY <1>1 DEF Without
  <2> QED
    BY <1>1, <2>1
<1>2. CASE x \in Elements(s)
  <2> DEFINE i == IndexOf(s, x)
             new == Without(s, x)
  <2>1. i \in DOMAIN s /\ s[i] = x
    BY <1>2, IndexFacts
  <2> HIDE DEF i
  <2>3. DOMAIN s = 1..Len(s) /\ Len(s) \in Nat /\ i \in 1..Len(s) /\ \A k \in DOMAIN s : s[k] \in S
    BY <2>1
  <2>6. /\ new \in Seq(S) /\ Len(new) = Len(s) - 1 /\ DOMAIN new = 1..(Len(s) - 1)
        /\ \A k \in 1..(Len(s) - 1) : new[k] = IF k < i THEN s[k] ELSE s[k + 1]
    BY <1>2, WithoutPlaces DEF i, new
  <2> HIDE DEF new
  <2>7. \A k \in DOMAIN new : \E j \in DOMAIN s : j # i /\ new[k] = s[j] /\ j = IF k < i THEN k ELSE k + 1
    BY <2>3, <2>6
  <2>8. \A j \in DOMAIN s : j # i => \E k \in DOMAIN new : new[k] = s[j]
    <3> SUFFICES ASSUME NEW j \in DOMAIN s, j # i PROVE \E k \in DOMAIN new : new[k] = s[j]
      OBVIOUS
    <3>1. CASE j < i
      BY <3>1, <2>3, <2>6
    <3>2. CASE j > i
      <4>1. j - 1 \in 1..(Len(s) - 1) /\ ~(j - 1 < i) /\ (j - 1) + 1 = j
        BY <3>2, <2>3
      <4> QED
        BY <4>1, <2>6
    <3> QED
      BY <3>1, <3>2, <2>3
  <2>9. Elements(new) = Elements(s) \ {x}
    <3>1. \A j \in DOMAIN s : s[j] = x => j = i
      BY <2>1 DEF NoDuplicates
    <3> QED
      BY <3>1, <2>1, <2>7, <2>8 DEF Elements
  <2>10. NoDuplicates(new)
    <3> SUFFICES ASSUME NEW k \in DOMAIN new, NEW l \in DOMAIN new, new[k] = new[l]
                 PROVE  k = l
      BY DEF NoDuplicates
    <3>1. (IF k < i THEN k ELSE k + 1) = (IF l < i THEN l ELSE l + 1)
      BY <2>7 DEF NoDuplicates
    <3> QED
      BY <3>1, <2>3, <2>6
  <2> QED
    BY <2>6, <2>9, <2>10 DEF new
<1> QED
  BY <1>1, <1>2

\* Two lists without duplicates and without a common element make a list
\* without duplicates.
LEMMA ConcatFacts ==
  ASSUME NEW S, NEW s \in Seq(S), NEW t \in Seq(S),
         NoDuplicates(s), NoDuplicates(t), Elements(s) \cap Elements(t) = {}
  PROVE  NoDuplicates(s \o t)
<1> DEFINE new == s \o t
<1>1. /\ DOMAIN s = 1..Len(s) /\ Len(s) \in Nat /\ DOMAIN t = 1..Len(t) /\ Len(t) \in Nat
      /\ DOMAIN new = 1..(Len(s) + Len(t))
      /\ \A k \in 1..(Len(s) + Len(t)) : new[k] = IF k <= Len(s) THEN s[k] ELSE t[k - Len(s)]
  OBVIOUS
<1> HIDE DEF new
<1>2. \A k \in DOMAIN new : \/ k \in DOMAIN s /\ new[k] = s[k] /\ new[k] \in Elements(s)
                            \/ /\ k - Len(s) \in DOMAIN t /\ new[k] = t[k - Len(s)]
                               /\ new[k] \in Elements(t)
  <2> SUFFICES ASSUME NEW k \in DOMAIN new
               PROVE  \/ k \in DOMAIN s /\ new[k] = s[k] /\ new[k] \in Elements(s)
                      \/ /\ k - Len(s) \in DOMAIN t /\ new[k] = t[k - Len(s)]
                         /\ new[k] \in Elements(t)
    OBVIOUS
  <2>1. CASE k <= Len(s)
    BY <1>1, <2>1 DEF Elements
  <2>2. CASE ~(k <= Len(s))
    <3>1. k - Len(s) \in 1..Len(t)
      BY <1>1, <2>2
    <3> QED
      BY <1>1, <2>2, <3>1 DEF Elements
  <2> QED
    BY <2>1, <2>2
<1>3. SUFFICES ASSUME NEW k \in DOMAIN new, NEW l \in DOMAIN new, new[k] = new[l]
               PROVE  k = l
  BY DEF NoDuplicates, new
<1>4. CASE new[k] \in Elements(s)
  <2>1. k \in DOMAIN s /\ l \in DOMAIN s /\ s[k] = s[l]
    BY <1>2, <1>3, <1>4
  <2> QED
    BY <2>1 DEF NoDuplicates
<1>5. CASE new[k] \in Elements(t)
  <2>1. k - Len(s) \in DOMAIN t /\ l - Len(s) \in DOMAIN t /\ t[k - Len(s)] = t[l - Len(s)]
    BY <1>2, <1>3, <1>5
  <2>2. k - Len(s) = l - Len(s)
    BY <2>1 DEF NoDuplicates
  <2> QED
    BY <2>2, <1>1
<1> QED
  BY <1>2, <1>4, <1>5

-----------------------------------------------------------------------------
(* What lies behind an element of a list.                                  *)

Behind(s, x) == {s[j] : j \in {k \in DOMAIN s : k > IndexOf(s, x)}}

LEMMA BehindFacts ==
  ASSUME NEW S, NEW s \in Seq(S), NEW x, NEW i \in DOMAIN s, s[i] = x, NoDuplicates(s)
  PROVE  /\ \A y : y \in Behind(s, x) <=> \E j \in DOMAIN s : j > i /\ s[j] = y
         /\ Behind(s, x) \subseteq Elements(s) \ {x}
<1>1. IndexOf(s, x) = i
  BY IndexFacts
<1>2. \A y : y \in Behind(s, x) <=> \E j \in DOMAIN s : j > i /\ s[j] = y
  BY <1>1 DEF Behind
<1>3. DOMAIN s = 1..Len(s) /\ Len(s) \in Nat
  OBVIOUS
<1>4. \A j \in DOMAIN s : j > i => s[j] # x
  BY <1>3 DEF NoDuplicates
<1> QED
  BY <1>2, <1>4 DEF Elements

\* The first element, and all the others behind it.
LEMMA HeadBehind ==
  ASSUME NEW S, NEW s \in Seq(S), NoDuplicates(s), s # <<>>
  PROVE  Head(s) \in Elements(s) /\ Elements(s) = {Head(s)} \cup Behind(s, Head(s))
<1>1. Head(s) = s[1] /\ DOMAIN s = 1..Len(s) /\ Len(s) \in Nat /\ 1 \in DOMAIN s
  OBVIOUS
<1>2. \A y : y \in Behind(s, Head(s)) <=> \E j \in DOMAIN s : j > 1 /\ s[j] = y
  BY <1>1, BehindFacts
<1>3. \A j \in DOMAIN s : j = 1 \/ j > 1
  BY <1>1
<1> QED
  BY <1>1, <1>2, <1>3 DEF Elements

\* The next element, and the others behind it.
LEMMA NextBehind ==
  ASSUME NEW S, NEW s \in Seq(S), NoDuplicates(s), NEW x \in Elements(s)
  PROVE  /\ IndexOf(s, x) = Len(s) => Behind(s, x) = {}
         /\ IndexOf(s, x) # Len(s) =>
              LET y == s[IndexOf(s, x) + 1]
              IN  y \in Elements(s) \ {x} /\ Behind(s, x) = {y} \cup Behind(s, y)
<1> DEFINE i == IndexOf(s, x)
           y == s[i + 1]
<1>1. i \in DOMAIN s /\ s[i] = x /\ DOMAIN s = 1..Len(s) /\ Len(s) \in Nat
  BY IndexFacts
<1> HIDE DEF i
<1>2. /\ \A z : z \in Behind(s, x) <=> \E j \in DOMAIN s : j > i /\ s[j] = z
      /\ Behind(s, x) \subseteq Elements(s) \ {x}
  BY <1>1, BehindFacts
<1>3. i = Len(s) => Behind(s, x) = {}
  BY <1>1, <1>2
<1>4. ASSUME i # Len(s) PROVE y \in Elements(s) \ {x} /\ Behind(s, x) = {y} \cup Behind(s, y)
  <2>1. i + 1 \in DOMAIN s /\ i + 1 > i
    BY <1>1, <1>4
  <2>2. y \in Behind(s, x)
    BY <1>2, <2>1
  <2>3. \A z : z \in Behind(s, y) <=> \E j \in DOMAIN s : j > i + 1 /\ s[j] = z
    BY <2>1, BehindFacts
  <2>4. \A j \in DOMAIN s : j > i <=> j = i + 1 \/ j > i + 1
    BY <1>1
  <2> HIDE DEF y
  <2>5. \A z : z \in Behind(s, x) <=> z = y \/ z \in Behind(s, y)
    BY <1>2, <2>1, <2>3, <2>4 DEF y
  <2> QED
    BY <1>2, <2>2, <2>5
<1> QED
  BY <1>3, <1>4 DEF i, y

\* clist_add_head puts nothing behind anything.
LEMMA AddHeadFacts ==
  ASSUME NEW S, NEW s \in Seq(S), NEW e \in S, NoDuplicates(s), e \notin Elements(s)
  PROVE  /\ AddHead(s, e) \in Seq(S) /\ NoDuplicates(AddHead(s, e))
         /\ Elements(AddHead(s, e)) = Elements(s) \cup {e}
         /\ \A x \in Elements(s) : Behind(AddHead(s, e), x) = Behind(s, x)
<1> DEFINE new == AddHead(s, e)
<1>0. <<e>> \in Seq(S) /\ Len(<<e>>) = 1 /\ <<e>>[1] = e
  OBVIOUS
<1>1. /\ new \in Seq(S) /\ Len(new) = 1 + Len(s)
      /\ \A k \in 1..(1 + Len(s)) : new[k] = IF k <= 1 THEN <<e>>[k] ELSE s[k - 1]
  <2>1. /\ <<e>> \o s \in Seq(S) /\ Len(<<e>> \o s) = Len(<<e>>) + Len(s)
        /\ \A k \in 1..(Len(<<e>>) + Len(s)) :
             (<<e>> \o s)[k] = IF k <= Len(<<e>>) THEN <<e>>[k] ELSE s[k - Len(<<e>>)]
    BY <1>0, ConcatProperties, Zenon
  <2> QED
    BY <1>0, <2>1 DEF AddHead
<1>2. DOMAIN s = 1..Len(s) /\ Len(s) \in Nat
  OBVIOUS
<1> HIDE DEF new
<1>3. DOMAIN new = 1..(Len(s) + 1) /\ new[1] = e /\ 1 \in DOMAIN new
  BY <1>0, <1>1, <1>2
<1>4. \A k \in DOMAIN s : k + 1 \in DOMAIN new /\ new[k + 1] = s[k]
  BY <1>1, <1>2, <1>3
<1>5. \A k \in DOMAIN new : k = 1 \/ (k - 1 \in DOMAIN s /\ new[k] = s[k - 1])
  BY <1>1, <1>2, <1>3
<1>6. Elements(new) = Elements(s) \cup {e}
  BY <1>3, <1>4, <1>5 DEF Elements
<1>7. NoDuplicates(new)
  <2> SUFFICES ASSUME NEW k \in DOMAIN new, NEW l \in DOMAIN new, new[k] = new[l] PROVE k = l
    BY DEF NoDuplicates
  <2>1. \A j \in DOMAIN s : s[j] # e
    BY DEF Elements
  <2>2. k = 1 <=> l = 1
    BY <1>3, <1>5, <2>1
  <2>3. k # 1 /\ l # 1 => k - 1 = l - 1
    BY <1>5 DEF NoDuplicates
  <2> QED
    BY <1>2, <1>3, <2>2, <2>3
<1>8. ASSUME NEW x \in Elements(s) PROVE Behind(new, x) = Behind(s, x)
  <2>1. PICK i \in DOMAIN s : s[i] = x
    BY DEF Elements
  <2>2. i + 1 \in DOMAIN new /\ new[i + 1] = x
    BY <1>4, <2>1
  <2>3. \A y : y \in Behind(s, x) <=> \E j \in DOMAIN s : j > i /\ s[j] = y
    BY <2>1, BehindFacts
  <2>4. \A y : y \in Behind(new, x) <=> \E j \in DOMAIN new : j > i + 1 /\ new[j] = y
    <3>1. new \in Seq(S)
      BY <1>1
    <3>2. PICK n \in DOMAIN new : n = i + 1 /\ new[n] = x
      BY <2>2
    <3>3. \A y : y \in Behind(new, x) <=> \E j \in DOMAIN new : j > n /\ new[j] = y
      BY <1>7, <3>1, <3>2, BehindFacts
    <3> QED
      BY <3>2, <3>3
  <2>5. \A j \in DOMAIN s : j > i => j + 1 \in DOMAIN new /\ j + 1 > i + 1 /\ new[j + 1] = s[j]
    BY <1>2, <1>4
  <2>6. \A j \in DOMAIN new : j > i + 1 => j - 1 \in DOMAIN s /\ j - 1 > i /\ s[j - 1] = new[j]
    BY <1>2, <1>3, <1>5
  <2> QED
    BY <2>3, <2>4, <2>5, <2>6
<1> QED
  BY <1>1, <1>6, <1>7, <1>8 DEF new

\* clist_remove takes a node from behind those before it.
LEMMA WithoutBehind ==
  ASSUME NEW S, NEW s \in Seq(S), NoDuplicates(s), NEW e, NEW x \in Elements(s), x # e
  PROVE  Behind(Without(s, e), x) = Behind(s, x) \ {e}
<1>1. CASE e \notin Elements(s)
  <2>1. Without(s, e) = s
    BY <1>1 DEF Without
  <2>2. PICK i \in DOMAIN s : s[i] = x
    BY DEF Elements
  <2>3. Behind(s, x) \subseteq Elements(s)
    BY <2>2, BehindFacts
  <2> QED
    BY <1>1, <2>1, <2>3
<1>2. CASE e \in Elements(s)
  <2> DEFINE new == Without(s, e)
             m == IndexOf(s, e)
  <2>1. /\ new \in Seq(S) /\ NoDuplicates(new) /\ DOMAIN new = 1..(Len(s) - 1)
        /\ \A k \in 1..(Len(s) - 1) : new[k] = IF k < m THEN s[k] ELSE s[k + 1]
    BY <1>2, WithoutPlaces, WithoutFacts
  <2>2. m \in DOMAIN s /\ s[m] = e /\ DOMAIN s = 1..Len(s) /\ Len(s) \in Nat
    BY <1>2, IndexFacts
  <2> HIDE DEF new, m
  <2>3. PICK i \in DOMAIN s : s[i] = x
    BY DEF Elements
  <2>4. \A j \in DOMAIN s : s[j] = e <=> j = m
    BY <2>2 DEF NoDuplicates
  <2>5. i # m
    BY <2>2, <2>3
  <2> DEFINE To(j) == IF j < m THEN j ELSE j - 1
             From(k) == IF k < m THEN k ELSE k + 1
  <2>6. \A j \in DOMAIN s : j # m => To(j) \in DOMAIN new /\ new[To(j)] = s[j]
    <3> SUFFICES ASSUME NEW j \in DOMAIN s, j # m PROVE To(j) \in DOMAIN new /\ new[To(j)] = s[j]
      OBVIOUS
    <3>1. CASE j < m
      BY <3>1, <2>1, <2>2
    <3>2. CASE j > m
      <4>1. j - 1 \in 1..(Len(s) - 1) /\ ~(j - 1 < m) /\ (j - 1) + 1 = j /\ To(j) = j - 1
        BY <3>2, <2>2
      <4> QED
        BY <4>1, <2>1
    <3> QED
      BY <3>1, <3>2, <2>2
  <2>7. \A k \in DOMAIN new : From(k) \in DOMAIN s /\ From(k) # m /\ new[k] = s[From(k)]
    BY <2>1, <2>2
  <2>8. \A y : y \in Behind(s, x) <=> \E j \in DOMAIN s : j > i /\ s[j] = y
    BY <2>3, BehindFacts
  <2>9. \A y : y \in Behind(new, x) <=> \E k \in DOMAIN new : k > To(i) /\ new[k] = y
    <3>1. To(i) \in DOMAIN new /\ new[To(i)] = x
      BY <2>3, <2>5, <2>6
    <3> QED
      <4>1. new \in Seq(S) /\ NoDuplicates(new)
        BY <2>1
      <4>2. PICK n \in DOMAIN new : n = To(i) /\ new[n] = x
        BY <3>1
      <4>3. \A y : y \in Behind(new, x) <=> \E j \in DOMAIN new : j > n /\ new[j] = y
        BY <4>1, <4>2, BehindFacts
      <4> QED
        BY <4>2, <4>3
  <2>10. \A j \in DOMAIN s : j > i /\ j # m => To(j) > To(i)
    BY <2>2, <2>3, <2>5
  <2>11. \A k \in DOMAIN new : k > To(i) => From(k) > i
    BY <2>1, <2>2, <2>3, <2>5
  <2> HIDE DEF To, From
  <2>12. \A y : y \in Behind(new, x) => y \in Behind(s, x) /\ y # e
    BY <2>4, <2>7, <2>8, <2>9, <2>11
  <2>13. \A y : y \in Behind(s, x) /\ y # e => y \in Behind(new, x)
    BY <2>4, <2>6, <2>8, <2>9, <2>10
  <2>14. Behind(new, x) = Behind(s, x) \ {e}
    BY <2>12, <2>13
  <2> QED
    BY <2>14 DEF new
<1> QED
  BY <1>1, <1>2

\* clist_insert_after: behind the new node lies what was behind its predecessor.
LEMMA InsertAfterFacts ==
  ASSUME NEW S, NEW s \in Seq(S), NoDuplicates(s), NEW x \in Elements(s), NEW e \in S, e \notin Elements(s)
  PROVE  /\ InsertAfter(s, x, e) \in Seq(S) /\ NoDuplicates(InsertAfter(s, x, e))
         /\ Elements(InsertAfter(s, x, e)) = Elements(s) \cup {e}
         /\ Behind(InsertAfter(s, x, e), e) = Behind(s, x)
<1> DEFINE i == IndexOf(s, x)
           front == SubSeq(s, 1, i)
           back == SubSeq(s, i + 1, Len(s))
           new == InsertAfter(s, x, e)
<1>1. i \in DOMAIN s /\ s[i] = x /\ DOMAIN s = 1..Len(s) /\ Len(s) \in Nat
  BY IndexFacts
<1>2. new = front \o <<e>> \o back
  BY DEF InsertAfter
<1> HIDE DEF i, new
<1>3. i \in 0..Len(s)
  BY <1>1
<1>4. /\ front \in Seq(S) /\ Len(front) = i /\ \A k \in 1..i : front[k] = s[k]
      /\ back \in Seq(S) /\ Len(back) = Len(s) - i /\ \A k \in 1..(Len(s) - i) : back[k] = s[k + i]
  BY <1>3, SplitFacts
<1> HIDE DEF front, back
<1> DEFINE mid == Append(front, e)
<1>5. front \o <<e>> = mid
  BY <1>4
<1>6. mid \in Seq(S) /\ Len(mid) = i + 1 /\ mid[i + 1] = e /\ \A k \in 1..i : mid[k] = s[k]
  <2>1. i \in Nat /\ front \in Seq(S) /\ Len(front) = i
    BY <1>3, <1>4
  <2>2. mid \in Seq(S) /\ Len(mid) = i + 1 /\ mid[i + 1] = e /\ \A k \in 1..i : mid[k] = front[k]
    BY <2>1
  <2> QED
    BY <1>4, <2>2
<1> HIDE DEF mid
<1>7. /\ new \in Seq(S) /\ Len(new) = Len(mid) + Len(back)
      /\ \A k \in 1..(Len(mid) + Len(back)) :
           new[k] = IF k <= Len(mid) THEN mid[k] ELSE back[k - Len(mid)]
  <2>1. mid \in Seq(S) /\ back \in Seq(S) /\ new = mid \o back
    BY <1>2, <1>4, <1>5, <1>6
  <2> QED
    BY <2>1, ConcatProperties, Zenon
<1>8. Len(mid) + Len(back) = Len(s) + 1
  BY <1>1, <1>4, <1>6
<1>9. DOMAIN new = 1..(Len(s) + 1)
  BY <1>7, <1>8
<1>10. i + 1 \in DOMAIN new /\ new[i + 1] = e
  BY <1>1, <1>6, <1>7, <1>8, <1>9
<1>11. \A k \in DOMAIN s : k <= i => k \in DOMAIN new /\ new[k] = s[k]
  BY <1>1, <1>6, <1>7, <1>8, <1>9
<1>12. \A k \in DOMAIN s : k > i => k + 1 \in DOMAIN new /\ new[k + 1] = s[k]
  <2> SUFFICES ASSUME NEW k \in DOMAIN s, k > i PROVE k + 1 \in DOMAIN new /\ new[k + 1] = s[k]
    OBVIOUS
  <2>1. k + 1 \in 1..(Len(s) + 1) /\ ~(k + 1 <= Len(mid)) /\ (k + 1) - Len(mid) = k - i
    BY <1>1, <1>6
  <2>2. new[k + 1] = back[k - i]
    BY <2>1, <1>7, <1>8
  <2>3. k - i \in 1..(Len(s) - i) /\ (k - i) + i = k
    BY <1>1
  <2> QED
    BY <1>4, <1>9, <2>1, <2>2, <2>3
<1>13. \A k \in DOMAIN new : \/ k = i + 1
                             \/ k <= i /\ k \in DOMAIN s /\ new[k] = s[k]
                             \/ k > i + 1 /\ k - 1 \in DOMAIN s /\ k - 1 > i /\ new[k] = s[k - 1]
  <2> SUFFICES ASSUME NEW k \in DOMAIN new, k # i + 1
               PROVE  \/ k <= i /\ k \in DOMAIN s /\ new[k] = s[k]
                      \/ k > i + 1 /\ k - 1 \in DOMAIN s /\ k - 1 > i /\ new[k] = s[k - 1]
    OBVIOUS
  <2>1. CASE k <= i
    <3>1. k \in DOMAIN s
      BY <1>1, <1>9, <2>1
    <3> QED
      BY <1>11, <2>1, <3>1
  <2>2. CASE k > i + 1
    <3>1. k - 1 \in DOMAIN s /\ k - 1 > i /\ (k - 1) + 1 = k
      BY <1>1, <1>9, <2>2
    <3> QED
      BY <1>12, <2>2, <3>1
  <2> QED
    BY <1>1, <1>9, <2>1, <2>2
<1>14. Elements(new) = Elements(s) \cup {e}
  <2>1. \A k \in DOMAIN s : k <= i \/ k > i
    BY <1>1
  <2> QED
    BY <1>10, <1>11, <1>12, <1>13, <2>1 DEF Elements
<1>15. NoDuplicates(new)
  <2> SUFFICES ASSUME NEW k \in DOMAIN new, NEW l \in DOMAIN new, new[k] = new[l] PROVE k = l
    BY DEF NoDuplicates
  <2>1. \A j \in DOMAIN s : s[j] # e
    BY DEF Elements
  <2>2. k = i + 1 <=> l = i + 1
    BY <1>10, <1>13, <2>1
  <2> DEFINE From(j) == IF j <= i THEN j ELSE j - 1
  <2>3. ASSUME k # i + 1, l # i + 1 PROVE From(k) = From(l)
    <3>1. /\ From(k) \in DOMAIN s /\ new[k] = s[From(k)]
          /\ From(l) \in DOMAIN s /\ new[l] = s[From(l)]
      BY <1>1, <1>9, <1>13, <2>3
    <3> QED
      BY <3>1 DEF NoDuplicates
  <2> QED
    BY <1>1, <1>9, <1>13, <2>2, <2>3
<1>16. Behind(new, e) = Behind(s, x)
  <2>1. \A y : y \in Behind(s, x) <=> \E j \in DOMAIN s : j > i /\ s[j] = y
    BY <1>1, BehindFacts
  <2>2. \A y : y \in Behind(new, e) <=> \E j \in DOMAIN new : j > i + 1 /\ new[j] = y
    <3>1. new \in Seq(S)
      BY <1>7
    <3>2. PICK n \in DOMAIN new : n = i + 1 /\ new[n] = e
      BY <1>10
    <3>3. \A y : y \in Behind(new, e) <=> \E j \in DOMAIN new : j > n /\ new[j] = y
      BY <1>15, <3>1, <3>2, BehindFacts
    <3> QED
      BY <3>2, <3>3
  <2>3. \A j \in DOMAIN s : j > i => j + 1 \in DOMAIN new /\ j + 1 > i + 1 /\ new[j + 1] = s[j]
    BY <1>1, <1>12
  <2>4. \A j \in DOMAIN new : j > i + 1 => j - 1 \in DOMAIN s /\ j - 1 > i /\ s[j - 1] = new[j]
    BY <1>1, <1>9, <1>13
  <2> QED
    BY <2>1, <2>2, <2>3, <2>4
<1> QED
  BY <1>7, <1>14, <1>15, <1>16 DEF new

=============================================================================
