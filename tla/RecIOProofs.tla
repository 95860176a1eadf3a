---------------------------- MODULE RecIOProofs ----------------------------
(***************************************************************************)
(* The inductive invariant of RecIO and what follows from it: for any      *)
(* sizes of the buffers, any limits, writes of any length and any placing  *)
(* of the ends of lines.                                                   *)
(*                                                                         *)
(* The number of bytes queued is a sum over a sequence, and what it does   *)
(* when the sequence changes needs induction, which ListTheorems derives   *)
(* from the well-foundedness of <.  It is used to show that the recursive  *)
(* function of Pending is well-defined.                                    *)
(***************************************************************************)
EXTENDS RecIO, ListTheorems, SequenceTheorems, TLAPS

-----------------------------------------------------------------------------
(* The bytes pending in a queue of write buffers.                          *)

Buffers == [full : Nat, written : Nat]

\* f gives the number of bytes pending in every prefix of busy
IsSum(f, busy) ==
  /\ f \in [0..Len(busy) -> Int] /\ f[0] = 0
  /\ \A n \in 1..Len(busy) : f[n] = f[n - 1] + busy[n].full - busy[n].written

LEMMA SumExists ==
  ASSUME NEW busy \in Seq(Buffers)
  PROVE  \E f : IsSum(f, busy)
<1> DEFINE P(f, m) == /\ f \in [0..m -> Int] /\ f[0] = 0
                      /\ \A n \in 1..m : f[n] = f[n - 1] + busy[n].full - busy[n].written
           S == {m \in Nat : m <= Len(busy) => \E f : P(f, m)}
<1>0. Len(busy) \in Nat /\ \A n \in 1..Len(busy) : busy[n].full \in Int /\ busy[n].written \in Int
  <2>1. Len(busy) \in Nat /\ \A n \in 1..Len(busy) : busy[n] \in Buffers
    OBVIOUS
  <2> QED
    BY <2>1 DEF Buffers
<1>1. 0 \in S
  <2>1. P([k \in 0..0 |-> 0], 0)
    OBVIOUS
  <2> QED
    BY <2>1
<1>2. ASSUME NEW m \in Nat, m \in S PROVE m + 1 \in S
  <2> SUFFICES ASSUME m + 1 <= Len(busy) PROVE \E f : P(f, m + 1)
    BY SMTT(30)
  <2>1. PICK f : P(f, m)
    BY <1>0, <1>2
  <2> DEFINE g == [k \in 0..(m + 1) |-> IF k = m + 1 THEN f[m] + busy[m + 1].full - busy[m + 1].written
                                         ELSE f[k]]
  <2>2. f[m] \in Int /\ busy[m + 1].full \in Int /\ busy[m + 1].written \in Int
    BY <1>0, <2>1
  <2>3. g \in [0..(m + 1) -> Int] /\ g[0] = 0
    BY <2>1, <2>2
  <2>4. \A n \in 1..(m + 1) : g[n] = g[n - 1] + busy[n].full - busy[n].written
    <3>1. \A n \in 1..m : g[n] = f[n] /\ g[n - 1] = f[n - 1]
      BY <2>1
    <3>2. g[m + 1] = g[m] + busy[m + 1].full - busy[m + 1].written
      BY <2>1
    <3> HIDE DEF g
    <3> QED
      BY <2>1, <3>1, <3>2
  <2> HIDE DEF g
  <2>5. P(g, m + 1)
    BY <2>3, <2>4
  <2> QED
    BY <2>5
<1> HIDE DEF S
<1>3. Nat \subseteq S
  BY <1>1, <1>2, SetInduction
<1>4. Len(busy) \in S
  BY <1>0, <1>3
<1> QED
  BY <1>0, <1>4 DEF S, IsSum

\* Pending is what a function with the recurrence of its sum says.
LEMMA PendingIs ==
  ASSUME NEW busy \in Seq(Buffers), NEW f, IsSum(f, busy)
  PROVE  Pending(busy) = f[Len(busy)]
<1> DEFINE Step(h) == [n \in 0..Len(busy) |->
                        IF n = 0 THEN 0 ELSE h[n - 1] + busy[n].full - busy[n].written]
           sum == CHOOSE h : h = Step(h)
           S == {m \in Nat : m <= Len(busy) => sum[m] = f[m]}
<1>0. Len(busy) \in Nat
  OBVIOUS
<1>1. f = Step(f)
  BY DEF IsSum
<1>2. sum = Step(sum)
  BY <1>1
<1>3. Pending(busy) = sum[Len(busy)]
  BY DEF Pending
<1> HIDE DEF sum
<1>4. sum[0] = 0 /\ \A n \in 1..Len(busy) : sum[n] = sum[n - 1] + busy[n].full - busy[n].written
  BY <1>0, <1>2
<1>5. 0 \in S
  BY <1>4 DEF IsSum
<1>6. ASSUME NEW m \in Nat, m \in S PROVE m + 1 \in S
  <2>1. CASE m + 1 <= Len(busy)
    <3>1. m + 1 \in 1..Len(busy) /\ (m + 1) - 1 = m /\ f[m] = sum[m]
      BY <1>0, <1>6, <2>1
    <3> QED
      BY <1>4, <3>1 DEF IsSum
  <2> QED
    BY <2>1
<1> HIDE DEF S
<1>7. Nat \subseteq S
  BY <1>5, <1>6, SetInduction
<1>8. sum[Len(busy)] = f[Len(busy)]
  BY <1>0, <1>7 DEF S
<1> QED
  BY <1>3, <1>8

\* A queue of unfinished buffers has at least one byte pending for each.
LEMMA PendingPositive ==
  ASSUME NEW busy \in Seq(Buffers), \A i \in DOMAIN busy : busy[i].written < busy[i].full
  PROVE  Pending(busy) \in Int /\ Pending(busy) >= Len(busy)
<1>1. PICK f : IsSum(f, busy)
  BY SumExists
<1> DEFINE S == {m \in Nat : m <= Len(busy) => f[m] >= m}
<1>0. /\ Len(busy) \in Nat /\ DOMAIN busy = 1..Len(busy)
      /\ \A n \in 1..Len(busy) : busy[n].full \in Nat /\ busy[n].written \in Nat
  <2>1. Len(busy) \in Nat /\ DOMAIN busy = 1..Len(busy) /\ \A n \in 1..Len(busy) : busy[n] \in Buffers
    OBVIOUS
  <2> QED
    BY <2>1 DEF Buffers
<1>2. 0 \in S
  BY <1>1 DEF IsSum
<1>3. ASSUME NEW m \in Nat, m \in S PROVE m + 1 \in S
  <2>1. CASE m + 1 <= Len(busy)
    <3>1. /\ m + 1 \in 1..Len(busy) /\ (m + 1) - 1 = m /\ f[m] >= m
          /\ m \in 0..Len(busy) /\ f[m] \in Int
      BY <1>0, <1>1, <1>3, <2>1 DEF IsSum
    <3>2. f[m + 1] = f[m] + busy[m + 1].full - busy[m + 1].written
      BY <1>1, <3>1 DEF IsSum
    <3>3. busy[m + 1].full \in Nat /\ busy[m + 1].written \in Nat /\ busy[m + 1].written < busy[m + 1].full
      BY <1>0, <3>1
    <3> QED
      BY <3>1, <3>2, <3>3
  <2> QED
    BY <2>1
<1> HIDE DEF S
<1>4. Nat \subseteq S
  BY <1>2, <1>3, SetInduction
<1>5. f[Len(busy)] \in Int /\ f[Len(busy)] >= Len(busy)
  BY <1>0, <1>1, <1>4 DEF S, IsSum
<1> QED
  BY <1>1, <1>5, PendingIs

LEMMA PendingEmpty == Pending(<<>>) = 0
<1> DEFINE f == [k \in 0..0 |-> 0]
<1>1. <<>> \in Seq(Buffers) /\ Len(<<>>) = 0
  OBVIOUS
<1>2. IsSum(f, <<>>)
  BY <1>1 DEF IsSum
<1> QED
  BY <1>1, <1>2, PendingIs

\* write() took l bytes of the first buffer and finished it.
LEMMA PendingTail ==
  ASSUME NEW busy \in Seq(Buffers), busy # <<>>
  PROVE  Pending(Tail(busy)) = Pending(busy) - (busy[1].full - busy[1].written)
<1>1. PICK f : IsSum(f, busy)
  BY SumExists
<1>0. /\ Len(busy) \in Nat /\ Len(busy) > 0 /\ Tail(busy) \in Seq(Buffers)
      /\ Len(Tail(busy)) = Len(busy) - 1
      /\ \A n \in 1..(Len(busy) - 1) : Tail(busy)[n] = busy[n + 1]
      /\ \A n \in 1..Len(busy) : busy[n] \in Buffers
  OBVIOUS
<1>2. \A n \in 1..Len(busy) : busy[n].full \in Int /\ busy[n].written \in Int
  BY <1>0 DEF Buffers
<1> DEFINE g == [n \in 0..(Len(busy) - 1) |-> f[n + 1] - f[1]]
<1>3. f[1] = busy[1].full - busy[1].written /\ f[1] \in Int
  BY <1>0, <1>1, <1>2 DEF IsSum
<1>4. IsSum(g, Tail(busy))
  <2>1. g \in [0..Len(Tail(busy)) -> Int] /\ g[0] = 0
    BY <1>0, <1>1, <1>3 DEF IsSum
  <2>2. ASSUME NEW n \in 1..Len(Tail(busy))
        PROVE  g[n] = g[n - 1] + Tail(busy)[n].full - Tail(busy)[n].written
    <3>1. /\ n \in 0..(Len(busy) - 1) /\ n - 1 \in 0..(Len(busy) - 1) /\ (n - 1) + 1 = n
          /\ n + 1 \in 1..Len(busy) /\ (n + 1) - 1 = n /\ Tail(busy)[n] = busy[n + 1]
          /\ f[n] \in Int /\ f[n + 1] \in Int
      BY <1>0, <1>1 DEF IsSum
    <3>2. f[n + 1] = f[n] + busy[n + 1].full - busy[n + 1].written
      BY <1>1, <3>1 DEF IsSum
    <3>3. g[n] = f[n + 1] - f[1] /\ g[n - 1] = f[n] - f[1]
      BY <3>1
    <3>4. busy[n + 1].full \in Int /\ busy[n + 1].written \in Int
      BY <1>2, <3>1
    <3> HIDE DEF g
    <3> QED
      BY <1>3, <3>1, <3>2, <3>3, <3>4
  <2> HIDE DEF g
  <2> QED
    BY <2>1, <2>2 DEF IsSum
<1>5. g[Len(busy) - 1] = f[Len(busy)] - f[1]
  BY <1>0
<1> HIDE DEF g
<1>6. Pending(busy) = f[Len(busy)] /\ Pending(Tail(busy)) = g[Len(busy) - 1]
  BY <1>0, <1>1, <1>4, PendingIs
<1> QED
  BY <1>3, <1>5, <1>6

\* write() took l bytes of the first buffer and did not finish it.
LEMMA PendingFirst ==
  ASSUME NEW busy \in Seq(Buffers), busy # <<>>, NEW l \in Nat,
         NEW new \in Seq(Buffers), Len(new) = Len(busy),
         new[1].full = busy[1].full, new[1].written = busy[1].written + l,
         \A n \in 2..Len(busy) : new[n] = busy[n]
  PROVE  Pending(new) = Pending(busy) - l
<1>1. PICK f : IsSum(f, busy)
  BY SumExists
<1>0. /\ Len(busy) \in Nat /\ Len(busy) > 0 /\ \A n \in 1..Len(busy) : busy[n] \in Buffers
  OBVIOUS
<1>2. \A n \in 1..Len(busy) : busy[n].full \in Int /\ busy[n].written \in Int
  BY <1>0 DEF Buffers
<1> DEFINE g == [n \in 0..Len(busy) |-> IF n = 0 THEN 0 ELSE f[n] - l]
<1>3. IsSum(g, new)
  <2>1. g \in [0..Len(new) -> Int] /\ g[0] = 0
    BY <1>0, <1>1 DEF IsSum
  <2>2. ASSUME NEW n \in 1..Len(new)
        PROVE  g[n] = g[n - 1] + new[n].full - new[n].written
    <3>1. /\ f[n] = f[n - 1] + busy[n].full - busy[n].written /\ f[n] \in Int /\ f[n - 1] \in Int
          /\ f[0] = 0 /\ n \in Nat
          /\ busy[n].full \in Int /\ busy[n].written \in Int
      BY <1>0, <1>1, <1>2 DEF IsSum
    <3>2. CASE n = 1
      <4>1. g[1] = f[1] - l /\ g[0] = 0
        BY <1>0
      <4> HIDE DEF g
      <4> QED
        BY <3>1, <3>2, <4>1, SMTT(30)
    <3>3. CASE n > 1
      <4>1. g[n] = f[n] - l /\ g[n - 1] = f[n - 1] - l /\ new[n] = busy[n]
        BY <1>0, <3>1, <3>3
      <4> HIDE DEF g
      <4> QED
        BY <3>1, <4>1
    <3> QED
      BY <3>1, <3>2, <3>3
  <2> HIDE DEF g
  <2> QED
    BY <2>1, <2>2 DEF IsSum
<1>5. g[Len(busy)] = f[Len(busy)] - l
  BY <1>0
<1> HIDE DEF g
<1>6. Pending(busy) = f[Len(busy)] /\ Pending(new) = g[Len(busy)]
  BY <1>1, <1>3, PendingIs
<1> QED
  BY <1>5, <1>6

LEMMA Multiples ==
  ASSUME NEW a \in Nat, NEW b \in Nat, a <= b, NEW W \in Nat
  PROVE  /\ a * W \in Nat /\ b * W \in Nat /\ a * W <= b * W /\ (a + 1) * W = a * W + W
OBVIOUS

\* the number of buffers of W bytes that hold x bytes
LEMMA Ceiling ==
  ASSUME NEW x \in Nat, NEW W \in Nat \ {0}
  PROVE  LET a == (x + W - 1) \div W IN
         /\ a \in Nat /\ x <= a * W /\ (x > 0 => a > 0)
         /\ \A k \in 1..a : (k - 1) * W < x /\ (k - 1) * W \in Nat
<1> DEFINE a == (x + W - 1) \div W
<1>1. a \in Nat /\ a * W <= x + W - 1 /\ x + W - 1 < a * W + W
  OBVIOUS
<1> HIDE DEF a
<1>2. a * W \in Nat
  BY <1>1
<1>3. x <= a * W
  BY <1>1, <1>2
<1>4. x > 0 => a > 0
  BY <1>1, <1>2
<1>5. ASSUME NEW k \in 1..a PROVE (k - 1) * W < x /\ (k - 1) * W \in Nat
  <2>1. k - 1 \in Nat /\ k \in Nat /\ (k - 1) + 1 = k
    BY <1>1
  <2>2. k * W <= a * W /\ ((k - 1) + 1) * W = (k - 1) * W + W /\ (k - 1) * W \in Nat
    BY <1>1, <2>1, Multiples
  <2>3. k * W = (k - 1) * W + W
    BY <2>1, <2>2
  <2> QED
    BY <1>1, <1>2, <2>2, <2>3
<1> QED
  BY <1>1, <1>3, <1>4, <1>5 DEF a

\* rec_io_write queues exactly the bytes it was given, in full buffers but the last.
LEMMA FilledFacts ==
  ASSUME NEW busy \in Seq(Buffers), NEW len \in Nat \ {0},
         \A i \in DOMAIN busy : busy[i].written < busy[i].full /\ busy[i].full <= WriteBufSize
  PROVE  LET new == Filled(busy, len) IN
         /\ new \in Seq(Buffers) /\ Len(new) >= Len(busy) /\ Len(new) > 0
         /\ \A i \in DOMAIN new : new[i].written < new[i].full /\ new[i].full <= WriteBufSize
         /\ Pending(new) = Pending(busy) + len
<1> DEFINE n     == Len(busy)
           room  == IF n = 0 THEN 0 ELSE WriteBufSize - busy[n].full
           m     == Smaller(len, room)
           rest  == len - m
           added == (rest + WriteBufSize - 1) \div WriteBufSize
           new   == Filled(busy, len)
<1>0. WriteBufSize \in Nat \ {0}
  BY RecIOAssumption
<1>1. /\ n \in Nat /\ DOMAIN busy = 1..n
      /\ \A i \in 1..n : busy[i].full \in Nat /\ busy[i].written \in Nat
      /\ \A i \in 1..n : busy[i] = [full |-> busy[i].full, written |-> busy[i].written]
  <2>1. n \in Nat /\ DOMAIN busy = 1..n /\ \A i \in 1..n : busy[i] \in Buffers
    OBVIOUS
  <2> QED
    BY <2>1 DEF Buffers
<1>2. /\ room \in Nat /\ m \in Nat /\ m <= len /\ m <= room /\ rest \in Nat /\ rest + m = len
      /\ n = 0 => m = 0 /\ rest > 0
      /\ n > 0 => busy[n].full + m <= WriteBufSize
  BY <1>0, <1>1, SMTT(30) DEF Smaller
<1>3. new = [i \in 1..(n + added) |->
         IF i < n THEN busy[i]
         ELSE IF i = n THEN [busy[n] EXCEPT !.full = @ + m]
         ELSE [full |-> Smaller(WriteBufSize, rest - (i - n - 1) * WriteBufSize), written |-> 0]]
  BY DEF Filled
<1> HIDE DEF new, room, m, rest
<1>4. /\ added \in Nat /\ rest <= added * WriteBufSize /\ (rest > 0 => added > 0)
      /\ \A k \in 1..added : (k - 1) * WriteBufSize < rest /\ (k - 1) * WriteBufSize \in Nat
  BY <1>0, <1>2, Ceiling
<1> HIDE DEF added
<1> DEFINE Chunk(k) == Smaller(WriteBufSize, rest - (k - 1) * WriteBufSize)
<1>5. \A k \in 1..added : Chunk(k) \in Nat /\ 0 < Chunk(k) /\ Chunk(k) <= WriteBufSize
  <2> SUFFICES ASSUME NEW k \in 1..added
               PROVE  Chunk(k) \in Nat /\ 0 < Chunk(k) /\ Chunk(k) <= WriteBufSize
    OBVIOUS
  <2>1. (k - 1) * WriteBufSize < rest /\ (k - 1) * WriteBufSize \in Nat
    BY <1>4
  <2> QED
    BY <1>0, <1>2, <2>1 DEF Smaller
<1>6. /\ \A i \in 1..(n + added) : i < n => new[i] = busy[i]
      /\ n > 0 => new[n] = [full |-> busy[n].full + m, written |-> busy[n].written]
      /\ \A i \in 1..(n + added) : i > n => new[i] = [full |-> Chunk(i - n), written |-> 0]
  <2>1. \A i \in 1..(n + added) : i < n => new[i] = busy[i]
    BY <1>1, <1>3, <1>4
  <2>2. n > 0 => new[n] = [full |-> busy[n].full + m, written |-> busy[n].written]
    <3> SUFFICES ASSUME n > 0 PROVE new[n] = [full |-> busy[n].full + m, written |-> busy[n].written]
      OBVIOUS
    <3>1. n \in 1..(n + added) /\ n \in 1..n
      BY <1>1, <1>4
    <3>2. new[n] = [busy[n] EXCEPT !.full = @ + m]
      BY <1>1, <1>3, <3>1
    <3>3. busy[n] \in Buffers
      BY <3>1
    <3> QED
      BY <3>2, <3>3 DEF Buffers
  <2>3. \A i \in 1..(n + added) : i > n => new[i] = [full |-> Chunk(i - n), written |-> 0]
    BY <1>1, <1>3, <1>4
  <2> QED
    BY <2>1, <2>2, <2>3
<1> HIDE DEF Chunk
<1>7. \A i \in 1..(n + added) :
        new[i] \in Buffers /\ new[i].written < new[i].full /\ new[i].full <= WriteBufSize
  <2> SUFFICES ASSUME NEW i \in 1..(n + added)
               PROVE  new[i] \in Buffers /\ new[i].written < new[i].full /\ new[i].full <= WriteBufSize
    OBVIOUS
  <2>1. CASE i < n
    <3>1. new[i] = busy[i] /\ i \in 1..n /\ busy[i] \in Buffers
      BY <1>1, <1>4, <1>6, <2>1
    <3> QED
      BY <1>1, <3>1
  <2>2. CASE i = n
    <3>1. new[n] = [full |-> busy[n].full + m, written |-> busy[n].written] /\ n \in 1..n
      BY <1>1, <1>6, <2>2
    <3>2. busy[n].written < busy[n].full /\ busy[n].full \in Nat /\ busy[n].written \in Nat
      BY <1>1, <3>1
    <3>3. new[n] \in Buffers /\ new[n].full = busy[n].full + m /\ new[n].written = busy[n].written
      BY <1>2, <3>1, <3>2 DEF Buffers
    <3> QED
      BY <1>2, <2>2, <3>1, <3>2, <3>3
  <2>3. CASE i > n
    <3>1. i - n \in 1..added /\ new[i] = [full |-> Chunk(i - n), written |-> 0]
      BY <1>1, <1>4, <1>6, <2>3
    <3>2. Chunk(i - n) \in Nat /\ 0 < Chunk(i - n) /\ Chunk(i - n) <= WriteBufSize
      BY <1>5, <3>1
    <3> QED
      BY <3>1, <3>2 DEF Buffers
  <2>4. n \in Nat /\ i \in Nat
    BY <1>1, <1>4
  <2> QED
    BY <2>1, <2>2, <2>3, <2>4
<1>8. new \in Seq(Buffers) /\ Len(new) = n + added /\ DOMAIN new = 1..(n + added)
  <2>1. n + added \in Nat /\ DOMAIN new = 1..(n + added) /\ new = [i \in 1..(n + added) |-> new[i]]
    BY <1>1, <1>3, <1>4
  <2> QED
    BY <1>7, <2>1, IsASeq, LenProperties
<1>9. Pending(new) = Pending(busy) + len
  <2>1. PICK f : IsSum(f, busy)
    BY SumExists
  <2>2. f[n] \in Int /\ f \in [0..n -> Int]
    BY <1>1, <2>1 DEF IsSum
  <2> DEFINE Extra(k) == Smaller(rest, k * WriteBufSize)
             g == [i \in 0..(n + added) |-> IF i < n THEN f[i] ELSE f[n] + m + Extra(i - n)]
  <2>3. /\ Extra(0) = 0 /\ Extra(added) = rest
        /\ \A k \in 1..added : Extra(k) = Extra(k - 1) + Chunk(k) /\ Extra(k) \in Nat /\ Extra(k - 1) \in Nat
    <3>1. Extra(0) = 0
      <4>1. 0 * WriteBufSize = 0
        BY <1>0
      <4> QED
        BY <1>2, <4>1 DEF Smaller
    <3>2. Extra(added) = rest
      BY <1>0, <1>2, <1>4 DEF Smaller
    <3>3. ASSUME NEW k \in 1..added
          PROVE  Extra(k) = Extra(k - 1) + Chunk(k) /\ Extra(k) \in Nat /\ Extra(k - 1) \in Nat
      <4>1. k - 1 \in Nat /\ k \in Nat /\ (k - 1) + 1 = k
        BY <1>4
      <4>2. ((k - 1) + 1) * WriteBufSize = (k - 1) * WriteBufSize + WriteBufSize
        BY <1>0, <4>1, Multiples
      <4>3. k * WriteBufSize = (k - 1) * WriteBufSize + WriteBufSize
        BY <4>1, <4>2
      <4>4. (k - 1) * WriteBufSize < rest /\ (k - 1) * WriteBufSize \in Nat
        BY <1>4
      <4> QED
        BY <1>0, <1>2, <4>3, <4>4 DEF Smaller, Chunk
    <3> QED
      BY <3>1, <3>2, <3>3
  <2> HIDE DEF Extra
  <2>4. \A k \in 0..added : Extra(k) \in Nat
    BY <1>4, <2>3
  <2>5. /\ g \in [0..(n + added) -> Int]
        /\ \A i \in 0..(n + added) : i < n => g[i] = f[i]
        /\ g[n] = f[n] + m
        /\ \A k \in 0..added : g[n + k] = f[n] + m + Extra(k)
    <3>1. \A i \in 0..(n + added) : i < n => f[i] \in Int
      BY <1>1, <2>2
    <3>2. \A i \in 0..(n + added) : i >= n => i - n \in 0..added /\ Extra(i - n) \in Nat
      BY <1>1, <1>4, <2>4
    <3>3. g \in [0..(n + added) -> Int]
      BY <1>1, <1>2, <1>4, <2>2, <3>1, <3>2
    <3>4. \A i \in 0..(n + added) : i < n => g[i] = f[i]
      OBVIOUS
    <3>5. \A k \in 0..added : g[n + k] = f[n] + m + Extra(k)
      <4> SUFFICES ASSUME NEW k \in 0..added PROVE g[n + k] = f[n] + m + Extra(k)
        OBVIOUS
      <4>1. n + k \in 0..(n + added) /\ ~(n + k < n) /\ (n + k) - n = k
        BY <1>1, <1>4
      <4> QED
        BY <4>1
    <3>6. g[n] = f[n] + m
      <4>1. 0 \in 0..added /\ n + 0 = n
        BY <1>1, <1>4
      <4>2. g[n] = f[n] + m + Extra(0)
        BY <3>5, <4>1
      <4> QED
        BY <1>2, <2>2, <2>3, <4>2
    <3> QED
      BY <3>3, <3>4, <3>5, <3>6
  <2> HIDE DEF g
  <2>6. g[0] = 0
    <3>1. f[0] = 0
      BY <2>1 DEF IsSum
    <3>2. CASE n = 0
      BY <1>2, <2>5, <3>1, <3>2
    <3>3. CASE n > 0
      BY <1>1, <1>4, <2>5, <3>1, <3>3
    <3> QED
      BY <1>1, <3>2, <3>3
  <2>7. ASSUME NEW i \in 1..(n + added)
        PROVE  g[i] = g[i - 1] + new[i].full - new[i].written
    <3>0. i \in Nat /\ i > 0 /\ i - 1 \in 0..(n + added) /\ i \in 0..(n + added)
      BY <1>1, <1>4
    <3>1. CASE i < n
      <4>1. f[i] = f[i - 1] + busy[i].full - busy[i].written
        BY <1>1, <2>1, <3>0, <3>1 DEF IsSum
      <4>2. g[i] = f[i] /\ g[i - 1] = f[i - 1] /\ new[i] = busy[i]
        BY <1>1, <1>6, <2>5, <3>0, <3>1
      <4> QED
        BY <4>1, <4>2
    <3>2. CASE i = n
      <4>1. f[n] = f[n - 1] + busy[n].full - busy[n].written /\ f[n - 1] \in Int /\ f[n] \in Int
        BY <1>1, <2>1, <3>0, <3>2 DEF IsSum
      <4>2. g[n] = f[n] + m /\ g[n - 1] = f[n - 1]
        BY <1>1, <2>5, <3>0, <3>2
      <4>3. new[n].full = busy[n].full + m /\ new[n].written = busy[n].written
        BY <1>6, <3>0, <3>2
      <4>4. busy[n].full \in Nat /\ busy[n].written \in Nat
        BY <1>1, <3>0, <3>2
      <4> QED
        BY <1>2, <2>2, <3>2, <4>1, <4>2, <4>3, <4>4
    <3>3. CASE i > n
      <4> DEFINE k == i - n
      <4>1. k \in 1..added /\ k \in 0..added /\ k - 1 \in 0..added /\ n + k = i /\ n + (k - 1) = i - 1
        BY <1>1, <1>4, <3>0, <3>3
      <4>2. new[i] = [full |-> Chunk(k), written |-> 0]
        BY <1>6, <3>3
      <4> HIDE DEF k
      <4>3. new[i].full = Chunk(k) /\ new[i].written = 0
        BY <4>2
      <4>4. g[i] = f[n] + m + Extra(k) /\ g[i - 1] = f[n] + m + Extra(k - 1)
        <5>1. g[n + k] = f[n] + m + Extra(k) /\ g[n + (k - 1)] = f[n] + m + Extra(k - 1)
          BY <2>5, <4>1
        <5> QED
          BY <4>1, <5>1
      <4>5. Extra(k) = Extra(k - 1) + Chunk(k) /\ Extra(k) \in Nat /\ Extra(k - 1) \in Nat /\ Chunk(k) \in Nat
        BY <1>5, <2>3, <4>1
      <4> QED
        BY <1>2, <2>2, <4>3, <4>4, <4>5
    <3> QED
      BY <1>1, <3>0, <3>1, <3>2, <3>3
  <2>8. IsSum(g, new)
    BY <1>8, <2>5, <2>6, <2>7 DEF IsSum
  <2>9. g[n + added] = f[n] + len
    <3>1. g[n + added] = f[n] + m + Extra(added)
      BY <1>4, <2>5
    <3>2. Extra(added) = rest /\ f[n] \in Int
      BY <2>2, <2>3
    <3>3. m \in Int /\ rest \in Int /\ m + rest = len
      BY <1>2
    <3>4. \A a \in Int : a + m + rest = a + len
      BY <3>3
    <3>5. g[n + added] = f[n] + m + rest
      BY <3>1, <3>2
    <3> QED
      BY <3>2, <3>4, <3>5
  <2>10. Pending(new) = g[n + added] /\ Pending(busy) = f[n]
    BY <1>8, <2>1, <2>8, PendingIs
  <2> QED
    BY <2>9, <2>10
<1> QED
  BY <1>1, <1>2, <1>4, <1>7, <1>8, <1>9 DEF new

-----------------------------------------------------------------------------
(* The inductive invariant, as conditions on a state r of the structure:   *)
(* the handlers pass it through several operations in one step.            *)

Geometry(r) ==
  /\ r.read_buf_size > 0
  /\ RecMax > 0 => r.read_buf_size <= InitBufSize \/ r.read_buf_size <= 6 * RecMax
  /\ r.active => r.read_prev_avail <= r.read_avail
  /\ r.active => IF r.read_buf THEN r.rec_start + r.read_avail <= r.read_buf_size
                               ELSE r.read_avail = 0

\* reading runs exactly when its handler is there, with a buffer and no start pending
Coupled(r) ==
  /\ r.read_running <=> r.read_handler
  /\ r.read_running => r.read_buf /\ ~r.start_read_hook

Started(r) ==
  r.active => (r.read_started /\ Flow(r) => r.read_running \/ r.start_read_hook) /\ Coupled(r)

Unfinished(busy) ==
  \A i \in DOMAIN busy : busy[i].written < busy[i].full /\ busy[i].full <= WriteBufSize

Writes(r) ==
  r.active =>
    /\ r.write_watermark = Pending(r.busy) /\ Unfinished(r.busy)
    /\ r.busy # <<>> => r.write_handler \/ r.write_failed
    /\ r.write_handler => r.busy # <<>>

Dead(r) == ~r.active => ~r.timer /\ ~r.start_read_hook

RecOK(r) == r \in Rio /\ Geometry(r) /\ Started(r) /\ Writes(r) /\ Dead(r)

\* the part of the buffer in which no line ends: all of it when the main loop
\* runs, and what was looked at before during a scan
Searched(label, r) == IF label = "loop" THEN r.read_avail ELSE r.read_prev_avail

NoLineIn(e, n) == \A p \in Newlines : ~(e < p /\ p <= e + n)

Lines == rio.active /\ rio.read_running => NoLineIn(eaten, Searched(pc, rio))

IInv ==
  /\ TypeOK /\ RecOK(rio) /\ Lines
  /\ InBuffer(rio) <= sent
  /\ pc = "scan" => rio.active

SameRead(r, x) ==
  /\ x.active = r.active /\ x.timer = r.timer /\ x.read_buf = r.read_buf
  /\ x.read_buf_size = r.read_buf_size /\ x.rec_start = r.rec_start
  /\ x.read_avail = r.read_avail /\ x.read_prev_avail = r.read_prev_avail

SameWrite(r, x) ==
  /\ x.active = r.active /\ x.busy = r.busy /\ x.write_watermark = r.write_watermark
  /\ x.write_handler = r.write_handler /\ x.write_failed = r.write_failed

\* what no call of the user's changes: the data in the buffer; and reading is
\* started by the hook only
Keeps(r, x) ==
  /\ x.read_avail = r.read_avail /\ x.read_prev_avail = r.read_prev_avail
  /\ x.active => r.active
  /\ x.read_running => r.read_running

-----------------------------------------------------------------------------
(* The operations on the structure.                                        *)

LEMMA GeometryFrame ==
  ASSUME NEW r, NEW x, Geometry(r), SameRead(r, x)
  PROVE  Geometry(x)
BY DEF Geometry, SameRead

LEMMA WritesFrame ==
  ASSUME NEW r, NEW x, Writes(r), SameWrite(r, x)
  PROVE  Writes(x)
BY DEF Writes, SameWrite

\* rec_io_recalc_read: whatever it finds, afterwards reading runs or is about to
\* exactly as it should.
LEMMA RecalcFacts ==
  ASSUME NEW r \in Rio, Coupled(r), r.active
  PROVE  LET x == RecIoRecalcRead(r) IN
         /\ x \in Rio /\ SameRead(r, x) /\ SameWrite(r, x) /\ Started(x)
         /\ x.read_running => r.read_running
<1> DEFINE x == RecIoRecalcRead(r)
           run == r.read_started /\ Flow(r)
<1>0. run \in BOOLEAN /\ r.read_running \in BOOLEAN
  BY DEF Rio, Flow
<1>1. CASE run <=> r.read_running
  <2>1. x = r
    BY <1>0, <1>1 DEF RecIoRecalcRead
  <2> QED
    BY <1>1, <2>1 DEF SameRead, SameWrite, Started
<1>2. CASE run /\ ~r.read_running
  <2>1. x = [r EXCEPT !.start_read_hook = TRUE]
    BY <1>0, <1>2 DEF RecIoRecalcRead
  <2>2. x \in Rio /\ x.start_read_hook = TRUE /\ x.read_running = r.read_running
        /\ x.read_handler = r.read_handler /\ SameRead(r, x) /\ SameWrite(r, x)
    BY <2>1 DEF Rio, SameRead, SameWrite
  <2> QED
    BY <1>2, <2>2 DEF Started, Coupled
<1>3. CASE ~run /\ r.read_running
  <2>1. x = [r EXCEPT !.start_read_hook = FALSE, !.read_handler = FALSE, !.read_running = FALSE]
    BY <1>0, <1>3 DEF RecIoRecalcRead
  <2>2. /\ x \in Rio /\ SameRead(r, x) /\ SameWrite(r, x)
        /\ x.start_read_hook = FALSE /\ x.read_handler = FALSE /\ x.read_running = FALSE
        /\ x.read_started = r.read_started
    BY <2>1 DEF Rio, SameRead, SameWrite
  <2>3. Flow(x) <=> Flow(r)
    BY <2>2 DEF Flow, SameWrite
  <2> QED
    BY <1>3, <2>2, <2>3 DEF Started, Coupled
<1> QED
  BY <1>0, <1>1, <1>2, <1>3

\* The same for a change that rec_io_recalc_read follows.
LEMMA RecalcAfter ==
  ASSUME NEW r, RecOK(r), r.active, NEW s \in Rio, SameRead(r, s), Writes(s),
         s.read_running = r.read_running, s.read_handler = r.read_handler,
         s.start_read_hook = r.start_read_hook
  PROVE  LET x == RecIoRecalcRead(s) IN RecOK(x) /\ Keeps(r, x) /\ x.active
<1> DEFINE x == RecIoRecalcRead(s)
<1>1. Coupled(s) /\ s.active
  BY DEF RecOK, Started, Coupled, SameRead
<1>2. /\ x \in Rio /\ SameRead(s, x) /\ SameWrite(s, x) /\ Started(x)
      /\ x.read_running => s.read_running
  BY <1>1, RecalcFacts
<1> HIDE DEF x
<1>3. SameRead(r, x) /\ x.active
  BY <1>1, <1>2 DEF SameRead
<1>4. Geometry(x) /\ Writes(x) /\ Dead(x)
  BY <1>2, <1>3, GeometryFrame, WritesFrame DEF RecOK, Dead
<1>5. Keeps(r, x)
  BY <1>2, <1>3 DEF Keeps, SameRead
<1> QED
  BY <1>2, <1>3, <1>4, <1>5 DEF RecOK, x

LEMMA StartStopCalls ==
  ASSUME NEW r, RecOK(r), r.active
  PROVE  /\ RecOK(RecIoStartRead(r)) /\ Keeps(r, RecIoStartRead(r)) /\ RecIoStartRead(r).active
         /\ RecOK(RecIoStopRead(r)) /\ Keeps(r, RecIoStopRead(r)) /\ RecIoStopRead(r).active
<1>1. ASSUME NEW b \in BOOLEAN
      PROVE  LET s == [r EXCEPT !.read_started = b] IN
             RecOK(RecIoRecalcRead(s)) /\ Keeps(r, RecIoRecalcRead(s)) /\ RecIoRecalcRead(s).active
  <2> DEFINE s == [r EXCEPT !.read_started = b]
  <2>1. /\ s \in Rio /\ SameRead(r, s) /\ SameWrite(r, s)
        /\ s.read_running = r.read_running /\ s.read_handler = r.read_handler
        /\ s.start_read_hook = r.start_read_hook
    BY DEF RecOK, Rio, SameRead, SameWrite
  <2> HIDE DEF s
  <2>2. Writes(s)
    BY <2>1, WritesFrame DEF RecOK
  <2>3. RecOK(RecIoRecalcRead(s)) /\ Keeps(r, RecIoRecalcRead(s)) /\ RecIoRecalcRead(s).active
    BY <2>1, <2>2, RecalcAfter
  <2> QED
    BY <2>3 DEF s
<1> QED
  BY <1>1 DEF RecIoStartRead, RecIoStopRead

\* rec_io_write
LEMMA WriteCall ==
  ASSUME NEW r, RecOK(r), r.active, NEW len \in WriteLens
  PROVE  LET x == RecIoWrite(r, len) IN RecOK(x) /\ Keeps(r, x) /\ x.active
<1> DEFINE busy == Filled(r.busy, len)
           used == Len(busy) - Len(r.busy)
           idle == r.idle - Smaller(r.idle, used)
           s == [r EXCEPT !.busy = busy, !.idle = idle, !.write_watermark = @ + len,
                          !.write_handler = TRUE, !.write_failed = FALSE]
<1>1. /\ len \in Nat \ {0} /\ r.busy \in Seq(Buffers) /\ r \in Rio /\ r.write_watermark \in Int
      /\ r.idle \in Nat
  BY RecIOAssumption DEF RecOK, Rio, Buffers
<1>2. Unfinished(r.busy) /\ r.write_watermark = Pending(r.busy)
  BY DEF RecOK, Writes
<1>3. /\ busy \in Seq(Buffers) /\ Len(busy) >= Len(r.busy) /\ Len(busy) > 0 /\ Unfinished(busy)
      /\ Pending(busy) = Pending(r.busy) + len
  BY <1>1, <1>2, FilledFacts DEF Unfinished
<1> HIDE DEF busy
<1>4. idle \in Nat /\ busy # <<>>
  BY <1>1, <1>3 DEF Smaller
<1>8. RecIoWrite(r, len) = RecIoRecalcRead(s)
  BY DEF RecIoWrite, busy
<1> HIDE DEF idle
<1>9. r.write_watermark + len \in Int /\ busy \in Seq([full : Nat, written : Nat])
  BY <1>1, <1>3 DEF Buffers
<1>5. /\ s \in Rio /\ SameRead(r, s) /\ s.busy = busy /\ s.write_watermark = r.write_watermark + len
      /\ s.write_handler = TRUE /\ s.read_running = r.read_running
      /\ s.read_handler = r.read_handler /\ s.start_read_hook = r.start_read_hook
  BY <1>1, <1>4, <1>9 DEF Rio, SameRead
<1> HIDE DEF s
<1>7. Writes(s)
  BY <1>2, <1>3, <1>4, <1>5 DEF Writes
<1> QED
  BY <1>5, <1>7, <1>8, RecalcAfter

LEMMA CallsFacts ==
  ASSUME NEW r, RecOK(r), r.active, NEW x \in UserCalls(r)
  PROVE  RecOK(x) /\ Keeps(r, x) /\ x.active
<1>1. CASE x = r
  BY <1>1 DEF Keeps
<1>2. CASE x \in {RecIoStartRead(r), RecIoStopRead(r)}
  BY <1>2, StartStopCalls
<1>3. CASE \E n \in WriteLens : x = RecIoWrite(r, n)
  BY <1>3, WriteCall
<1> QED
  BY <1>1, <1>2, <1>3 DEF UserCalls

LEMMA ActsFacts ==
  ASSUME NEW r, RecOK(r), r.active, NEW x \in UserActs(r)
  PROVE  RecOK(x) /\ Keeps(r, x) /\ x.active
<1>1. PICK y \in UserCalls(r) : x \in UserCalls(y)
  BY DEF UserActs
<1>2. RecOK(y) /\ Keeps(r, y) /\ y.active
  BY <1>1, CallsFacts
<1>3. RecOK(x) /\ Keeps(y, x) /\ x.active
  BY <1>1, <1>2, CallsFacts
<1> QED
  BY <1>2, <1>3 DEF Keeps

\* rec_io_del
LEMMA DelFacts ==
  ASSUME NEW r, RecOK(r)
  PROVE  RecOK(RecIoDel(r)) /\ Keeps(r, RecIoDel(r))
<1> DEFINE x == RecIoDel(r)
<1>0. r \in Rio /\ <<>> \in Seq([full : Nat, written : Nat])
  BY DEF RecOK
<1>1. /\ x \in Rio /\ x.active = FALSE /\ x.timer = FALSE /\ x.start_read_hook = FALSE
      /\ x.read_buf_size = r.read_buf_size /\ x.read_avail = r.read_avail
      /\ x.read_prev_avail = r.read_prev_avail /\ x.read_running = r.read_running
  BY <1>0 DEF RecIoDel, Rio
<1> HIDE DEF x
<1>2. Geometry(x) /\ Started(x) /\ Writes(x) /\ Dead(x)
  BY <1>1 DEF RecOK, Geometry, Started, Writes, Dead
<1> QED
  BY <1>1, <1>2 DEF RecOK, Keeps, x

LEMMA NotifiedFacts ==
  ASSUME NEW r, RecOK(r), r.active, NEW x \in Notified(r)
  PROVE  RecOK(x) /\ Keeps(r, x)
BY ActsFacts, DelFacts DEF Notified

\* One pass of the resizing code of rec_io_read_handler makes room, ...
LEMMA RoomIsMade ==
  ASSUME NEW r \in Rio, r.read_buf_size > 0, r.rec_start + r.read_avail <= r.read_buf_size
  PROVE  ~Tight(MakeRoom(r))
<1> DEFINE size == r.read_buf_size
<1>0. r.read_buf_size \in Nat /\ r.rec_start \in Nat /\ r.read_avail \in Nat
  BY DEF Rio
<1>1. CASE ~Tight(r)
  BY <1>1 DEF MakeRoom
<1>2. CASE Tight(r) /\ r.rec_start > 0 /\ r.rec_start >= r.read_buf_size \div 2
  <2> DEFINE x == [r EXCEPT !.rec_start = 0]
  <2>1. MakeRoom(r) = x
    BY <1>2 DEF MakeRoom
  <2>2. x.rec_start = 0 /\ x.read_avail = r.read_avail /\ x.read_buf_size = r.read_buf_size
    BY DEF Rio
  <2> HIDE DEF x
  <2>3. r.read_buf_size - (0 + r.read_avail) > r.read_buf_size \div 8
    BY <1>0, <1>2
  <2> QED
    BY <1>0, <2>1, <2>2, <2>3 DEF Tight, FreeSpace
<1>3. CASE Tight(r) /\ ~(r.rec_start > 0 /\ r.rec_start >= r.read_buf_size \div 2)
  <2> DEFINE x == [r EXCEPT !.read_buf_size = 2 * @]
  <2>1. MakeRoom(r) = x
    BY <1>3 DEF MakeRoom
  <2>2. x.rec_start = r.rec_start /\ x.read_avail = r.read_avail /\ x.read_buf_size = 2 * r.read_buf_size
    BY DEF Rio
  <2> HIDE DEF x
  <2>3. 2 * r.read_buf_size - (r.rec_start + r.read_avail) > (2 * r.read_buf_size) \div 8
    BY <1>0
  <2> QED
    BY <1>0, <2>1, <2>2, <2>3 DEF Tight, FreeSpace
<1> QED
  BY <1>1, <1>2, <1>3

\* ... and the buffer grows only as far as the limit on records makes it.
LEMMA MakeRoomFacts ==
  ASSUME NEW r, RecOK(r), r.active, r.read_buf, ~TooLarge(r)
  PROVE  LET x == MakeRoom(r) IN
         /\ RecOK(x) /\ Keeps(r, x) /\ x.active /\ x.read_buf /\ x.read_running = r.read_running
<1> DEFINE x == MakeRoom(r)
<1>0. /\ r \in Rio /\ r.read_buf_size \in Nat /\ r.rec_start \in Nat /\ r.read_avail \in Nat
      /\ r.rec_start + r.read_avail <= r.read_buf_size /\ r.read_buf_size > 0
      /\ RecMax \in Nat /\ InitBufSize \in Nat
  BY RecIOAssumption DEF RecOK, Rio, Geometry
<1>1. CASE x = r
  BY <1>1 DEF Keeps
<1>2. CASE x = [r EXCEPT !.rec_start = 0]
  <2> HIDE DEF x
  <2>1. /\ x \in Rio /\ SameWrite(r, x) /\ x.timer = r.timer /\ x.read_started = r.read_started
        /\ x.read_running = r.read_running /\ x.read_handler = r.read_handler
        /\ x.start_read_hook = r.start_read_hook /\ x.read_buf = r.read_buf
        /\ x.read_buf_size = r.read_buf_size /\ x.rec_start = 0
        /\ x.read_avail = r.read_avail /\ x.read_prev_avail = r.read_prev_avail
    BY <1>0, <1>2 DEF Rio, SameWrite
  <2>2. Geometry(x)
    BY <1>0, <2>1 DEF RecOK, Geometry, SameWrite
  <2>3. Writes(x)
    BY <2>1, WritesFrame DEF RecOK
  <2>4. Started(x) /\ Dead(x) /\ Keeps(r, x) /\ x.active
    BY <2>1 DEF RecOK, Started, Coupled, Flow, Dead, Keeps, SameWrite
  <2> QED
    BY <2>1, <2>2, <2>3, <2>4 DEF RecOK, x
<1>3. CASE /\ Tight(r) /\ ~(r.rec_start > 0 /\ r.rec_start >= r.read_buf_size \div 2)
           /\ x = [r EXCEPT !.read_buf_size = 2 * @]
  <2> HIDE DEF x
  <2>0. x = [r EXCEPT !.read_buf_size = 2 * r.read_buf_size] /\ 2 * r.read_buf_size \in Nat /\ r \in Rio
    BY <1>0, <1>3
  <2>1. /\ x \in Rio /\ SameWrite(r, x) /\ x.timer = r.timer /\ x.read_started = r.read_started
        /\ x.read_running = r.read_running /\ x.read_handler = r.read_handler
        /\ x.start_read_hook = r.start_read_hook /\ x.read_buf = r.read_buf
        /\ x.read_buf_size = 2 * r.read_buf_size /\ x.rec_start = r.rec_start
        /\ x.read_avail = r.read_avail /\ x.read_prev_avail = r.read_prev_avail
    BY <2>0 DEF Rio, SameWrite
  <2>2. RecMax > 0 => 2 * r.read_buf_size <= 6 * RecMax
    <3>1. RecMax > 0 => r.read_avail < RecMax
      BY <1>0 DEF TooLarge
    <3>2. r.read_buf_size - (r.rec_start + r.read_avail) <= r.read_buf_size \div 8
      BY <1>3 DEF Tight, FreeSpace
    <3> QED
      BY <1>0, <1>3, <3>1, <3>2
  <2>3. Geometry(x)
    BY <1>0, <2>1, <2>2 DEF RecOK, Geometry, SameWrite
  <2>4. Writes(x)
    BY <2>1, WritesFrame DEF RecOK
  <2>5. Started(x) /\ Dead(x) /\ Keeps(r, x) /\ x.active
    BY <2>1 DEF RecOK, Started, Coupled, Flow, Dead, Keeps, SameWrite
  <2> QED
    BY <2>1, <2>3, <2>4, <2>5 DEF RecOK, x
<1> QED
  BY <1>1, <1>2, <1>3 DEF MakeRoom

-----------------------------------------------------------------------------
(* The steps.                                                              *)

LEMMA InitInvariant == Init => IInv
<1> SUFFICES ASSUME Init PROVE IInv
  OBVIOUS
<1>1. /\ rio = RecIoAdd /\ pc = "loop" /\ sent = 0 /\ closed = FALSE /\ eaten = 0
  BY DEF Init
<1>2. rio \in Rio
  <2>1. <<>> \in Seq([full : Nat, written : Nat]) /\ InitBufSize \in Nat
    BY RecIOAssumption
  <2> QED
    BY <1>1, <2>1 DEF RecIoAdd, Rio
<1>3. TypeOK
  <2>1. 0 \in 0..MaxBytes /\ 0 \in 0..0
    BY RecIOAssumption
  <2> QED
    BY <1>1, <1>2, <2>1 DEF TypeOK
<1>4. /\ rio.active = TRUE /\ rio.read_started = FALSE /\ rio.read_running = FALSE
      /\ rio.read_handler = FALSE /\ rio.read_buf = FALSE /\ rio.read_buf_size = InitBufSize
      /\ rio.read_avail = 0 /\ rio.read_prev_avail = 0 /\ rio.busy = <<>>
      /\ rio.write_watermark = 0 /\ rio.write_handler = FALSE
  BY <1>1 DEF RecIoAdd
<1>5. Geometry(rio)
  BY <1>4, RecIOAssumption DEF Geometry
<1>6. Started(rio) /\ Dead(rio) /\ Lines
  BY <1>4 DEF Started, Coupled, Dead, Lines
<1>7. Writes(rio)
  BY <1>4, PendingEmpty DEF Writes, Unfinished
<1>8. InBuffer(rio) <= sent
  BY <1>1, <1>4 DEF InBuffer
<1> QED
  BY <1>1, <1>2, <1>3, <1>5, <1>6, <1>7, <1>8 DEF IInv, RecOK

\* A step of the main loop that leaves the stream and the buffered data alone.
LEMMA QuietStep ==
  ASSUME IInv, pc = "loop", RecOK(rio'), Keeps(rio, rio'), UNCHANGED <<pc, sent, closed, eaten>>
  PROVE  IInv'
<1>1. TypeOK'
  BY DEF IInv, TypeOK, RecOK
<1>2. Lines'
  BY DEF IInv, Lines, Keeps, Searched
<1>3. InBuffer(rio)' <= sent'
  BY DEF IInv, InBuffer, Keeps
<1> QED
  BY <1>1, <1>2, <1>3 DEF IInv

LEMMA KeepsTrans ==
  ASSUME NEW r, NEW x, NEW y, Keeps(r, x), Keeps(x, y)
  PROVE  Keeps(r, y)
BY DEF Keeps

\* The handler of the file runs with a buffer.
LEMMA ReadingFacts ==
  ASSUME IInv, Reading
  PROVE  pc = "loop" /\ RecOK(rio) /\ rio.active /\ rio.read_running /\ rio.read_buf
BY DEF IInv, Reading, RecOK, Started, Coupled

\* rec_io_read_handler when it stops reading: too large a record, an error, EOF
LEMMA ReadStops ==
  ASSUME IInv, ReadTooLarge \/ ReadEof \/ ReadError
  PROVE  IInv'
<1>1. pc = "loop" /\ RecOK(rio) /\ rio.active /\ rio.read_buf
  BY ReadingFacts DEF ReadTooLarge, ReadEof, ReadError
<1>2. PICK x : /\ x = rio \/ (x = MakeRoom(rio) /\ ~TooLarge(rio))
               /\ rio' \in Notified(RecIoStopRead(x))
  BY DEF ReadTooLarge, ReadEof, ReadError
<1>3. RecOK(x) /\ Keeps(rio, x) /\ x.active
  BY <1>1, <1>2, MakeRoomFacts DEF Keeps
<1>4. /\ RecOK(RecIoStopRead(x)) /\ Keeps(x, RecIoStopRead(x)) /\ RecIoStopRead(x).active
  BY <1>3, StartStopCalls
<1>5. RecOK(rio') /\ Keeps(RecIoStopRead(x), rio')
  BY <1>2, <1>4, NotifiedFacts
<1>6. Keeps(rio, rio')
  BY <1>3, <1>4, <1>5, KeepsTrans
<1>7. UNCHANGED <<pc, sent, closed, eaten>>
  BY DEF ReadTooLarge, ReadEof, ReadError
<1> QED
  BY <1>1, <1>5, <1>6, <1>7, QuietStep

\* rec_io_read_handler when bytes arrive: no line ended in what was there.
LEMMA ReadSomeStep ==
  ASSUME IInv, ReadSome
  PROVE  IInv'
<1>1. pc = "loop" /\ RecOK(rio) /\ rio.active /\ rio.read_running /\ rio.read_buf /\ ~TooLarge(rio)
  BY ReadingFacts DEF ReadSome
<1> DEFINE r == MakeRoom(rio)
<1>2. RecOK(r) /\ Keeps(rio, r) /\ r.active /\ r.read_buf /\ r.read_running
  BY <1>1, MakeRoomFacts
<1>3. PICK l \in 1..FreeSpace(r) :
        /\ InBuffer(r) + l <= sent
        /\ rio' = [r EXCEPT !.read_prev_avail = r.read_avail, !.read_avail = @ + l]
  BY DEF ReadSome
<1>4. pc' = "scan" /\ UNCHANGED <<sent, closed, eaten>>
  BY DEF ReadSome
<1> HIDE DEF r
<1>5. /\ r \in Rio /\ r.read_avail \in Nat /\ r.rec_start \in Nat /\ r.read_buf_size \in Nat
      /\ FreeSpace(r) \in Int /\ l \in Nat /\ l <= FreeSpace(r)
  BY <1>2 DEF RecOK, Rio, FreeSpace
<1>6. /\ rio' \in Rio /\ SameWrite(r, rio') /\ rio'.timer = r.timer
      /\ rio'.read_started = r.read_started
      /\ rio'.read_running = r.read_running /\ rio'.read_handler = r.read_handler
      /\ rio'.start_read_hook = r.start_read_hook /\ rio'.read_buf = r.read_buf
      /\ rio'.read_buf_size = r.read_buf_size /\ rio'.rec_start = r.rec_start
      /\ rio'.read_avail = r.read_avail + l /\ rio'.read_prev_avail = r.read_avail
  <2>1. rio' = [r EXCEPT !.read_prev_avail = r.read_avail, !.read_avail = r.read_avail + l]
    BY <1>3
  <2>2. r.read_avail + l \in Nat
    BY <1>5
  <2> QED
    BY <1>5, <2>1, <2>2 DEF Rio, SameWrite
<1>7. Geometry(rio')
  <2>1. r.rec_start + (r.read_avail + l) <= r.read_buf_size
    BY <1>5 DEF FreeSpace
  <2> QED
    BY <1>2, <1>5, <1>6, <2>1 DEF RecOK, Geometry
<1>8. Writes(rio')
  BY <1>2, <1>6, WritesFrame DEF RecOK
<1>9. Started(rio') /\ Dead(rio') /\ rio'.active
  BY <1>2, <1>6 DEF RecOK, Started, Coupled, Flow, Dead, SameWrite
<1>10. Lines'
  BY <1>1, <1>2, <1>4, <1>6 DEF IInv, Lines, Searched, Keeps
<1>11. InBuffer(rio)' <= sent'
  <2>1. eaten \in Nat
    BY DEF IInv, TypeOK
  <2> QED
    BY <1>3, <1>4, <1>5, <1>6, <2>1 DEF InBuffer
<1>12. TypeOK'
  BY <1>4, <1>6 DEF IInv, TypeOK
<1> QED
  BY <1>4, <1>6, <1>7, <1>8, <1>9, <1>10, <1>11, <1>12 DEF IInv, RecOK

LEMMA ParseFacts ==
  ASSUME NEW r \in Rio, eaten \in Nat
  PROVE  LET got == RecIoParseLine(r) IN
         /\ got \in Nat /\ got <= r.read_avail
         /\ got = 0 /\ NoLineIn(eaten, r.read_prev_avail) => NoLineIn(eaten, r.read_avail)
<1> DEFINE ends == {i \in r.read_prev_avail..(r.read_avail - 1) : eaten + i + 1 \in Newlines}
<1>0. r.read_avail \in Nat /\ r.read_prev_avail \in Nat /\ Newlines \subseteq Nat /\ ends \subseteq Nat
  BY RecIOAssumption DEF Rio
<1>1. CASE ends = {}
  <2>1. RecIoParseLine(r) = 0
    BY <1>1 DEF RecIoParseLine
  <2>2. ASSUME NoLineIn(eaten, r.read_prev_avail), NEW p \in Newlines, eaten < p, p <= eaten + r.read_avail
        PROVE  FALSE
    <3>1. p \in Nat /\ ~(p <= eaten + r.read_prev_avail)
      BY <1>0, <2>2 DEF NoLineIn
    <3>2. p - eaten - 1 \in r.read_prev_avail..(r.read_avail - 1) /\ eaten + (p - eaten - 1) + 1 = p
      BY <1>0, <2>2, <3>1
    <3>3. p - eaten - 1 \in ends
      BY <3>2
    <3> QED
      BY <1>1, <3>3
  <2> QED
    BY <1>0, <2>1, <2>2 DEF NoLineIn
<1>2. CASE ends # {}
  <2> DEFINE first == CHOOSE i \in ends : \A j \in ends : i <= j
  <2>1. \E i \in ends : \A j \in ends : i <= j
    BY <1>0, <1>2, LeastNatural
  <2>2. first \in ends
    BY <2>1
  <2>3. RecIoParseLine(r) = 1 + first
    BY <1>2 DEF RecIoParseLine
  <2> HIDE DEF first
  <2> QED
    BY <1>0, <2>2, <2>3
<1> QED
  BY <1>1, <1>2

\* rec_io_process_read_buf: a line is eaten; what follows it is searched anew.
LEMMA ScanRecordStep ==
  ASSUME IInv, ScanRecord
  PROVE  IInv'
<1> DEFINE got == RecIoParseLine(rio)
<1>0. pc = "scan" /\ RecOK(rio) /\ rio.active /\ eaten \in Nat /\ InBuffer(rio) <= sent /\ sent \in Nat
  BY DEF IInv, ScanRecord, TypeOK
<1>1. got \in Nat /\ got > 0 /\ got <= rio.read_avail
  BY <1>0, ParseFacts DEF RecOK, ScanRecord
<1>2. PICK r \in UserActs(rio) :
        /\ rio' = Eat(r, got) /\ eaten' = eaten + got
        /\ pc' = IF rio'.read_avail = 0 THEN "loop" ELSE "scan"
  BY DEF ScanRecord
<1> HIDE DEF got
<1>3. UNCHANGED <<sent, closed>>
  BY DEF ScanRecord
<1>4. RecOK(r) /\ r.active /\ r.read_avail = rio.read_avail
  BY <1>0, <1>2, ActsFacts DEF Keeps
<1>5. /\ r \in Rio /\ r.read_avail \in Nat /\ r.rec_start \in Nat /\ r.read_buf_size \in Nat
      /\ r.read_avail - got \in Nat /\ r.read_avail - got <= r.read_avail
  BY <1>1, <1>4 DEF RecOK, Rio
<1> DEFINE start == IF r.read_avail - got = 0 THEN 0 ELSE r.rec_start + got
<1>6. rio' = [r EXCEPT !.rec_start = start, !.read_avail = r.read_avail - got, !.read_prev_avail = 0]
  BY <1>2 DEF Eat
<1>7. start \in Nat
  BY <1>1, <1>5
<1>8. r.read_buf => start + (r.read_avail - got) <= r.read_buf_size
  BY <1>1, <1>4, <1>5 DEF RecOK, Geometry
<1> HIDE DEF start
<1>9. /\ rio' \in Rio /\ SameWrite(r, rio') /\ rio'.timer = r.timer
      /\ rio'.read_started = r.read_started
      /\ rio'.read_running = r.read_running /\ rio'.read_handler = r.read_handler
      /\ rio'.start_read_hook = r.start_read_hook /\ rio'.read_buf = r.read_buf
      /\ rio'.read_buf_size = r.read_buf_size /\ rio'.rec_start = start
      /\ rio'.read_avail = r.read_avail - got /\ rio'.read_prev_avail = 0
  BY <1>5, <1>6, <1>7 DEF Rio, SameWrite
<1>10. Geometry(rio')
  <2>1. ~r.read_buf => r.read_avail - got = 0
    BY <1>1, <1>4, <1>5 DEF RecOK, Geometry
  <2> QED
    BY <1>4, <1>5, <1>8, <1>9, <2>1 DEF RecOK, Geometry
<1>11. Writes(rio')
  BY <1>4, <1>9, WritesFrame DEF RecOK
<1>12. Started(rio') /\ Dead(rio') /\ rio'.active
  BY <1>4, <1>9 DEF RecOK, Started, Coupled, Flow, Dead, SameWrite
<1>13. Lines'
  <2>1. eaten' \in Nat /\ Searched(pc', rio') = 0
    BY <1>0, <1>1, <1>2, <1>9 DEF Searched
  <2>2. \A e \in Nat : NoLineIn(e, 0)
    BY RecIOAssumption DEF NoLineIn
  <2> QED
    BY <2>1, <2>2 DEF Lines
<1>14. InBuffer(rio)' <= sent' /\ eaten' \in 0..sent'
  BY <1>0, <1>1, <1>2, <1>3, <1>4, <1>5, <1>9 DEF InBuffer
<1>15. TypeOK'
  BY <1>2, <1>3, <1>9, <1>14 DEF IInv, TypeOK
<1> QED
  BY <1>9, <1>10, <1>11, <1>12, <1>13, <1>14, <1>15 DEF IInv, RecOK

\* The other two ends of the scan.
LEMMA ScanEndStep ==
  ASSUME IInv, ScanDelete \/ ScanEnd
  PROVE  IInv'
<1>0. pc = "scan" /\ RecOK(rio) /\ rio.active /\ eaten \in Nat /\ InBuffer(rio) <= sent /\ rio \in Rio
  BY DEF IInv, ScanDelete, ScanEnd, TypeOK
<1>1. CASE ScanDelete
  <2>1. rio' = RecIoDel(rio) /\ pc' = "loop" /\ UNCHANGED <<sent, closed, eaten>>
    BY <1>1 DEF ScanDelete
  <2>2. RecOK(rio') /\ Keeps(rio, rio')
    BY <1>0, <2>1, DelFacts
  <2>3. rio'.active = FALSE
    BY <1>0, <2>1 DEF RecIoDel, Rio
  <2>4. TypeOK' /\ Lines' /\ InBuffer(rio)' <= sent'
    BY <2>1, <2>2, <2>3 DEF IInv, TypeOK, RecOK, Lines, InBuffer, Keeps
  <2> QED
    BY <2>1, <2>2, <2>4 DEF IInv
<1>2. CASE ScanEnd
  <2>1. pc' = "loop" /\ UNCHANGED <<rio, sent, closed, eaten>>
    BY <1>2 DEF ScanEnd
  <2>2. rio.read_running => NoLineIn(eaten, rio.read_avail)
    <3>1. rio.read_running => RecIoParseLine(rio) = 0 /\ NoLineIn(eaten, rio.read_prev_avail)
      BY <1>0, <1>2 DEF ScanEnd, IInv, Lines, Searched
    <3> QED
      BY <1>0, <3>1, ParseFacts
  <2>3. Lines'
    BY <2>1, <2>2 DEF Lines, Searched
  <2> QED
    BY <1>0, <2>1, <2>3 DEF IInv, TypeOK, InBuffer
<1> QED
  BY <1>1, <1>2

\* rec_io_deferred_start_read looks at the whole buffer again.
LEMMA StartHookStep ==
  ASSUME IInv, RunStartHook
  PROVE  IInv'
<1>0. /\ pc = "loop" /\ rio.start_read_hook /\ RecOK(rio) /\ rio \in Rio /\ eaten \in Nat
      /\ InBuffer(rio) <= sent
  BY DEF IInv, RunStartHook, TypeOK
<1>1. rio.active
  BY <1>0 DEF RecOK, Dead
<1>2. rio' = DeferredStartRead(rio) /\ pc' = "scan" /\ UNCHANGED <<sent, closed, eaten>>
  BY DEF RunStartHook
<1> DEFINE start == IF rio.read_buf THEN rio.rec_start ELSE 0
<1>3. start \in Nat
  BY <1>0 DEF Rio
<1>4. rio' = [rio EXCEPT !.read_buf = TRUE, !.rec_start = start, !.read_handler = TRUE,
                         !.start_read_hook = FALSE, !.read_running = TRUE, !.read_prev_avail = 0]
  BY <1>2 DEF DeferredStartRead
<1>5. start + rio.read_avail <= rio.read_buf_size /\ rio.read_avail \in Nat
  BY <1>0, <1>1 DEF RecOK, Geometry, Rio
<1> HIDE DEF start
<1>6. /\ rio' \in Rio /\ SameWrite(rio, rio') /\ rio'.timer = rio.timer
      /\ rio'.read_running = TRUE /\ rio'.read_handler = TRUE
      /\ rio'.start_read_hook = FALSE /\ rio'.read_buf = TRUE
      /\ rio'.read_buf_size = rio.read_buf_size /\ rio'.rec_start = start
      /\ rio'.read_avail = rio.read_avail /\ rio'.read_prev_avail = 0
  BY <1>0, <1>3, <1>4 DEF Rio, SameWrite
<1>7. Geometry(rio')
  BY <1>0, <1>1, <1>5, <1>6 DEF RecOK, Geometry, SameWrite
<1>8. Writes(rio')
  BY <1>0, <1>6, WritesFrame DEF RecOK
<1>9. Started(rio') /\ Dead(rio') /\ rio'.active
  BY <1>1, <1>6 DEF Started, Coupled, Dead, SameWrite
<1>10. Lines'
  <2>1. NoLineIn(eaten, 0)
    BY <1>0, RecIOAssumption DEF NoLineIn
  <2> QED
    BY <1>2, <1>6, <2>1 DEF Lines, Searched
<1>11. InBuffer(rio)' <= sent' /\ TypeOK'
  BY <1>0, <1>2, <1>6 DEF InBuffer, IInv, TypeOK
<1> QED
  BY <1>2, <1>6, <1>7, <1>8, <1>9, <1>10, <1>11 DEF IInv, RecOK

\* rec_io_write_handler takes l bytes off the first buffer, which goes when it
\* is exhausted.
LEMMA WroteFacts ==
  ASSUME NEW r, RecOK(r), r.active, r.busy # <<>>,
         NEW l \in 1..(Head(r.busy).full - Head(r.busy).written)
  PROVE  LET w == Wrote(r, l) IN
         /\ w \in Rio /\ SameRead(r, w) /\ Unfinished(w.busy)
         /\ w.write_watermark = Pending(w.busy)
         /\ w.write_handler = r.write_handler /\ w.write_failed = r.write_failed
         /\ w.read_running = r.read_running /\ w.read_handler = r.read_handler
         /\ w.start_read_hook = r.start_read_hook
<1> DEFINE w == Wrote(r, l)
           b == [Head(r.busy) EXCEPT !.written = @ + l]
<1>0. /\ r \in Rio /\ r.busy \in Seq(Buffers) /\ r.write_watermark \in Int /\ r.idle \in Nat
      /\ Unfinished(r.busy) /\ r.write_watermark = Pending(r.busy)
  BY DEF RecOK, Rio, Writes, Buffers
<1>1. /\ Len(r.busy) \in Nat /\ Len(r.busy) > 0 /\ DOMAIN r.busy = 1..Len(r.busy)
      /\ Tail(r.busy) \in Seq(Buffers) /\ Len(Tail(r.busy)) = Len(r.busy) - 1
      /\ \A i \in 1..(Len(r.busy) - 1) : Tail(r.busy)[i] = r.busy[i + 1]
      /\ Head(r.busy) = r.busy[1] /\ r.busy[1] \in Buffers
      /\ DOMAIN Tail(r.busy) = 1..(Len(r.busy) - 1)
  BY <1>0
<1>2. /\ r.busy[1].full \in Nat /\ r.busy[1].written \in Nat
      /\ r.busy[1].written < r.busy[1].full /\ r.busy[1].full <= WriteBufSize
  BY <1>0, <1>1 DEF Buffers, Unfinished
<1>3. /\ b \in Buffers /\ b.full = r.busy[1].full /\ b.written = r.busy[1].written + l
      /\ l \in Nat /\ b.written <= b.full /\ l > 0
  BY <1>1, <1>2 DEF Buffers
<1>4. w = [r EXCEPT !.busy = IF b.written = b.full THEN Tail(r.busy) ELSE <<b>> \o Tail(r.busy),
                    !.idle = IF b.written = b.full THEN r.idle + 1 ELSE r.idle,
                    !.write_watermark = r.write_watermark - l]
  BY DEF Wrote
<1> HIDE DEF b, w
<1>5. CASE b.written = b.full
  <2>1. w = [r EXCEPT !.busy = Tail(r.busy), !.idle = r.idle + 1,
                      !.write_watermark = r.write_watermark - l]
    BY <1>4, <1>5
  <2>2. /\ r.write_watermark - l \in Int /\ r.idle + 1 \in Nat
        /\ Tail(r.busy) \in Seq([full : Nat, written : Nat])
    <3>1. Tail(r.busy) \in Seq([full : Nat, written : Nat])
      BY <1>1, Zenon DEF Buffers
    <3> QED
      BY <1>0, <1>3, <3>1
  <2>3. /\ w \in Rio /\ SameRead(r, w) /\ w.busy = Tail(r.busy)
        /\ w.write_watermark = r.write_watermark - l
        /\ w.write_handler = r.write_handler /\ w.write_failed = r.write_failed
        /\ w.read_running = r.read_running /\ w.read_handler = r.read_handler
        /\ w.start_read_hook = r.start_read_hook
    BY <1>0, <2>1, <2>2 DEF Rio, SameRead
  <2>4. Unfinished(w.busy)
    <3>1. ASSUME NEW i \in 1..(Len(r.busy) - 1)
          PROVE  i + 1 \in DOMAIN r.busy /\ Tail(r.busy)[i] = r.busy[i + 1]
      BY <1>1
    <3> QED
      BY <1>0, <1>1, <2>3, <3>1 DEF Unfinished
  <2>5. w.write_watermark = Pending(w.busy)
    <3>1. Pending(Tail(r.busy)) = Pending(r.busy) - (r.busy[1].full - r.busy[1].written)
      BY <1>0, PendingTail
    <3>2. r.busy[1].full - r.busy[1].written = l
      BY <1>2, <1>3, <1>5
    <3> QED
      BY <1>0, <2>3, <3>1, <3>2
  <2> QED
    BY <2>3, <2>4, <2>5 DEF w
<1>6. CASE b.written # b.full
  <2> DEFINE new == <<b>> \o Tail(r.busy)
  <2>1. w = [r EXCEPT !.busy = new, !.idle = r.idle, !.write_watermark = r.write_watermark - l]
    BY <1>4, <1>6
  <2>2. /\ new \in Seq(Buffers) /\ Len(new) = Len(r.busy) /\ new[1] = b /\ DOMAIN new = 1..Len(r.busy)
        /\ \A i \in 2..Len(r.busy) : new[i] = r.busy[i]
    <3>1. <<b>> \in Seq(Buffers) /\ Len(<<b>>) = 1 /\ <<b>>[1] = b
      BY <1>3
    <3>2. /\ new \in Seq(Buffers) /\ Len(new) = 1 + (Len(r.busy) - 1)
          /\ \A i \in 1..Len(new) : new[i] = IF i <= 1 THEN <<b>>[i] ELSE Tail(r.busy)[i - 1]
      BY <1>1, <3>1, ConcatProperties
    <3> HIDE DEF new
    <3>3. Len(new) = Len(r.busy) /\ DOMAIN new = 1..Len(r.busy) /\ 1 \in 1..Len(new)
      BY <1>1, <3>2
    <3>4. \A i \in 2..Len(r.busy) : i \in 1..Len(new) /\ i - 1 \in 1..(Len(r.busy) - 1) /\ (i - 1) + 1 = i
      BY <1>1, <3>3
    <3>5. \A i \in 2..Len(r.busy) : new[i] = r.busy[i]
      BY <1>1, <3>2, <3>4
    <3> QED
      BY <3>1, <3>2, <3>3, <3>5
  <2> HIDE DEF new
  <2>3. r.write_watermark - l \in Int /\ new \in Seq([full : Nat, written : Nat])
    BY <1>0, <1>3, <2>2 DEF Buffers
  <2>4. /\ w \in Rio /\ SameRead(r, w) /\ w.busy = new
        /\ w.write_watermark = r.write_watermark - l
        /\ w.write_handler = r.write_handler /\ w.write_failed = r.write_failed
        /\ w.read_running = r.read_running /\ w.read_handler = r.read_handler
        /\ w.start_read_hook = r.start_read_hook
    BY <1>0, <2>1, <2>3 DEF Rio, SameRead
  <2>5. Unfinished(new)
    <3>1. b.written < b.full /\ b.full <= WriteBufSize
      BY <1>2, <1>3, <1>6
    <3>2. \A i \in 1..Len(r.busy) : i = 1 \/ i \in 2..Len(r.busy)
      BY <1>1
    <3> QED
      BY <1>0, <1>1, <2>2, <3>1, <3>2 DEF Unfinished
  <2>6. w.write_watermark = Pending(new)
    <3>1. Pending(new) = Pending(r.busy) - l
      BY <1>0, <1>3, <2>2, PendingFirst
    <3> QED
      BY <1>0, <2>4, <3>1
  <2> QED
    BY <2>4, <2>5, <2>6 DEF w
<1> QED
  BY <1>5, <1>6

LEMMA WriteSomeStep ==
  ASSUME IInv, WriteSome
  PROVE  IInv'
<1>0. /\ pc = "loop" /\ RecOK(rio) /\ rio.active /\ rio.write_handler /\ rio.busy # <<>>
      /\ UNCHANGED <<pc, sent, closed, eaten>>
  BY DEF IInv, WriteSome
<1>1. PICK l \in 1..(Head(rio.busy).full - Head(rio.busy).written) :
        LET w == Wrote(rio, l)
            s == IF w.write_watermark = 0 THEN RecIoStopWrite(w) ELSE w
        IN  rio' \in Notified(RecIoRecalcRead(s))
  BY DEF WriteSome
<1> DEFINE w == Wrote(rio, l)
           s == IF w.write_watermark = 0 THEN RecIoStopWrite(w) ELSE w
<1>2. rio' \in Notified(RecIoRecalcRead(s))
  BY <1>1
<1>3. /\ w \in Rio /\ SameRead(rio, w) /\ Unfinished(w.busy)
      /\ w.write_watermark = Pending(w.busy)
      /\ w.write_handler = rio.write_handler /\ w.write_failed = rio.write_failed
      /\ w.read_running = rio.read_running /\ w.read_handler = rio.read_handler
      /\ w.start_read_hook = rio.start_read_hook
  BY <1>0, WroteFacts
<1> HIDE DEF w
<1>4. w.write_watermark = 0 <=> w.busy = <<>>
  <2>1. w.busy \in Seq(Buffers) /\ w.write_watermark \in Int
    BY <1>3 DEF Rio, Buffers
  <2>2. w.write_watermark >= Len(w.busy)
    BY <1>3, <2>1, PendingPositive DEF Unfinished
  <2> QED
    BY <1>3, <2>1, <2>2, PendingEmpty
<1>5. /\ s \in Rio /\ SameRead(rio, s) /\ s.busy = w.busy /\ s.write_watermark = w.write_watermark
      /\ s.read_running = rio.read_running /\ s.read_handler = rio.read_handler
      /\ s.start_read_hook = rio.start_read_hook
      /\ s.write_handler <=> w.busy # <<>>
  <2>1. CASE w.write_watermark = 0
    <3>1. s = [w EXCEPT !.write_handler = FALSE]
      BY <2>1 DEF RecIoStopWrite
    <3> QED
      BY <1>3, <1>4, <2>1, <3>1 DEF Rio, SameRead
  <2>2. CASE w.write_watermark # 0
    <3>1. s = w
      BY <2>2
    <3> QED
      BY <1>0, <1>3, <1>4, <2>2, <3>1
  <2> QED
    BY <2>1, <2>2
<1> HIDE DEF s
<1>6. Writes(s)
  BY <1>3, <1>5 DEF Writes
<1> DEFINE x == RecIoRecalcRead(s)
<1>7. RecOK(x) /\ Keeps(rio, x) /\ x.active
  BY <1>0, <1>5, <1>6, RecalcAfter
<1> HIDE DEF x
<1>8. RecOK(rio') /\ Keeps(x, rio')
  BY <1>2, <1>7, NotifiedFacts DEF x
<1>9. Keeps(rio, rio')
  BY <1>7, <1>8, KeepsTrans
<1> QED
  BY <1>0, <1>8, <1>9, QuietStep

\* A change of the timer, or the mark of a failed write.
LEMMA WriteErrorStep ==
  ASSUME IInv, WriteError
  PROVE  IInv'
<1>0. /\ pc = "loop" /\ RecOK(rio) /\ rio.active /\ rio.busy # <<>> /\ rio \in Rio
      /\ UNCHANGED <<pc, sent, closed, eaten>>
  BY DEF IInv, WriteError, RecOK
<1> DEFINE y == [rio EXCEPT !.write_handler = FALSE]
           x == [y EXCEPT !.write_failed = TRUE]
<1>1. rio' \in Notified(x)
  BY DEF WriteError, RecIoStopWrite
<1>2. y \in Rio /\ y = [rio EXCEPT !.write_handler = FALSE]
  BY <1>0 DEF Rio
<1>3. /\ x \in Rio /\ SameRead(rio, x) /\ x.busy = rio.busy /\ x.write_watermark = rio.write_watermark
      /\ x.write_handler = FALSE /\ x.write_failed = TRUE /\ x.read_started = rio.read_started
      /\ x.read_running = rio.read_running /\ x.read_handler = rio.read_handler
      /\ x.start_read_hook = rio.start_read_hook
  BY <1>0, <1>2 DEF Rio, SameRead
<1> HIDE DEF x, y
<1>4. Geometry(x) /\ Writes(x)
  BY <1>0, <1>3, GeometryFrame DEF RecOK, Writes, SameRead
<1>5. Started(x) /\ Dead(x) /\ Keeps(rio, x) /\ x.active
  BY <1>0, <1>3 DEF RecOK, Started, Coupled, Flow, Dead, Keeps, SameRead
<1>6. RecOK(x)
  BY <1>3, <1>4, <1>5 DEF RecOK
<1>7. RecOK(rio') /\ Keeps(x, rio')
  BY <1>1, <1>5, <1>6, NotifiedFacts
<1>8. Keeps(rio, rio')
  BY <1>5, <1>7, KeepsTrans
<1> QED
  BY <1>0, <1>7, <1>8, QuietStep

LEMMA TimerFacts ==
  ASSUME NEW r, RecOK(r), r.active, NEW on \in BOOLEAN
  PROVE  LET x == [r EXCEPT !.timer = on] IN RecOK(x) /\ Keeps(r, x) /\ x.active
<1> DEFINE x == [r EXCEPT !.timer = on]
<1>1. /\ x \in Rio /\ SameWrite(r, x) /\ x.read_started = r.read_started
      /\ x.read_running = r.read_running /\ x.read_handler = r.read_handler
      /\ x.start_read_hook = r.start_read_hook /\ x.read_buf = r.read_buf
      /\ x.read_buf_size = r.read_buf_size /\ x.rec_start = r.rec_start
      /\ x.read_avail = r.read_avail /\ x.read_prev_avail = r.read_prev_avail
  BY DEF RecOK, Rio, SameWrite
<1> HIDE DEF x
<1>2. Geometry(x)
  BY <1>1 DEF RecOK, Geometry, SameWrite
<1>3. Writes(x)
  BY <1>1, WritesFrame DEF RecOK
<1>4. Started(x) /\ Dead(x) /\ Keeps(r, x) /\ x.active
  BY <1>1 DEF RecOK, Started, Coupled, Flow, Dead, Keeps, SameWrite
<1> QED
  BY <1>1, <1>2, <1>3, <1>4 DEF RecOK, x

LEMMA OtherSteps ==
  ASSUME IInv, TimerExpired \/ UserCall \/ PeerSends \/ PeerCloses
  PROVE  IInv'
<1>0. RecOK(rio) /\ TypeOK /\ Lines /\ InBuffer(rio) <= sent /\ sent \in Nat /\ InBuffer(rio) \in Int
  BY DEF IInv, RecOK, TypeOK, Rio, InBuffer
<1>1. CASE TimerExpired
  <2> DEFINE x == [rio EXCEPT !.timer = FALSE]
  <2>1. /\ pc = "loop" /\ rio.active /\ rio' \in Notified(x) /\ UNCHANGED <<pc, sent, closed, eaten>>
    BY <1>0, <1>1 DEF TimerExpired, RecOK, Dead
  <2>2. RecOK(x) /\ Keeps(rio, x) /\ x.active
    BY <1>0, <2>1, TimerFacts
  <2> HIDE DEF x
  <2>3. RecOK(rio') /\ Keeps(x, rio')
    BY <2>1, <2>2, NotifiedFacts
  <2>4. Keeps(rio, rio')
    BY <2>2, <2>3, KeepsTrans
  <2> QED
    BY <2>1, <2>3, <2>4, QuietStep
<1>2. CASE UserCall
  <2>1. pc = "loop" /\ rio.active /\ UNCHANGED <<pc, sent, closed, eaten>>
    BY <1>2 DEF UserCall
  <2>2. RecOK(rio') /\ Keeps(rio, rio')
    <3>1. CASE rio' \in UserCalls(rio)
      BY <1>0, <2>1, <3>1, CallsFacts
    <3>2. CASE rio' = RecIoDel(rio)
      BY <1>0, <3>2, DelFacts
    <3>3. CASE \E on \in BOOLEAN : rio' = [rio EXCEPT !.timer = on]
      BY <1>0, <2>1, <3>3, TimerFacts
    <3> QED
      BY <1>2, <3>1, <3>2, <3>3 DEF UserCall
  <2> QED
    BY <2>1, <2>2, QuietStep
<1>3. CASE PeerSends
  <2>1. sent < MaxBytes /\ sent' = sent + 1 /\ UNCHANGED <<rio, pc, closed, eaten>>
    BY <1>3 DEF PeerSends
  <2>2. TypeOK'
    <3>1. sent' \in 0..MaxBytes /\ eaten \in 0..sent'
      BY <1>0, <2>1, RecIOAssumption DEF TypeOK
    <3> QED
      BY <1>0, <2>1, <3>1 DEF TypeOK
  <2>3. InBuffer(rio)' <= sent'
    <3>1. InBuffer(rio)' = InBuffer(rio)
      BY <2>1 DEF InBuffer
    <3> QED
      BY <1>0, <2>1, <3>1
  <2> QED
    BY <2>1, <2>2, <2>3 DEF IInv, Lines
<1>4. CASE PeerCloses
  <2>1. closed' = TRUE /\ UNCHANGED <<rio, pc, sent, eaten>>
    BY <1>4 DEF PeerCloses
  <2>2. TypeOK' /\ InBuffer(rio)' <= sent'
    BY <1>0, <2>1 DEF TypeOK, InBuffer
  <2> QED
    BY <2>1, <2>2 DEF IInv, Lines
<1> QED
  BY <1>1, <1>2, <1>3, <1>4

-----------------------------------------------------------------------------
(* The theorems.                                                           *)

\* The inductive invariant of main-rec.c.
THEOREM RecIOInvariance == Spec => []IInv
<1>1. ASSUME IInv, [Next]_vars PROVE IInv'
  <2>1. CASE Next
    BY <1>1, <2>1, ReadStops, ReadSomeStep, ScanRecordStep, ScanEndStep, StartHookStep,
       WriteSomeStep, WriteErrorStep, OtherSteps DEF Next, ReadStep, ScanStep
  <2>2. CASE UNCHANGED vars
    BY <1>1, <2>2 DEF IInv, TypeOK, Lines, InBuffer, vars
  <2> QED
    BY <1>1, <2>1, <2>2
<1> QED
  BY <1>1, InitInvariant, PTL DEF Spec

\* The data lie in the read buffer, one pass of rec_io_read_handler's resizing
\* leaves room for read(), and read_rec_max bounds the buffer.
THEOREM BufferIsSound == Spec => []BufferGeometry
<1>1. ASSUME IInv PROVE BufferGeometry
  <2>1. ASSUME rio.active, rio.read_buf PROVE ~Tight(MakeRoom(rio))
    BY <1>1, <2>1, RoomIsMade DEF IInv, RecOK, Geometry
  <2> QED
    BY <1>1, <2>1 DEF IInv, RecOK, Geometry, BufferGeometry
<1> QED
  BY <1>1, RecIOInvariance, PTL

\* rec_io_recalc_read never loses a start, in whatever order the callbacks start,
\* stop and write.
THEOREM StartsHappen == Spec => []StartNotLost
<1>1. IInv => StartNotLost
  BY DEF IInv, RecOK, Started, Coupled, StartNotLost
<1> QED
  BY <1>1, RecIOInvariance, PTL

\* write_watermark is the number of bytes queued, for writes of any length split
\* into buffers of any size and written out in any portions.
THEOREM WritesAreAccounted == Spec => []WritesAccounted
<1>1. IInv => WritesAccounted
  BY DEF IInv, RecOK, Writes, Unfinished, WritesAccounted
<1> QED
  BY <1>1, RecIOInvariance, PTL

\* The scan of the read buffer leaves no complete line behind when the main loop
\* goes on, although it never looks at a byte twice.
THEOREM LinesAreFound == Spec => []NoLineMissed
<1>1. IInv => NoLineMissed
  BY DEF IInv, Lines, Searched, NoLineIn, InBuffer, NoLineMissed
<1> QED
  BY <1>1, RecIOInvariance, PTL

=============================================================================
