--------------------------- MODULE RtTimerProofs ----------------------------
(***************************************************************************)
(* Proofs about the system timer of RtTimer, for every set of timers,      *)
(* every range of ticks and every set of times the code admits: the list   *)
(* of timer.c holds the activated timers in the order in which they run    *)
(* out, wherever the tick wraps around, and implements one countdown for   *)
(* each timer.                                                             *)
(***************************************************************************)
EXTENDS RtTimer, SequenceTheorems, WellFoundedInduction, TLAPS

(* A set of natural numbers has a smallest one. *)
LEMMA SmallestOf ==
    ASSUME NEW T, T \subseteq Nat, T # {}
    PROVE  \E x \in T : \A y \in T : x <= y
<1> DEFINE R == OpToRel(<, Nat)
<1>1. PICK x \in T : \A y \in T : ~(<<y, x>> \in R)
  BY NatLessThanWellFounded, WFMin
<1>2. \A y \in T : ~(y < x)
  BY <1>1 DEF OpToRel
<1> HIDE DEF R
<1>3. ASSUME NEW y \in T PROVE x <= y
  BY <1>2
<1> QED
  BY <1>3

(* half of the range of ticks *)
Half == RT_TICK_MAX \div 2

Ticks == 0..RT_TICK_MAX

(* What subtraction and addition of ticks do in the range of unsigned      *)
(* numbers: they wrap around at most once.                                 *)
LEMMA TickArithmetic ==
    ASSUME TimerListAssumption, NEW x \in Ticks, NEW y \in Ticks
    PROVE  /\ Minus(x, y) = IF x >= y THEN x - y ELSE x - y + TickMod
           /\ (x + y) % TickMod = IF x + y < TickMod THEN x + y ELSE x + y - TickMod
           /\ Minus(x, y) \in Ticks /\ (x + y) % TickMod \in Ticks
<1>1. TickMod \in Nat /\ TickMod > 0 /\ x \in Int /\ y \in Int /\ 0 <= x /\ x < TickMod /\ 0 <= y /\ y < TickMod
  BY DEF TimerListAssumption, Ticks, RT_TICK_MAX
<1>2. ASSUME NEW z \in Int, 0 <= z, z < TickMod
      PROVE  z % TickMod = z /\ (z + TickMod) % TickMod = z /\ (z - TickMod) % TickMod = z
  BY <1>1, <1>2
<1>3. (x + y) % TickMod = IF x + y < TickMod THEN x + y ELSE x + y - TickMod
  <2>1. CASE x + y < TickMod
    BY <1>1, <1>2, <2>1
  <2>2. CASE x + y >= TickMod
    <3>1. x + y - TickMod \in Int /\ 0 <= x + y - TickMod /\ x + y - TickMod < TickMod
      BY <1>1, <2>2
    <3>2. (x + y - TickMod) + TickMod = x + y
      BY <1>1
    <3> QED
      BY <1>1, <1>2, <2>2, <3>1, <3>2
  <2> QED
    BY <1>1, <2>1, <2>2
<1>4. Minus(x, y) = IF x >= y THEN x - y ELSE x - y + TickMod
  <2>1. CASE x >= y
    BY <1>1, <1>2, <2>1 DEF Minus
  <2>2. CASE x < y
    <3>1. x - y + TickMod \in Int /\ 0 <= x - y + TickMod /\ x - y + TickMod < TickMod
      BY <1>1, <2>2
    <3>2. (x - y + TickMod) - TickMod = x - y
      BY <1>1
    <3> QED
      BY <1>1, <1>2, <2>2, <3>1, <3>2 DEF Minus
  <2> QED
    BY <1>1, <2>1, <2>2
<1> QED
  BY <1>1, <1>3, <1>4 DEF Ticks, RT_TICK_MAX

(* The range of times is below half of the range of ticks. *)
LEMMA HalfRange ==
    ASSUME TimerListAssumption
    PROVE  /\ Half \in Nat /\ 2 * Half <= RT_TICK_MAX /\ Half >= 2
           /\ RT_TICK_MAX \in Nat /\ TickMod = RT_TICK_MAX + 1
           /\ InitTicks \subseteq 1..(Half - 1) /\ InitTicks \subseteq Ticks
<1>1. RT_TICK_MAX \in Nat /\ TickMod = RT_TICK_MAX + 1
  BY DEF TimerListAssumption, RT_TICK_MAX
<1>2. Half \in Nat /\ 2 * Half <= RT_TICK_MAX
  BY <1>1 DEF Half
<1>3. InitTicks \subseteq 1..(Half - 1) /\ \E n : n \in InitTicks
  BY DEF TimerListAssumption, Half
<1>4. Half >= 2
  BY <1>2, <1>3
<1>5. \A n \in InitTicks : n \in Int /\ 1 <= n /\ n <= Half - 1
  <2> SUFFICES ASSUME NEW n \in InitTicks PROVE n \in Int /\ 1 <= n /\ n <= Half - 1
    OBVIOUS
  <2>1. n \in 1..(Half - 1)
    BY <1>3
  <2> QED
    BY <1>2, <2>1
<1>6. InitTicks \subseteq Ticks
  BY <1>1, <1>2, <1>5 DEF Ticks
<1> QED
  BY <1>1, <1>2, <1>3, <1>4, <1>6

----------------------------------------------------------------------------
(* Lists of timers on which none is twice. *)
TimerLists == {l \in Seq(Timers) : \A i, j \in 1..Len(l) : l[i] = l[j] => i = j}

(* The list l is in the order of key. *)
Ordered(l, key) == \A i, j \in 1..Len(l) : i < j => key[l[i]] <= key[l[j]]

LEMMA ListFacts ==
    ASSUME NEW l \in TimerLists
    PROVE  /\ l \in Seq(Timers) /\ Len(l) \in Nat /\ DOMAIN l = 1..Len(l)
           /\ Elems(l) \subseteq Timers
           /\ \A i \in 1..Len(l) : l[i] \in Timers
           /\ \A x : x \in Elems(l) <=> \E i \in 1..Len(l) : l[i] = x
           /\ \A i, j \in 1..Len(l) : l[i] = l[j] => i = j
           /\ (l = <<>> <=> Len(l) = 0)
<1>1. /\ l \in Seq(Timers) /\ Len(l) \in Nat /\ DOMAIN l = 1..Len(l)
      /\ \A i, j \in 1..Len(l) : l[i] = l[j] => i = j
  BY DEF TimerLists
<1>2. \A x : x \in Elems(l) <=> \E i \in 1..Len(l) : l[i] = x
  BY <1>1 DEF Elems
<1>3. \A i \in 1..Len(l) : l[i] \in Timers
  BY <1>1
<1> QED
  BY <1>1, <1>2, <1>3, EmptySeq

(* Only the keys of the timers on the list matter. *)
LEMMA OrderedFrame ==
    ASSUME NEW l \in TimerLists, NEW key, NEW other, Ordered(l, key),
           \A x \in Elems(l) : other[x] = key[x]
    PROVE  Ordered(l, other)
<1>1. \A i \in 1..Len(l) : l[i] \in Elems(l)
  BY ListFacts
<1> QED
  BY <1>1 DEF Ordered

(* Unlinking a timer moves up the timers behind it. *)
LEMMA ListUnlink ==
    ASSUME NEW l \in TimerLists, NEW t
    PROVE  /\ Without(l, t) \in TimerLists
           /\ Elems(Without(l, t)) = Elems(l) \ {t}
           /\ \A i, j \in 1..Len(Without(l, t)) : i < j =>
                 \E ii, jj \in 1..Len(l) :
                     ii < jj /\ Without(l, t)[i] = l[ii] /\ Without(l, t)[j] = l[jj]
<1>1. CASE t \notin Elems(l)
  BY <1>1 DEF Without
<1>2. CASE t \in Elems(l)
  <2> DEFINE at == CHOOSE i \in DOMAIN l : l[i] = t
             a == SubSeq(l, 1, at - 1)
             b == SubSeq(l, at + 1, Len(l))
             w == a \o b
             L == Len(l)
  <2>0. /\ l \in Seq(Timers) /\ L \in Nat /\ DOMAIN l = 1..L
        /\ \A i, j \in 1..L : l[i] = l[j] => i = j
        /\ \A x : x \in Elems(l) <=> \E i \in 1..L : l[i] = x
    BY ListFacts
  <2>1. at \in 1..L /\ l[at] = t
    BY <1>2, <2>0 DEF Elems
  <2>2. Without(l, t) = w
    BY <1>2 DEF Without
  <2>3. /\ a \in Seq(Timers) /\ Len(a) = at - 1
        /\ \A i \in 1..(at - 1) : a[i] = l[i]
    BY <2>0, <2>1, SubSeqProperties
  <2>4. /\ b \in Seq(Timers) /\ Len(b) = L - at
        /\ \A i \in 1..(L - at) : b[i] = l[at + i]
    BY <2>0, <2>1, SubSeqProperties
  <2> HIDE DEF a, b, at, L
  <2>5. /\ w \in Seq(Timers) /\ Len(w) = Len(a) + Len(b)
        /\ \A i \in 1..(Len(a) + Len(b)) : w[i] = IF i <= Len(a) THEN a[i] ELSE b[i - Len(a)]
    BY <2>3, <2>4, ConcatProperties
  <2> HIDE DEF w
  <2>6. Len(w) = L - 1
    BY <2>0, <2>1, <2>3, <2>4, <2>5
  <2>7. ASSUME NEW i \in 1..(L - 1) PROVE w[i] = IF i < at THEN l[i] ELSE l[i + 1]
    <3>1. CASE i < at
      BY <2>0, <2>1, <2>3, <2>4, <2>5, <3>1
    <3>2. CASE i >= at
      <4>1. w[i] = b[i - (at - 1)]
        BY <2>0, <2>1, <2>3, <2>4, <2>5, <3>2
      <4>2. i - (at - 1) \in 1..(L - at)
        BY <2>0, <2>1, <3>2
      <4>3. w[i] = l[at + (i - (at - 1))]
        BY <2>4, <4>1, <4>2
      <4>4. at + (i - (at - 1)) = i + 1
        BY <2>0, <2>1
      <4> QED
        BY <3>2, <4>3, <4>4, <2>0, <2>1
    <3> QED
      BY <2>0, <2>1, <3>1, <3>2
  <2>8. w \in TimerLists
    <3> SUFFICES ASSUME NEW i \in 1..(L - 1), NEW j \in 1..(L - 1), w[i] = w[j] PROVE i = j
      BY <2>5, <2>6 DEF TimerLists
    <3> QED
      BY <2>0, <2>1, <2>7
  <2>9. \A x : x \in Elems(w) <=> \E i \in 1..(L - 1) : w[i] = x
    BY <2>6, <2>8, ListFacts
  <2>10. ASSUME NEW x \in Elems(w) PROVE x \in Elems(l) \ {t}
    <3>1. PICK i \in 1..(L - 1) : w[i] = x
      BY <2>9, <2>10
    <3> QED
      BY <2>0, <2>1, <2>7, <3>1
  <2>11. ASSUME NEW x \in Elems(l) \ {t} PROVE x \in Elems(w)
    <3>1. PICK i \in 1..L : l[i] = x
      BY <2>0, <2>11
    <3>2. CASE i < at
      BY <2>0, <2>1, <2>7, <2>9, <3>1, <3>2
    <3>3. CASE i > at
      <4>1. i - 1 \in 1..(L - 1) /\ w[i - 1] = x
        BY <2>0, <2>1, <2>7, <3>1, <3>3
      <4> QED
        BY <2>9, <4>1
    <3> QED
      BY <2>0, <2>1, <3>1, <3>2, <3>3
  <2>12. ASSUME NEW i \in 1..(L - 1), NEW j \in 1..(L - 1), i < j
         PROVE  \E ii, jj \in 1..L : ii < jj /\ w[i] = l[ii] /\ w[j] = l[jj]
    <3> DEFINE ii == IF i < at THEN i ELSE i + 1
               jj == IF j < at THEN j ELSE j + 1
    <3>1. ii \in 1..L /\ jj \in 1..L /\ ii < jj
      BY <2>0, <2>1, <2>12
    <3>2. w[i] = l[ii] /\ w[j] = l[jj]
      BY <2>7
    <3> QED
      BY <3>1, <3>2
  <2> HIDE DEF w
  <2>14. \A i, j \in 1..Len(w) : i < j => \E ii, jj \in 1..Len(l) : ii < jj /\ w[i] = l[ii] /\ w[j] = l[jj]
    BY <2>6, <2>12, SMTT(20) DEF L
  <2> QED
    BY <2>2, <2>8, <2>10, <2>11, <2>14
<1> QED
  BY <1>1, <1>2

(* It keeps the order of the others. *)
LEMMA ListWithout ==
    ASSUME NEW l \in TimerLists, NEW t, NEW key \in [Timers -> Nat], Ordered(l, key)
    PROVE  /\ Without(l, t) \in TimerLists
           /\ Elems(Without(l, t)) = Elems(l) \ {t}
           /\ Ordered(Without(l, t), key)
<1>1. Ordered(Without(l, t), key)
  <2> DEFINE w == Without(l, t)
  <2> SUFFICES ASSUME NEW i \in 1..Len(w), NEW j \in 1..Len(w), i < j
               PROVE  key[w[i]] <= key[w[j]]
    BY DEF Ordered
  <2>1. PICK ii \in 1..Len(l), jj \in 1..Len(l) : ii < jj /\ w[i] = l[ii] /\ w[j] = l[jj]
    BY ListUnlink
  <2> QED
    BY <2>1 DEF Ordered
<1> QED
  BY <1>1, ListUnlink

(* A timer is put before position n. *)
LEMMA ListLink ==
    ASSUME NEW l \in TimerLists, NEW t \in Timers, t \notin Elems(l), NEW n \in 1..(Len(l) + 1)
    PROVE  LET w == InsertBefore(l, n, t)
           IN /\ w \in TimerLists /\ Len(w) = Len(l) + 1
              /\ Elems(w) = Elems(l) \cup {t}
              /\ \A i \in 1..(Len(l) + 1) :
                    w[i] = IF i < n THEN l[i] ELSE IF i = n THEN t ELSE l[i - 1]
<1> DEFINE a == SubSeq(l, 1, n - 1)
           b == SubSeq(l, n, Len(l))
           c == a \o <<t>>
           w == c \o b
           L == Len(l)
<1>0. /\ l \in Seq(Timers) /\ L \in Nat /\ DOMAIN l = 1..L
      /\ \A i, j \in 1..L : l[i] = l[j] => i = j
      /\ \A x : x \in Elems(l) <=> \E i \in 1..L : l[i] = x
      /\ n \in Nat /\ n >= 1 /\ n <= L + 1
  BY ListFacts
<1>1. w = InsertBefore(l, n, t)
  BY DEF InsertBefore
<1>2. /\ a \in Seq(Timers) /\ Len(a) = n - 1
      /\ \A i \in 1..(n - 1) : a[i] = l[i]
  BY <1>0, SubSeqProperties
<1>3. /\ b \in Seq(Timers) /\ Len(b) = L + 1 - n
      /\ \A i \in 1..(L + 1 - n) : b[i] = l[n - 1 + i]
  BY <1>0, SubSeqProperties
<1> HIDE DEF a, b, L
<1>4. /\ c \in Seq(Timers) /\ Len(c) = n
      /\ \A i \in 1..n : c[i] = IF i < n THEN l[i] ELSE t
  BY <1>0, <1>2, ConcatProperties
<1> HIDE DEF c
<1>5. /\ w \in Seq(Timers) /\ Len(w) = Len(c) + Len(b)
      /\ \A i \in 1..(Len(c) + Len(b)) : w[i] = IF i <= Len(c) THEN c[i] ELSE b[i - Len(c)]
  BY <1>3, <1>4, ConcatProperties
<1> HIDE DEF w
<1>6. Len(w) = L + 1
  BY <1>0, <1>3, <1>4, <1>5
<1>7. ASSUME NEW i \in 1..(L + 1)
      PROVE  w[i] = IF i < n THEN l[i] ELSE IF i = n THEN t ELSE l[i - 1]
  <2>1. CASE i <= n
    BY <1>0, <1>3, <1>4, <1>5, <2>1
  <2>2. CASE i > n
    <3>1. w[i] = b[i - n] /\ i - n \in 1..(L + 1 - n)
      BY <1>0, <1>3, <1>4, <1>5, <2>2, SMTT(20)
    <3>2. n - 1 + (i - n) = i - 1
      BY <1>0
    <3>3. w[i] = l[n - 1 + (i - n)]
      BY <1>3, <3>1
    <3> QED
      BY <1>0, <2>2, <3>2, <3>3
  <2> QED
    BY <1>0, <2>1, <2>2
<1>8. \A i \in 1..L : l[i] # t
  BY <1>0
<1>9. w \in TimerLists
  <2> SUFFICES ASSUME NEW i \in 1..(L + 1), NEW j \in 1..(L + 1), w[i] = w[j] PROVE i = j
    BY <1>5, <1>6 DEF TimerLists
  <2> QED
    BY <1>0, <1>7, <1>8
<1>10. \A x : x \in Elems(w) <=> \E i \in 1..(L + 1) : w[i] = x
  BY <1>6, <1>9, ListFacts
<1>11. ASSUME NEW x \in Elems(w) PROVE x \in Elems(l) \cup {t}
  <2>1. PICK i \in 1..(L + 1) : w[i] = x
    BY <1>10, <1>11
  <2> QED
    BY <1>0, <1>7, <2>1
<1>12. t \in Elems(w)
  BY <1>0, <1>7, <1>10
<1>13. ASSUME NEW x \in Elems(l) PROVE x \in Elems(w)
  <2>1. PICK i \in 1..L : l[i] = x
    BY <1>0, <1>13
  <2>2. CASE i < n
    BY <1>0, <1>7, <1>10, <2>1, <2>2
  <2>3. CASE i >= n
    <3>1. i + 1 \in 1..(L + 1) /\ w[i + 1] = x
      BY <1>0, <1>7, <2>1, <2>3
    <3> QED
      BY <1>10, <3>1
  <2> QED
    BY <1>0, <2>1, <2>2, <2>3
<1>14. w \in TimerLists /\ Len(w) = Len(l) + 1 /\ Elems(w) = Elems(l) \cup {t}
  BY <1>6, <1>9, <1>11, <1>12, <1>13 DEF L
<1>15. \A i \in 1..(Len(l) + 1) : w[i] = IF i < n THEN l[i] ELSE IF i = n THEN t ELSE l[i - 1]
  BY <1>7 DEF L
<1> QED
  BY <1>1, <1>14, <1>15

(* Behind those that are not later and before those that are not earlier   *)
(* it leaves the list in order.                                            *)
LEMMA ListInsert ==
    ASSUME NEW l \in TimerLists, NEW t \in Timers, t \notin Elems(l), NEW n \in 1..(Len(l) + 1),
           NEW key \in [Timers -> Nat], Ordered(l, key),
           \A i \in 1..Len(l) : i < n => key[l[i]] <= key[t],
           \A i \in 1..Len(l) : n <= i => key[t] <= key[l[i]]
    PROVE  Ordered(InsertBefore(l, n, t), key)
<1> DEFINE w == InsertBefore(l, n, t)
           L == Len(l)
<1>1. Len(w) = L + 1 /\ L \in Nat /\ n \in Nat /\ n >= 1 /\ n <= L + 1
  BY ListLink, ListFacts
<1>2. \A i \in 1..(L + 1) : w[i] = IF i < n THEN l[i] ELSE IF i = n THEN t ELSE l[i - 1]
  BY ListLink
<1>3. /\ \A i, j \in 1..L : i < j => key[l[i]] <= key[l[j]]
      /\ \A i \in 1..L : i < n => key[l[i]] <= key[t]
      /\ \A i \in 1..L : n <= i => key[t] <= key[l[i]]
  BY DEF Ordered
<1> SUFFICES ASSUME NEW i \in 1..(L + 1), NEW j \in 1..(L + 1), i < j
             PROVE  key[w[i]] <= key[w[j]]
  BY <1>1 DEF Ordered
<1> HIDE DEF w, L
<1>4. CASE i = n
  <2>1. j - 1 \in 1..L /\ n <= j - 1 /\ ~(j < n) /\ j # n
    BY <1>1, <1>4
  <2>2. w[i] = t /\ w[j] = l[j - 1]
    BY <1>2, <1>4, <2>1
  <2> QED
    BY <1>3, <2>1, <2>2
<1>5. CASE j = n
  <2>1. i \in 1..L /\ i < n
    BY <1>1, <1>5
  <2>2. w[j] = t /\ w[i] = l[i]
    BY <1>2, <1>5, <2>1
  <2> QED
    BY <1>3, <2>1, <2>2
<1>6. CASE i # n /\ j # n
  <2> DEFINE ii == IF i < n THEN i ELSE i - 1
             jj == IF j < n THEN j ELSE j - 1
  <2>1. ii \in 1..L /\ jj \in 1..L /\ ii < jj
    BY <1>1, <1>6
  <2>2. w[i] = l[ii] /\ w[j] = l[jj]
    BY <1>2, <1>6
  <2> HIDE DEF ii, jj
  <2> QED
    BY <1>3, <2>1, <2>2
<1> QED
  BY <1>4, <1>5, <1>6

(* The first timer is taken off. *)
LEMMA ListPop ==
    ASSUME NEW l \in TimerLists, l # <<>>, NEW key, Ordered(l, key)
    PROVE  /\ Head(l) \in Elems(l)
           /\ \A x \in Elems(l) : key[Head(l)] <= key[x] \/ x = Head(l)
           /\ Tail(l) \in TimerLists
           /\ Elems(Tail(l)) = Elems(l) \ {Head(l)}
           /\ Ordered(Tail(l), key)
<1> DEFINE w == Tail(l)
           L == Len(l)
<1>1. /\ w \in Seq(Timers) /\ Len(w) = L - 1 /\ Head(l) = l[1] /\ L # 0
      /\ \A i \in 1..(L - 1) : w[i] = l[i + 1]
  BY ListFacts, HeadTailProperties
<1>2. /\ \A i, j \in 1..L : l[i] = l[j] => i = j
      /\ \A x : x \in Elems(l) <=> \E i \in 1..L : l[i] = x
      /\ \A i, j \in 1..L : i < j => key[l[i]] <= key[l[j]]
  BY ListFacts DEF Ordered
<1>0. L \in Nat
  BY ListFacts
<1> HIDE DEF w, L
<1>3. w \in TimerLists
  <2> SUFFICES ASSUME NEW i \in 1..(L - 1), NEW j \in 1..(L - 1), w[i] = w[j] PROVE i = j
    BY <1>1 DEF TimerLists
  <2> QED
    BY <1>0, <1>1, <1>2
<1>4. \A x : x \in Elems(w) <=> \E i \in 1..(L - 1) : w[i] = x
  BY <1>1, <1>3, ListFacts
<1>5. ASSUME NEW x \in Elems(w) PROVE x \in Elems(l) \ {Head(l)}
  <2>1. PICK i \in 1..(L - 1) : w[i] = x
    BY <1>4, <1>5
  <2> QED
    BY <1>0, <1>1, <1>2, <2>1
<1>6. ASSUME NEW x \in Elems(l) \ {Head(l)} PROVE x \in Elems(w)
  <2>1. PICK i \in 1..L : l[i] = x
    BY <1>2, <1>6
  <2>2. i - 1 \in 1..(L - 1) /\ w[i - 1] = x
    BY <1>0, <1>1, <2>1
  <2> QED
    BY <1>4, <2>2
<1>7. ASSUME NEW x \in Elems(l) PROVE key[Head(l)] <= key[x] \/ x = Head(l)
  <2>1. PICK i \in 1..L : l[i] = x
    BY <1>2, <1>7
  <2>2. CASE i = 1
    BY <1>1, <2>1, <2>2
  <2>3. CASE 1 < i
    BY <1>0, <1>1, <1>2, <2>1, <2>3
  <2> QED
    BY <1>0, <2>2, <2>3
<1>8. Ordered(w, key)
  <2> SUFFICES ASSUME NEW i \in 1..(L - 1), NEW j \in 1..(L - 1), i < j
               PROVE  key[w[i]] <= key[w[j]]
    BY <1>1 DEF Ordered
  <2>1. i + 1 \in 1..L /\ j + 1 \in 1..L /\ i + 1 < j + 1 /\ w[i] = l[i + 1] /\ w[j] = l[j + 1]
    BY <1>0, <1>1
  <2> QED
    BY <1>2, <2>1
<1>9. Head(l) \in Elems(l)
  BY <1>0, <1>1, <1>2
<1> QED
  BY <1>3, <1>5, <1>6, <1>7, <1>8, <1>9 DEF w

----------------------------------------------------------------------------
(* States of a timer list. *)
TimerState ==
    [list : TimerLists, active : SUBSET Timers, periodic : SUBSET Timers,
     timeout_tick : [Timers -> Ticks], init_tick : [Timers -> InitTicks], onTemp : BOOLEAN]

(* the ticks each timer has to go, at the tick now *)
ToGo(ss, now) == [t \in Timers |-> Minus(ss.timeout_tick[t], now)]

(* The list is in the order in which its timers run out, and none of them  *)
(* is further away than half of the range of ticks.                        *)
InOrder(ss, now) ==
    /\ ss \in TimerState
    /\ \A t \in Elems(ss.list) : ToGo(ss, now)[t] <= Half - 1
    /\ Ordered(ss.list, ToGo(ss, now))

(* t is on the list exactly when it is activated, but for the timer whose  *)
(* function runs.                                                          *)
Booked(ss, of, t) == t \in Elems(ss.list) <=> (t \in ss.active /\ ~(ss.onTemp /\ t = of))

(* The timer on the local list of rt_timer_check is the one whose function *)
(* runs, and if it is still activated it is a periodic one.                *)
TempIsPeriodic(ss, of) ==
    ss.onTemp => of \in Timers /\ (of \in ss.active => of \in ss.periodic)

LEMMA ToGoType ==
    ASSUME TimerListAssumption, NEW ss \in TimerState, NEW now \in Ticks
    PROVE  /\ ToGo(ss, now) \in [Timers -> Nat]
           /\ \A t \in Timers : ToGo(ss, now)[t] = Minus(ss.timeout_tick[t], now)
           /\ \A t \in Timers : ss.timeout_tick[t] \in Ticks
<1>1. \A t \in Timers : ss.timeout_tick[t] \in Ticks
  BY DEF TimerState
<1>2. \A x \in Ticks : x \in Nat
  BY HalfRange DEF Ticks
<1>3. \A t \in Timers : Minus(ss.timeout_tick[t], now) \in Nat
  BY <1>1, <1>2, TickArithmetic
<1> QED
  BY <1>1, <1>3 DEF ToGo

(* _timer_remove takes the timer off its list and leaves the rest. *)
LEMMA RemoveEffect ==
    ASSUME TimerListAssumption, NEW ss, NEW now \in Ticks, InOrder(ss, now), NEW t \in Timers, NEW of
    PROVE  LET r == timer_remove(ss, t, of)
           IN /\ InOrder(r, now)
              /\ Elems(r.list) = Elems(ss.list) \ {t}
              /\ r.active = ss.active /\ r.periodic = ss.periodic /\ r.init_tick = ss.init_tick
              /\ r.onTemp = (ss.onTemp /\ t # of)
              /\ \A u \in Timers \ {t} : r.timeout_tick[u] = ss.timeout_tick[u]
<1> DEFINE r == timer_remove(ss, t, of)
           l == Without(ss.list, t)
<1>1. /\ ss \in TimerState /\ ss.list \in TimerLists /\ ss.timeout_tick \in [Timers -> Ticks]
      /\ \A u \in Elems(ss.list) : ToGo(ss, now)[u] <= Half - 1
      /\ Ordered(ss.list, ToGo(ss, now))
  BY DEF InOrder, TimerState
<1>2. /\ r.list = l /\ r.onTemp = (ss.onTemp /\ t # of)
      /\ r.timeout_tick = [ss.timeout_tick EXCEPT ![t] = 0]
      /\ r.active = ss.active /\ r.periodic = ss.periodic /\ r.init_tick = ss.init_tick
      /\ r = [ss EXCEPT !.list = r.list, !.onTemp = r.onTemp, !.timeout_tick = r.timeout_tick]
  BY <1>1 DEF timer_remove, TimerState
<1>3. /\ l \in TimerLists /\ Elems(l) = Elems(ss.list) \ {t} /\ Ordered(l, ToGo(ss, now))
  BY <1>1, ListWithout, ToGoType
<1>4. 0 \in Ticks
  BY HalfRange DEF Ticks
<1>5. /\ r.timeout_tick \in [Timers -> Ticks]
      /\ \A u \in Timers \ {t} : r.timeout_tick[u] = ss.timeout_tick[u]
  BY <1>1, <1>2, <1>4
<1>6. r.onTemp \in BOOLEAN
  BY <1>2
<1>7. r \in TimerState
  BY <1>1, <1>2, <1>3, <1>5, <1>6 DEF TimerState
<1> HIDE DEF r, l
<1>8. \A u \in Elems(l) : ToGo(r, now)[u] = ToGo(ss, now)[u]
  <2> SUFFICES ASSUME NEW u \in Elems(l) PROVE ToGo(r, now)[u] = ToGo(ss, now)[u]
    OBVIOUS
  <2>1. u \in Timers \ {t}
    BY <1>3, ListFacts
  <2>2. /\ ToGo(r, now)[u] = Minus(r.timeout_tick[u], now)
        /\ ToGo(ss, now)[u] = Minus(ss.timeout_tick[u], now)
    BY <2>1 DEF ToGo
  <2> QED
    BY <1>5, <2>1, <2>2
<1>9. InOrder(r, now)
  <2>1. Ordered(l, ToGo(r, now))
    BY <1>3, <1>8, OrderedFrame
  <2> QED
    BY <1>1, <1>2, <1>3, <1>7, <1>8, <2>1 DEF InOrder
<1> QED
  BY <1>2, <1>3, <1>5, <1>9 DEF r

(* Among timers less than half of the range away, a timeout is later than  *)
(* another exactly when it is further away, wherever the tick wraps.       *)
LEMMA LaterIsFurther ==
    ASSUME TimerListAssumption, NEW now \in Ticks, NEW x \in Ticks, NEW y \in Ticks,
           Minus(x, now) <= Half - 1, Minus(y, now) <= Half - 1
    PROVE  Later(x, y) <=> Minus(x, now) > Minus(y, now)
<1>1. /\ Minus(x, now) = IF x >= now THEN x - now ELSE x - now + TickMod
      /\ Minus(y, now) = IF y >= now THEN y - now ELSE y - now + TickMod
      /\ Minus(x, y) = IF x >= y THEN x - y ELSE x - y + TickMod
  BY TickArithmetic
<1>2. /\ Half \in Nat /\ 2 * Half <= RT_TICK_MAX /\ Half >= 2
      /\ RT_TICK_MAX \in Nat /\ TickMod = RT_TICK_MAX + 1
  BY HalfRange
<1>3. /\ x \in Int /\ 0 <= x /\ x <= RT_TICK_MAX /\ y \in Int /\ 0 <= y /\ y <= RT_TICK_MAX
      /\ now \in Int /\ 0 <= now /\ now <= RT_TICK_MAX
  BY <1>2 DEF Ticks
<1>4. Later(x, y) <=> Minus(x, y) # 0 /\ Minus(x, y) < Half
  BY DEF Later, Half
<1> DEFINE a == Minus(x, now)
           b == Minus(y, now)
           c == Minus(x, y)
<1> HIDE DEF a, b, c
<1>5. /\ a = IF x >= now THEN x - now ELSE x - now + TickMod
      /\ b = IF y >= now THEN y - now ELSE y - now + TickMod
      /\ c = IF x >= y THEN x - y ELSE x - y + TickMod
      /\ a <= Half - 1 /\ b <= Half - 1
  BY <1>1 DEF a, b, c
<1>6. c # 0 /\ c < Half <=> a > b
  BY <1>2, <1>3, <1>5
<1> QED
  BY <1>4, <1>6 DEF a, b, c

(* rt_timer_start puts the timer on the list, in its place. *)
LEMMA StartEffect ==
    ASSUME TimerListAssumption, NEW ss, NEW now \in Ticks, InOrder(ss, now), NEW t \in Timers, NEW of
    PROVE  LET r == rt_timer_start(ss, t, now, of)
           IN /\ InOrder(r, now)
              /\ Elems(r.list) = Elems(ss.list) \cup {t}
              /\ r.active = ss.active \cup {t} /\ r.periodic = ss.periodic
              /\ r.onTemp = (ss.onTemp /\ t # of)
              /\ Minus(r.timeout_tick[t], now) = ss.init_tick[t] /\ ss.init_tick[t] \in InitTicks
              /\ \A u \in Timers \ {t} : r.timeout_tick[u] = ss.timeout_tick[u]
<1> DEFINE e == timer_remove(ss, t, of)
           n == ss.init_tick[t]
           due == (now + n) % TickMod
           at == InsertAt(e, due)
           r == rt_timer_start(ss, t, now, of)
<1>1. /\ InOrder(e, now) /\ e \in TimerState
      /\ Elems(e.list) = Elems(ss.list) \ {t}
      /\ e.active = ss.active /\ e.periodic = ss.periodic /\ e.init_tick = ss.init_tick
      /\ e.onTemp = (ss.onTemp /\ t # of)
      /\ \A u \in Timers \ {t} : e.timeout_tick[u] = ss.timeout_tick[u]
  <2>1. /\ InOrder(e, now)
        /\ Elems(e.list) = Elems(ss.list) \ {t}
        /\ e.active = ss.active /\ e.periodic = ss.periodic /\ e.init_tick = ss.init_tick
        /\ e.onTemp = (ss.onTemp /\ t # of)
        /\ \A u \in Timers \ {t} : e.timeout_tick[u] = ss.timeout_tick[u]
    BY RemoveEffect
  <2>2. e \in TimerState
    BY <2>1 DEF InOrder
  <2> HIDE DEF e
  <2> QED
    BY <2>1, <2>2
<1>2. n \in InitTicks /\ n \in Ticks /\ n \in Nat /\ n <= Half - 1
  <2>1. n \in InitTicks
    BY DEF InOrder, TimerState
  <2>2. n \in 1..(Half - 1) /\ n \in Ticks
    BY <2>1, HalfRange
  <2> QED
    BY <2>1, <2>2, HalfRange
<1>3. due \in Ticks /\ Minus(due, now) = n
  <2>1. /\ due = IF now + n < TickMod THEN now + n ELSE now + n - TickMod
        /\ due \in Ticks
    BY <1>2, TickArithmetic
  <2>2. Minus(due, now) = IF due >= now THEN due - now ELSE due - now + TickMod
    BY <2>1, TickArithmetic
  <2>3. /\ RT_TICK_MAX \in Nat /\ TickMod = RT_TICK_MAX + 1
        /\ now \in Int /\ 0 <= now /\ now <= RT_TICK_MAX /\ n \in Int /\ 0 <= n /\ n <= RT_TICK_MAX
    BY <1>2, HalfRange DEF Ticks
  <2> HIDE DEF due, n
  <2> QED
    BY <2>1, <2>2, <2>3
<1>4. r = [e EXCEPT !.list = InsertBefore(e.list, at, t), !.timeout_tick[t] = due,
                    !.active = e.active \cup {t}]
  BY DEF rt_timer_start
<1> HIDE DEF e, n, due, at
<1>5. /\ e.list \in TimerLists /\ t \notin Elems(e.list) /\ Len(e.list) \in Nat
      /\ \A i \in 1..Len(e.list) : e.list[i] \in Elems(e.list) /\ e.list[i] \in Timers
      /\ DOMAIN e.list = 1..Len(e.list)
  BY <1>1, ListFacts DEF TimerState
<1> DEFINE l == e.list
           key == [ToGo(e, now) EXCEPT ![t] = n]
           later == {i \in 1..Len(l) : key[l[i]] > n}
<1>6. /\ ToGo(e, now) \in [Timers -> Nat] /\ key \in [Timers -> Nat] /\ key[t] = n
      /\ \A u \in Timers \ {t} : key[u] = ToGo(e, now)[u]
  BY <1>1, <1>2, ToGoType
<1>7. Ordered(l, key)
  <2>1. \A x \in Elems(l) : key[x] = ToGo(e, now)[x]
    BY <1>5, <1>6, ListFacts
  <2>2. Ordered(l, ToGo(e, now))
    BY <1>1 DEF InOrder
  <2> HIDE DEF key
  <2> QED
    BY <1>5, <2>1, <2>2, OrderedFrame
<1>8. ASSUME NEW i \in 1..Len(l)
      PROVE  Later(e.timeout_tick[l[i]], due) <=> key[l[i]] > n
  <2>1. l[i] \in Timers /\ l[i] \in Elems(l) /\ l[i] # t
    BY <1>5
  <2>2. e.timeout_tick[l[i]] \in Ticks /\ key[l[i]] = Minus(e.timeout_tick[l[i]], now)
    BY <1>1, <1>6, <2>1, ToGoType
  <2>3. key[l[i]] <= Half - 1
    BY <1>1, <1>6, <2>1 DEF InOrder
  <2> QED
    BY <1>2, <1>3, <2>2, <2>3, LaterIsFurther
<1>9. at = IF later = {} THEN Len(l) + 1 ELSE CHOOSE i \in later : \A j \in later : i <= j
  <2>1. {i \in DOMAIN e.list : Later(e.timeout_tick[e.list[i]], due)} = later
    BY <1>5, <1>8
  <2> DEFINE asked == {i \in DOMAIN e.list : Later(e.timeout_tick[e.list[i]], due)}
  <2>2. at = IF asked = {} THEN Len(l) + 1 ELSE CHOOSE i \in asked : \A j \in asked : i <= j
    BY DEF at, InsertAt
  <2> HIDE DEF later, asked
  <2>3. asked = later
    BY <2>1 DEF asked
  <2> QED
    BY <2>2, <2>3
<1> HIDE DEF key
<1>10. /\ at \in 1..(Len(l) + 1)
       /\ \A i \in 1..Len(l) : i < at => key[l[i]] <= key[t]
       /\ \A i \in 1..Len(l) : at <= i => key[t] <= key[l[i]]
  <2>1. \A i \in 1..Len(l) : key[l[i]] \in Nat /\ (i \in later <=> key[l[i]] > n)
    BY <1>5, <1>6
  <2>2. CASE later = {}
    <3>1. at = Len(l) + 1
      BY <1>9, <2>2
    <3>2. \A i \in 1..Len(l) : key[l[i]] <= n
      BY <1>2, <2>1, <2>2
    <3> QED
      BY <1>5, <1>6, <3>1, <3>2
  <2>3. CASE later # {}
    <3>1. later \subseteq Nat
      BY <1>5
    <3> HIDE DEF later
    <3>2. \E x \in later : \A y \in later : x <= y
      BY <2>3, <3>1, SmallestOf
    <3>3. at \in later /\ \A j \in later : at <= j
      BY <1>9, <2>3, <3>2
    <3>4. at \in 1..Len(l) /\ key[l[at]] > n
      BY <2>1, <3>3 DEF later
    <3>5. ASSUME NEW i \in 1..Len(l), i < at PROVE key[l[i]] <= key[t]
      <4>1. i \notin later
        BY <1>5, <3>3, <3>4, <3>5
      <4> QED
        BY <1>2, <1>6, <2>1, <4>1
    <3>6. ASSUME NEW i \in 1..Len(l), at <= i PROVE key[t] <= key[l[i]]
      <4>1. i = at \/ at < i
        BY <1>5, <3>4, <3>6
      <4>2. key[l[at]] <= key[l[i]]
        BY <1>5, <1>7, <2>1, <3>4, <4>1 DEF Ordered
      <4> QED
        BY <1>2, <1>6, <2>1, <3>4, <4>2, SMTT(20)
    <3> QED
      BY <1>5, <3>4, <3>5, <3>6
  <2> QED
    BY <2>2, <2>3
<1> HIDE DEF later
<1>11. /\ InsertBefore(l, at, t) \in TimerLists
       /\ Elems(InsertBefore(l, at, t)) = Elems(l) \cup {t}
       /\ Ordered(InsertBefore(l, at, t), key)
  BY <1>5, <1>6, <1>7, <1>10, ListLink, ListInsert
<1>12. /\ r.list = InsertBefore(l, at, t) /\ r.timeout_tick = [e.timeout_tick EXCEPT ![t] = due]
       /\ r.active = e.active \cup {t} /\ r.periodic = e.periodic /\ r.onTemp = e.onTemp
       /\ r.init_tick = e.init_tick
       /\ r \in TimerState
  <2>1. e.timeout_tick \in [Timers -> Ticks] /\ e.active \subseteq Timers
    BY <1>1 DEF TimerState
  <2>2. [e.timeout_tick EXCEPT ![t] = due] \in [Timers -> Ticks]
    BY <1>3, <2>1
  <2> HIDE DEF r, l
  <2> QED
    BY <1>1, <1>4, <1>11, <2>1, <2>2 DEF TimerState, l
<1> HIDE DEF r
<1>13. /\ r.timeout_tick[t] = due
       /\ \A u \in Timers \ {t} : r.timeout_tick[u] = e.timeout_tick[u]
  BY <1>1, <1>12 DEF TimerState
<1>14. \A u \in Timers : ToGo(r, now)[u] = key[u]
  <2> SUFFICES ASSUME NEW u \in Timers PROVE ToGo(r, now)[u] = key[u]
    OBVIOUS
  <2>1. /\ ToGo(r, now)[u] = Minus(r.timeout_tick[u], now)
        /\ ToGo(e, now)[u] = Minus(e.timeout_tick[u], now)
    BY DEF ToGo
  <2>2. CASE u = t
    BY <1>3, <1>6, <1>13, <2>1, <2>2
  <2>3. CASE u # t
    BY <1>6, <1>13, <2>1, <2>3
  <2> QED
    BY <2>2, <2>3
<1>15. InOrder(r, now)
  <2>1. Elems(r.list) \subseteq Timers /\ r.list \in TimerLists
    BY <1>11, <1>12, ListFacts
  <2>2. Ordered(r.list, ToGo(r, now))
    BY <1>11, <1>12, <1>14, <2>1, OrderedFrame
  <2>3. \A u \in Elems(r.list) : ToGo(r, now)[u] <= Half - 1
    <3> SUFFICES ASSUME NEW u \in Elems(r.list) PROVE key[u] <= Half - 1
      BY <1>14, <2>1
    <3>1. CASE u = t
      BY <1>2, <1>6, <3>1
    <3>2. CASE u # t
      <4>1. u \in Elems(l) /\ u \in Timers \ {t}
        BY <1>11, <1>12, <2>1, <3>2
      <4> QED
        BY <1>1, <1>6, <4>1 DEF InOrder
    <3> QED
      BY <3>1, <3>2
  <2> QED
    BY <1>12, <2>2, <2>3 DEF InOrder
<1>16. Elems(r.list) = Elems(ss.list) \cup {t}
  BY <1>1, <1>11, <1>12
<1> QED
  BY <1>1, <1>2, <1>3, <1>12, <1>13, <1>15, <1>16 DEF r, n

----------------------------------------------------------------------------
(* The inductive invariant.  Outside rt_timer_check no timer on the list   *)
(* is due: that is what keeps a tick from passing over one.                *)
TimersInv ==
    /\ tick \in Ticks /\ called \in Timers \cup {NoTimer} /\ checking \in BOOLEAN
    /\ called # NoTimer => checking
    /\ InOrder(s, tick)
    /\ \A t \in Timers : Booked(s, called, t)
    /\ TempIsPeriodic(s, called)
    /\ ~checking => \A t \in Elems(s.list) : ToGo(s, tick)[t] # 0

(* the countdowns that stand for the timers *)
Lefts == [t \in Timers |-> Left(t)]

(* Fields that neither order nor place depend on may change. *)
LEMMA InOrderFrame ==
    ASSUME NEW ss, NEW r \in TimerState, NEW now, InOrder(ss, now),
           r.list = ss.list, r.timeout_tick = ss.timeout_tick
    PROVE  InOrder(r, now)
<1>1. ToGo(r, now) = ToGo(ss, now)
  BY DEF ToGo
<1> QED
  BY <1>1 DEF InOrder

(* A call starts or stops one timer, or changes none that counts. *)
LEMMA ApplicationStep ==
    ASSUME TimerListAssumption, ~OwnMode, TimersInv, Application
    PROVE  /\ TimersInv'
           /\ \/ \E t \in Timers : Abstract!Start(t) \/ Abstract!Stop(t)
              \/ UNCHANGED <<Lefts, called>>
<1>1. PICK t \in Timers : s' \in {rt_timer_start(s, t, tick, called)} \cup Change(s, t, called)
  BY DEF Application
<1>2. /\ tick' = tick /\ called' = called /\ checking' = checking
      /\ tick \in Ticks /\ called \in Timers \cup {NoTimer} /\ checking \in BOOLEAN
      /\ called # NoTimer => checking
      /\ InOrder(s, tick) /\ s \in TimerState
      /\ \A u \in Timers : Booked(s, called, u)
      /\ TempIsPeriodic(s, called)
      /\ ~checking => \A u \in Elems(s.list) : ToGo(s, tick)[u] # 0
  BY DEF Application, TimersInv, InOrder
<1>3. /\ \A u \in Timers : ToGo(s, tick)[u] = Minus(s.timeout_tick[u], tick)
      /\ \A u \in Timers : ToGo(s', tick)[u] = Minus(s'.timeout_tick[u], tick)
      /\ Elems(s.list) \subseteq Timers
  <2>1. s.list \in TimerLists
    BY <1>2 DEF TimerState
  <2> QED
    BY <2>1, ListFacts DEF ToGo
<1>4. CASE s' = rt_timer_start(s, t, tick, called)
  <2>1. /\ InOrder(s', tick)
        /\ Elems(s'.list) = Elems(s.list) \cup {t}
        /\ s'.active = s.active \cup {t} /\ s'.periodic = s.periodic
        /\ s'.onTemp = (s.onTemp /\ t # called)
        /\ Minus(s'.timeout_tick[t], tick) = s.init_tick[t] /\ s.init_tick[t] \in InitTicks
        /\ \A u \in Timers \ {t} : s'.timeout_tick[u] = s.timeout_tick[u]
    BY <1>2, <1>4, StartEffect
  <2>2. \A u \in Timers : Booked(s', called, u)
    BY <1>2, <2>1 DEF Booked
  <2>3. TempIsPeriodic(s', called)
    BY <1>2, <2>1 DEF TempIsPeriodic
  <2>4. s.init_tick[t] # 0
    BY <2>1, HalfRange
  <2>5. ~checking => \A u \in Elems(s'.list) : ToGo(s', tick)[u] # 0
    <3> SUFFICES ASSUME ~checking, NEW u \in Elems(s'.list) PROVE ToGo(s', tick)[u] # 0
      OBVIOUS
    <3>1. CASE u = t
      BY <1>3, <2>1, <2>4, <3>1
    <3>2. CASE u # t
      BY <1>2, <1>3, <2>1, <3>2
    <3> QED
      BY <3>1, <3>2
  <2>6. TimersInv'
    BY <1>2, <2>1, <2>2, <2>3, <2>5 DEF TimersInv
  <2>7. Left(t)' = s.init_tick[t]
    BY <1>2, <2>1 DEF Left
  <2>8. \A u \in Timers \ {t} : Left(u)' = Left(u)
    BY <1>2, <2>1 DEF Left
  <2>9. Lefts' = [Lefts EXCEPT ![t] = s.init_tick[t]]
    BY <2>7, <2>8 DEF Lefts
  <2>10. Abstract!Start(t)
    BY <1>2, <2>1, <2>9 DEF Abstract!Start, Lefts
  <2> QED
    BY <2>6, <2>10
<1>5. CASE s' = [timer_remove(s, t, called) EXCEPT !.active = @ \ {t}]
  <2> DEFINE r == timer_remove(s, t, called)
  <2>1. /\ InOrder(r, tick)
        /\ Elems(r.list) = Elems(s.list) \ {t}
        /\ r.active = s.active /\ r.periodic = s.periodic /\ r.init_tick = s.init_tick
        /\ r.onTemp = (s.onTemp /\ t # called)
        /\ \A u \in Timers \ {t} : r.timeout_tick[u] = s.timeout_tick[u]
    BY <1>2, RemoveEffect
  <2> HIDE DEF r
  <2>2. s' = [r EXCEPT !.active = @ \ {t}]
    BY <1>5 DEF r
  <2>3. /\ s' \in TimerState /\ s'.list = r.list /\ s'.timeout_tick = r.timeout_tick
        /\ s'.active = s.active \ {t} /\ s'.periodic = s.periodic
        /\ s'.onTemp = (s.onTemp /\ t # called)
    BY <2>1, <2>2 DEF InOrder, TimerState
  <2>4. InOrder(s', tick)
    BY <2>1, <2>3, InOrderFrame
  <2>5. \A u \in Timers : Booked(s', called, u)
    BY <1>2, <2>1, <2>3 DEF Booked
  <2>6. TempIsPeriodic(s', called)
    BY <1>2, <2>3 DEF TempIsPeriodic
  <2>7. ~checking => \A u \in Elems(s'.list) : ToGo(s', tick)[u] # 0
    BY <1>2, <1>3, <2>1, <2>3
  <2>8. TimersInv'
    BY <1>2, <2>4, <2>5, <2>6, <2>7 DEF TimersInv
  <2>9. Left(t)' = -1
    BY <1>2, <2>1, <2>3 DEF Left
  <2>10. \A u \in Timers \ {t} : Left(u)' = Left(u)
    BY <1>2, <2>1, <2>3 DEF Left
  <2>11. Lefts' = [Lefts EXCEPT ![t] = -1]
    BY <2>9, <2>10 DEF Lefts
  <2>12. Abstract!Stop(t)
    BY <1>2, <2>11 DEF Abstract!Stop, Abstract!Off, Lefts
  <2> QED
    BY <2>8, <2>12
<1>6. ASSUME s' \in TimerState, s'.list = s.list, s'.timeout_tick = s.timeout_tick,
             s'.active = s.active, s'.onTemp = s.onTemp,
             \A u \in Timers : u = called => (u \in s'.periodic <=> u \in s.periodic)
      PROVE  TimersInv' /\ UNCHANGED <<Lefts, called>>
  <2>1. InOrder(s', tick)
    BY <1>2, <1>6, InOrderFrame
  <2>2. \A u \in Timers : Booked(s', called, u)
    BY <1>2, <1>6 DEF Booked
  <2>3. TempIsPeriodic(s', called)
    BY <1>2, <1>6 DEF TempIsPeriodic
  <2>4. ~checking => \A u \in Elems(s'.list) : ToGo(s', tick)[u] # 0
    BY <1>2, <1>3, <1>6
  <2>5. TimersInv'
    BY <1>2, <2>1, <2>2, <2>3, <2>4 DEF TimersInv
  <2>6. \A u \in Timers : Left(u)' = Left(u)
    BY <1>2, <1>6 DEF Left
  <2> QED
    BY <1>2, <2>5, <2>6 DEF Lefts
<1>7. CASE s' = s
  BY <1>2, <1>6, <1>7
<1>8. ASSUME NEW n \in InitTicks, s' = [s EXCEPT !.init_tick[t] = n]
      PROVE  TimersInv' /\ UNCHANGED <<Lefts, called>>
  <2>1. /\ s' \in TimerState /\ s'.list = s.list /\ s'.timeout_tick = s.timeout_tick
        /\ s'.active = s.active /\ s'.onTemp = s.onTemp /\ s'.periodic = s.periodic
    BY <1>2, <1>8 DEF TimerState
  <2> QED
    BY <1>6, <2>1
<1>9. ASSUME NEW p \in SUBSET Timers, s' = [s EXCEPT !.periodic = p],
             \A u \in Timers \ {t} : u \in p <=> u \in s.periodic, t # called
      PROVE  TimersInv' /\ UNCHANGED <<Lefts, called>>
  <2>1. /\ s' \in TimerState /\ s'.list = s.list /\ s'.timeout_tick = s.timeout_tick
        /\ s'.active = s.active /\ s'.onTemp = s.onTemp /\ s'.periodic = p
    BY <1>2, <1>9 DEF TimerState
  <2> QED
    BY <1>6, <1>9, <2>1
<1>10. \/ s' = rt_timer_start(s, t, tick, called)
       \/ s' = [timer_remove(s, t, called) EXCEPT !.active = @ \ {t}]
       \/ s' = s
       \/ \E n \in InitTicks : s' = [s EXCEPT !.init_tick[t] = n]
       \/ /\ t # called
          /\ \/ s' = [s EXCEPT !.periodic = @ \cup {t}]
             \/ s' = [s EXCEPT !.periodic = @ \ {t}]
  BY <1>1 DEF Change, rt_timer_stop, rt_timer_detach
<1>11. CASE t # called /\ s' = [s EXCEPT !.periodic = @ \cup {t}]
  <2>1. s.periodic \cup {t} \in SUBSET Timers
    BY <1>2 DEF TimerState
  <2> QED
    BY <1>9, <1>11, <2>1
<1>12. CASE t # called /\ s' = [s EXCEPT !.periodic = @ \ {t}]
  <2>1. s.periodic \ {t} \in SUBSET Timers
    BY <1>2 DEF TimerState
  <2> QED
    BY <1>9, <1>12, <2>1
<1> QED
  BY <1>4, <1>5, <1>7, <1>8, <1>10, <1>11, <1>12

(* With the next tick a timer that is not due has one tick less to go. *)
LEMMA NextTick ==
    ASSUME TimerListAssumption, NEW now \in Ticks, NEW x \in Ticks, Minus(x, now) # 0
    PROVE  /\ (now + 1) % TickMod \in Ticks
           /\ Minus(x, (now + 1) % TickMod) = Minus(x, now) - 1
<1>1. /\ Half \in Nat /\ 2 * Half <= RT_TICK_MAX /\ Half >= 2
      /\ RT_TICK_MAX \in Nat /\ TickMod = RT_TICK_MAX + 1
  BY HalfRange
<1>2. /\ x \in Int /\ 0 <= x /\ x <= RT_TICK_MAX
      /\ now \in Int /\ 0 <= now /\ now <= RT_TICK_MAX /\ 1 \in Ticks
  BY <1>1 DEF Ticks
<1> DEFINE new == (now + 1) % TickMod
<1>3. new \in Ticks /\ new = IF now + 1 < TickMod THEN now + 1 ELSE now + 1 - TickMod
  BY <1>2, TickArithmetic
<1> HIDE DEF new
<1>4. /\ Minus(x, new) = IF x >= new THEN x - new ELSE x - new + TickMod
      /\ Minus(x, now) = IF x >= now THEN x - now ELSE x - now + TickMod
  BY <1>3, TickArithmetic
<1>5. Minus(x, new) = Minus(x, now) - 1
  BY <1>1, <1>2, <1>3, <1>4
<1> QED
  BY <1>3, <1>5 DEF new

(* The first of the list has run out exactly when it has no ticks to go. *)
LEMMA ExpiredIsDue ==
    ASSUME TimerListAssumption, NEW ss, NEW now \in Ticks, InOrder(ss, now), ss.list # <<>>
    PROVE  Expired(ss, now) <=> ToGo(ss, now)[Head(ss.list)] = 0
<1> DEFINE t == Head(ss.list)
           x == ss.timeout_tick[t]
<1>1. t \in Elems(ss.list) /\ t \in Timers
  <2>1. ss.list \in TimerLists /\ Ordered(ss.list, ToGo(ss, now))
    BY DEF InOrder, TimerState
  <2> QED
    BY <2>1, ListPop, ListFacts
<1>2. x \in Ticks /\ ToGo(ss, now)[t] = Minus(x, now)
  BY <1>1, ToGoType DEF InOrder
<1>3. Minus(x, now) <= Half - 1
  BY <1>1, <1>2 DEF InOrder
<1>4. Expired(ss, now) <=> Minus(now, x) < Half
  BY DEF Expired, Half
<1> HIDE DEF t, x
<1>5. /\ Half \in Nat /\ 2 * Half <= RT_TICK_MAX /\ Half >= 2
      /\ RT_TICK_MAX \in Nat /\ TickMod = RT_TICK_MAX + 1
  BY HalfRange
<1>6. /\ x \in Int /\ 0 <= x /\ x <= RT_TICK_MAX
      /\ now \in Int /\ 0 <= now /\ now <= RT_TICK_MAX
  BY <1>2, <1>5 DEF Ticks
<1>7. /\ Minus(x, now) = IF x >= now THEN x - now ELSE x - now + TickMod
      /\ Minus(now, x) = IF now >= x THEN now - x ELSE now - x + TickMod
  BY <1>2, TickArithmetic
<1>8. Minus(now, x) < Half <=> Minus(x, now) = 0
  BY <1>3, <1>5, <1>6, <1>7
<1> QED
  BY <1>2, <1>4, <1>8 DEF t

(* A tick passes over no timer that is due. *)
LEMMA TickStep ==
    ASSUME TimerListAssumption, TimersInv, rt_tick_increase
    PROVE  TimersInv' /\ Abstract!Tick
<1>1. /\ tick' = (tick + 1) % TickMod /\ called' = called /\ checking' = TRUE /\ ~checking /\ s' = s
      /\ tick \in Ticks /\ called = NoTimer
      /\ InOrder(s, tick) /\ s \in TimerState
      /\ \A u \in Timers : Booked(s, called, u)
      /\ TempIsPeriodic(s, called)
      /\ \A u \in Elems(s.list) : ToGo(s, tick)[u] # 0
  BY DEF rt_tick_increase, TimersInv, InOrder
<1>2. s.list \in TimerLists /\ Elems(s.list) \subseteq Timers
  BY <1>1, ListFacts DEF TimerState
<1>3. ~s.onTemp
  BY <1>1 DEF TempIsPeriodic, TimerListAssumption
<1>4. /\ ToGo(s, tick) \in [Timers -> Nat]
      /\ \A u \in Timers : ToGo(s, tick)[u] = Minus(s.timeout_tick[u], tick)
      /\ \A u \in Timers : s.timeout_tick[u] \in Ticks
  BY <1>1, ToGoType
<1>5. tick' \in Ticks
  <2>1. 1 \in Ticks
    BY HalfRange DEF Ticks
  <2> QED
    BY <1>1, <2>1, TickArithmetic
<1>6. \A u \in Timers : ToGo(s, tick')[u] = Minus(s.timeout_tick[u], tick')
  BY DEF ToGo
<1>7. \A u \in Elems(s.list) : ToGo(s, tick')[u] = ToGo(s, tick)[u] - 1
  BY <1>1, <1>2, <1>4, <1>6, NextTick
<1>8. InOrder(s, tick')
  <2> DEFINE key == ToGo(s, tick)
             new == ToGo(s, tick')
             l == s.list
  <2>1. \A u \in Elems(l) : key[u] \in Nat /\ new[u] = key[u] - 1 /\ key[u] <= Half - 1
    BY <1>1, <1>2, <1>4, <1>7 DEF InOrder
  <2>2. Ordered(l, key)
    BY <1>1 DEF InOrder
  <2> HIDE DEF key, new
  <2>3. \A i \in 1..Len(l) : l[i] \in Elems(l)
    BY <1>2, ListFacts
  <2>4. Ordered(l, new)
    <3> SUFFICES ASSUME NEW i \in 1..Len(l), NEW j \in 1..Len(l), i < j
                 PROVE  new[l[i]] <= new[l[j]]
      BY DEF Ordered
    <3>1. key[l[i]] <= key[l[j]]
      BY <2>2 DEF Ordered
    <3>2. /\ key[l[i]] \in Nat /\ new[l[i]] = key[l[i]] - 1
          /\ key[l[j]] \in Nat /\ new[l[j]] = key[l[j]] - 1
      BY <2>1, <2>3
    <3> QED
      BY <3>1, <3>2
  <2>5. \A u \in Elems(l) : new[u] <= Half - 1
    BY <2>1, HalfRange
  <2> QED
    BY <1>1, <2>4, <2>5 DEF InOrder, new
<1>9. TimersInv'
  BY <1>1, <1>5, <1>8 DEF TimersInv
<1>10. /\ \A u \in Elems(s.list) : Left(u) = ToGo(s, tick)[u] /\ Left(u)' = Left(u) - 1
       /\ \A u \in Elems(s.list) : Left(u) \in Nat /\ Left(u) # 0
       /\ \A u \in Timers \ Elems(s.list) : Left(u) = -1 /\ Left(u)' = -1
  <2>1. \A u \in Elems(s.list) : Left(u) = Minus(s.timeout_tick[u], tick) /\ Left(u)' = Minus(s.timeout_tick[u], tick')
    BY <1>1 DEF Left
  <2>2. \A u \in Timers \ Elems(s.list) : Left(u) = -1 /\ Left(u)' = -1
    BY <1>1, <1>3 DEF Left
  <2> QED
    BY <1>1, <1>2, <1>4, <1>6, <1>7, <2>1, <2>2
<1>11. \A u \in Timers : Lefts[u] # 0
  BY <1>10 DEF Lefts
<1>12. Lefts' = [u \in Timers |-> IF Lefts[u] = -1 THEN -1 ELSE Lefts[u] - 1]
  <2>1. \A u \in Timers : Left(u)' = IF Left(u) = -1 THEN -1 ELSE Left(u) - 1
    BY <1>10
  <2> QED
    BY <2>1 DEF Lefts
<1> QED
  BY <1>1, <1>9, <1>11, <1>12 DEF Abstract!Tick, Abstract!Off, Lefts

(* rt_timer_check takes off the first timer when its time is up, and stops *)
(* looking when none is due.                                               *)
LEMMA CheckStep ==
    ASSUME TimerListAssumption, TimersInv, CheckHead
    PROVE  /\ TimersInv'
           /\ (\E t \in Timers : Abstract!GoOff(t)) \/ UNCHANGED <<Lefts, called>>
<1>1. /\ tick' = tick /\ checking /\ called = NoTimer
      /\ tick \in Ticks
      /\ InOrder(s, tick) /\ s \in TimerState
      /\ \A u \in Timers : Booked(s, called, u)
      /\ TempIsPeriodic(s, called)
  BY DEF CheckHead, TimersInv, InOrder
<1>2. /\ s.list \in TimerLists /\ Elems(s.list) \subseteq Timers
      /\ Ordered(s.list, ToGo(s, tick))
  BY <1>1, ListFacts DEF TimerState, InOrder
<1>3. ~s.onTemp
  BY <1>1 DEF TempIsPeriodic, TimerListAssumption
<1>4. \A u \in Timers : ToGo(s, tick)[u] = Minus(s.timeout_tick[u], tick)
  BY DEF ToGo
<1>5. CASE Expired(s, tick)
  <2>0. s.list # <<>>
    BY <1>5 DEF Expired
  <2> PICK t \in Timers : t = Head(s.list)
    BY <1>2, <2>0, ListPop
  <2>1. called' = t /\ s' = TakeExpired(s) /\ checking' = checking
    BY <1>5 DEF CheckHead
  <2>2. /\ t \in Elems(s.list) /\ t \in Timers /\ Tail(s.list) \in TimerLists
        /\ Elems(Tail(s.list)) = Elems(s.list) \ {t}
        /\ Ordered(Tail(s.list), ToGo(s, tick))
    BY <1>2, <2>0, ListPop
  <2>3. ToGo(s, tick)[t] = 0
    BY <1>1, <1>5, <2>0, ExpiredIsDue
  <2>4. /\ s' = [s EXCEPT !.list = Tail(s.list), !.timeout_tick[t] = 0, !.onTemp = TRUE,
                          !.active = IF t \in s.periodic THEN s.active ELSE s.active \ {t}]
    BY <2>1 DEF TakeExpired
  <2>5. /\ s'.list = Tail(s.list) /\ s'.onTemp = TRUE /\ s'.periodic = s.periodic
        /\ s'.active = IF t \in s.periodic THEN s.active ELSE s.active \ {t}
        /\ s'.timeout_tick = [s.timeout_tick EXCEPT ![t] = 0]
        /\ s'.init_tick = s.init_tick
    BY <1>1, <2>4 DEF TimerState
  <2>6. s' \in TimerState
    <3>1. 0 \in Ticks
      BY HalfRange DEF Ticks
    <3>2. s'.timeout_tick \in [Timers -> Ticks] /\ s'.active \in SUBSET Timers
      BY <1>1, <2>5, <3>1 DEF TimerState
    <3> QED
      BY <1>1, <2>2, <2>4, <2>5, <3>2 DEF TimerState
  <2>7. \A u \in Timers \ {t} : s'.timeout_tick[u] = s.timeout_tick[u]
    BY <1>1, <2>5 DEF TimerState
  <2>8. \A u \in Elems(s'.list) : u \in Timers \ {t} /\ ToGo(s', tick)[u] = ToGo(s, tick)[u]
    <3> SUFFICES ASSUME NEW u \in Elems(s'.list)
                 PROVE  u \in Timers \ {t} /\ ToGo(s', tick)[u] = ToGo(s, tick)[u]
      OBVIOUS
    <3>1. u \in Timers \ {t} /\ u \in Elems(s.list)
      BY <1>2, <2>2, <2>5
    <3>2. ToGo(s', tick)[u] = Minus(s'.timeout_tick[u], tick)
      BY <3>1 DEF ToGo
    <3> QED
      BY <1>4, <2>7, <3>1, <3>2
  <2>9. InOrder(s', tick)
    <3>1. Ordered(s'.list, ToGo(s', tick))
      BY <2>2, <2>5, <2>8, OrderedFrame
    <3>2. \A u \in Elems(s'.list) : ToGo(s', tick)[u] <= Half - 1
      BY <1>1, <2>2, <2>5, <2>8 DEF InOrder
    <3> QED
      BY <2>6, <3>1, <3>2 DEF InOrder
  <2>10. \A u \in Timers : Booked(s', t, u)
    BY <1>1, <1>3, <2>2, <2>5 DEF Booked
  <2>11. TempIsPeriodic(s', t)
    BY <2>2, <2>5 DEF TempIsPeriodic
  <2>12. TimersInv'
    BY <1>1, <2>1, <2>2, <2>9, <2>10, <2>11 DEF TimersInv
  <2>13. Left(t) = 0
    BY <1>4, <2>2, <2>3 DEF Left
  <2>14. Left(t)' = -1 \/ Left(t)' = -2
    BY <2>2, <2>5 DEF Left
  <2>15. \A u \in Timers \ {t} : Left(u)' = Left(u)
    <3>1. called' = t /\ \A u \in Timers \ {t} : u \in Elems(s'.list) <=> u \in Elems(s.list)
      BY <2>1, <2>2, <2>5
    <3> QED
      BY <1>1, <1>3, <2>7, <3>1 DEF Left
  <2>16. Lefts[t] = 0 /\ Lefts' = [Lefts EXCEPT ![t] = Left(t)']
    BY <2>2, <2>13, <2>15 DEF Lefts
  <2>17. Abstract!GoOff(t)
    BY <1>1, <2>1, <2>14, <2>16 DEF Abstract!GoOff, Abstract!Off, Abstract!Again, Lefts
  <2> QED
    BY <2>2, <2>12, <2>17
<1>6. CASE ~Expired(s, tick)
  <2>1. checking' = FALSE /\ s' = s /\ called' = called
    BY <1>6 DEF CheckHead
  <2>2. \A u \in Elems(s.list) : ToGo(s, tick)[u] # 0
    <3> SUFFICES ASSUME NEW u \in Elems(s.list) PROVE ToGo(s, tick)[u] # 0
      OBVIOUS
    <3>1. s.list # <<>>
      BY <1>2, ListFacts
    <3>2. ToGo(s, tick)[Head(s.list)] # 0
      BY <1>1, <1>6, <3>1, ExpiredIsDue
    <3>3. ToGo(s, tick)[Head(s.list)] <= ToGo(s, tick)[u] \/ u = Head(s.list)
      BY <1>2, <3>1, ListPop
    <3>4. ToGo(s, tick)[u] \in Nat /\ ToGo(s, tick)[Head(s.list)] \in Nat
      BY <1>1, <1>2, <3>1, ListPop, ToGoType
    <3> QED
      BY <3>2, <3>3, <3>4
  <2>3. TimersInv'
    BY <1>1, <2>1, <2>2 DEF TimersInv
  <2>4. \A u \in Timers : Left(u)' = Left(u)
    BY <1>1, <2>1 DEF Left
  <2> QED
    BY <2>1, <2>3, <2>4 DEF Lefts
<1> QED
  BY <1>5, <1>6

(* After its function a periodic timer is started again, unless it was     *)
(* stopped or started meanwhile.                                           *)
LEMMA ReturnStep ==
    ASSUME TimerListAssumption, TimersInv, TimeoutReturns
    PROVE  TimersInv' /\ Abstract!Return
<1> PICK t \in Timers : t = called
  BY DEF TimeoutReturns, TimersInv
<1> DEFINE r == [s EXCEPT !.onTemp = FALSE]
<1>1. /\ tick' = tick /\ checking' = checking /\ checking /\ called' = NoTimer
      /\ t \in Timers /\ t # NoTimer /\ NoTimer \notin Timers
      /\ tick \in Ticks /\ checking \in BOOLEAN
      /\ InOrder(s, tick) /\ s \in TimerState
      /\ \A u \in Timers : Booked(s, t, u)
      /\ TempIsPeriodic(s, t)
      /\ s' = AfterTimeout(s, t, tick)
  BY DEF TimeoutReturns, TimersInv, InOrder, TimerListAssumption
<1>2. /\ r \in TimerState /\ r.list = s.list /\ r.timeout_tick = s.timeout_tick
      /\ r.active = s.active /\ r.periodic = s.periodic /\ r.init_tick = s.init_tick
      /\ r.onTemp = FALSE
  BY <1>1 DEF TimerState
<1>3. InOrder(r, tick)
  BY <1>1, <1>2, InOrderFrame
<1> HIDE DEF r
<1>4. CASE s.onTemp /\ t \in s.periodic /\ t \in s.active
  <2>1. s' = rt_timer_start(r, t, tick, t)
    BY <1>1, <1>4 DEF AfterTimeout, r
  <2>2. /\ InOrder(s', tick)
        /\ Elems(s'.list) = Elems(r.list) \cup {t}
        /\ s'.active = r.active \cup {t} /\ s'.periodic = r.periodic
        /\ s'.onTemp = (r.onTemp /\ t # t)
        /\ Minus(s'.timeout_tick[t], tick) = r.init_tick[t] /\ r.init_tick[t] \in InitTicks
        /\ \A u \in Timers \ {t} : s'.timeout_tick[u] = r.timeout_tick[u]
    BY <1>1, <1>3, <2>1, StartEffect
  <2>3. ~s'.onTemp
    BY <2>2
  <2>4. \A u \in Timers : Booked(s', NoTimer, u)
    BY <1>1, <1>2, <2>2, <2>3 DEF Booked
  <2>5. TimersInv'
    BY <1>1, <2>2, <2>3, <2>4 DEF TimersInv, TempIsPeriodic
  <2>6. Left(t) = -2
    BY <1>1, <1>4 DEF Left, Booked
  <2>7. Left(t)' = s.init_tick[t] /\ s.init_tick[t] \in InitTicks
    BY <1>1, <1>2, <2>2 DEF Left
  <2>8. \A u \in Timers \ {t} : Left(u)' = Left(u)
    BY <1>1, <1>2, <2>2, <2>3 DEF Left
  <2>9. Lefts[t] = -2 /\ Lefts' = [Lefts EXCEPT ![t] = s.init_tick[t]]
    BY <1>1, <2>6, <2>7, <2>8 DEF Lefts
  <2> QED
    BY <1>1, <2>5, <2>7, <2>9 DEF Abstract!Return, Abstract!Again, Lefts
<1>5. CASE ~(s.onTemp /\ t \in s.periodic /\ t \in s.active)
  <2>1. /\ s'.list = s.list /\ s'.timeout_tick = s.timeout_tick /\ s'.active = s.active
        /\ s' \in TimerState /\ ~s'.onTemp
    BY <1>1, <1>2, <1>5 DEF AfterTimeout, r
  <2>2. InOrder(s', tick)
    BY <1>1, <2>1, InOrderFrame
  <2>3. ~(s.onTemp /\ t \in s.active)
    BY <1>1, <1>5 DEF TempIsPeriodic
  <2>4. \A u \in Timers : Booked(s', NoTimer, u)
    BY <1>1, <2>1, <2>3 DEF Booked
  <2>5. TimersInv'
    BY <1>1, <2>1, <2>2, <2>4 DEF TimersInv, TempIsPeriodic
  <2>6. /\ \A u \in Timers : Left(u)' = Left(u)
        /\ Left(t) = Minus(s.timeout_tick[t], tick) \/ Left(t) = -1
    BY <1>1, <1>5, <2>1 DEF Left
  <2>7. Minus(s.timeout_tick[t], tick) # -2
    <3>1. ToGo(s, tick)[t] \in Nat /\ ToGo(s, tick)[t] = Minus(s.timeout_tick[t], tick)
      BY <1>1, ToGoType
    <3> QED
      BY <3>1
  <2>8. Lefts' = Lefts /\ Lefts[t] # -2
    BY <1>1, <2>6, <2>7 DEF Lefts
  <2> QED
    BY <1>1, <2>5, <2>8 DEF Abstract!Return, Abstract!Again, Lefts
<1> QED
  BY <1>4, <1>5

LEMMA TimersStart ==
    ASSUME TimerListAssumption, Init
    PROVE  TimersInv /\ Abstract!Init
<1>1. tick \in Ticks /\ s = ListInit /\ called = NoTimer /\ checking = FALSE
  BY DEF Init, Ticks
<1> DEFINE least == CHOOSE n \in InitTicks : \A m \in InitTicks : n <= m
<1>2. least \in InitTicks
  <2>1. InitTicks \subseteq Nat /\ InitTicks # {}
    <3>1. \A n \in InitTicks : n \in 1..(Half - 1)
      BY HalfRange
    <3> QED
      BY <3>1 DEF TimerListAssumption
  <2>2. \E n \in InitTicks : \A m \in InitTicks : n <= m
    BY <2>1, SmallestOf
  <2> QED
    BY <2>2
<1>3. s = [list |-> <<>>, active |-> {}, periodic |-> {}, timeout_tick |-> [t \in Timers |-> 0],
           init_tick |-> [t \in Timers |-> least], onTemp |-> FALSE]
  BY <1>1 DEF ListInit
<1> HIDE DEF least
<1>4. <<>> \in TimerLists /\ Elems(<<>>) = {} /\ Len(<<>>) = 0
  BY DEF TimerLists, Elems
<1>5. 0 \in Ticks
  BY HalfRange DEF Ticks
<1>6. s \in TimerState
  BY <1>2, <1>3, <1>4, <1>5 DEF TimerState
<1>7. InOrder(s, tick)
  <2>1. Ordered(s.list, ToGo(s, tick))
    BY <1>3, <1>4 DEF Ordered
  <2> QED
    BY <1>3, <1>4, <1>6, <2>1 DEF InOrder
<1>8. TimersInv
  <2>1. Elems(s.list) = {} /\ s.active = {} /\ ~s.onTemp
    BY <1>3, <1>4
  <2>2. (\A t \in Timers : Booked(s, called, t)) /\ TempIsPeriodic(s, called)
    BY <2>1 DEF Booked, TempIsPeriodic
  <2> QED
    BY <1>1, <1>7, <2>1, <2>2 DEF TimersInv
<1>9. \A t \in Timers : Left(t) = -1
  BY <1>3, <1>4 DEF Left
<1> QED
  BY <1>1, <1>8, <1>9 DEF Abstract!Init, Abstract!Off

LEMMA TimersStep ==
    ASSUME TimerListAssumption, ~OwnMode, TimersInv, [Next]_vars
    PROVE  TimersInv' /\ [Abstract!Next]_(Abstract!vars)
<1>1. CASE Application
  <2>1. /\ TimersInv'
        /\ \/ \E t \in Timers : Abstract!Start(t) \/ Abstract!Stop(t)
           \/ UNCHANGED <<Lefts, called>>
    BY <1>1, ApplicationStep
  <2> QED
    BY <2>1 DEF Abstract!Next, Abstract!vars, Lefts
<1>2. CASE rt_tick_increase
  BY <1>2, TickStep DEF Abstract!Next
<1>3. CASE CheckHead
  <2>1. TimersInv' /\ ((\E t \in Timers : Abstract!GoOff(t)) \/ UNCHANGED <<Lefts, called>>)
    BY <1>3, CheckStep
  <2> QED
    BY <2>1 DEF Abstract!Next, Abstract!vars, Lefts
<1>4. CASE TimeoutReturns
  BY <1>4, ReturnStep DEF Abstract!Next
<1>5. CASE UNCHANGED vars
  <2>1. TimersInv'
    BY <1>5 DEF TimersInv, vars
  <2>2. UNCHANGED <<Lefts, called>>
    BY <1>5 DEF Lefts, Left, vars
  <2> QED
    BY <2>1, <2>2 DEF Abstract!vars, Lefts
<1> QED
  BY <1>1, <1>2, <1>3, <1>4, <1>5 DEF Next

(* On every behaviour of the system timer whose timeout functions leave    *)
(* the mode of their own timer alone: a timer is on the list exactly when  *)
(* it is activated, and once, but for the one whose function runs.  So a   *)
(* stopped timer is not revived when rt_timer_check goes on after a        *)
(* timeout function, and a periodic one is not forgotten.                  *)
THEOREM TimerListIsActive ==
    ASSUME TimerListAssumption, ~OwnMode
    PROVE  Spec => []ListIsActive
<1>1. Init => TimersInv
  BY TimersStart
<1>2. TimersInv /\ [Next]_vars => TimersInv'
  BY TimersStep
<1>3. TimersInv => ListIsActive
  <2> SUFFICES ASSUME TimersInv PROVE ListIsActive
    OBVIOUS
  <2>1. s.list \in TimerLists
    BY DEF TimersInv, InOrder, TimerState
  <2>2. \A i, j \in DOMAIN s.list : s.list[i] = s.list[j] => i = j
    BY <2>1, ListFacts
  <2>3. s.onTemp => called # NoTimer
    BY DEF TimersInv, TempIsPeriodic, TimerListAssumption
  <2> QED
    BY <2>2, <2>3 DEF ListIsActive, TimersInv, Booked
<1> QED
  BY <1>1, <1>2, <1>3, PTL DEF Spec

(* The timer list of timer.c implements one countdown for each timer, with *)
(* ticks that wrap around anywhere: every timer goes off after exactly the *)
(* ticks it was started with, and no tick passes over one that is due.     *)
THEOREM TimerImplementsCountdown ==
    ASSUME TimerListAssumption, ~OwnMode
    PROVE  Spec => ImplementsCountdown
<1>1. Init => TimersInv /\ Abstract!Init
  BY TimersStart
<1>2. TimersInv /\ [Next]_vars => TimersInv' /\ [Abstract!Next]_(Abstract!vars)
  BY TimersStep
<1> QED
  BY <1>1, <1>2, PTL DEF Spec, ImplementsCountdown, Abstract!Spec
=============================================================================
