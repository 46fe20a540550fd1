--------------------------- MODULE RtKernelLemmas ---------------------------
(***************************************************************************)
(* Lemmas about the kernel of RtKernel.                                    *)
(***************************************************************************)
EXTENDS RtKernel, SequenceTheorems, WellFoundedInduction, TLAPS

(* A set of natural numbers has a smallest one. *)
LEMMA SmallestOf ==
    ASSUME NEW T, T \subseteq Nat, T # {}
    PROVE  \E x \in T : \A y \in T : x <= y
<1> DEFINE R == OpToRel(<, Nat)
<1>1. PICK x \in T : \A y \in T : ~(<<y, x>> \in R)
  BY NatLessThanWellFounded, WFMin
<1>2. \A y \in T : ~(y < x)
  BY <1>1 DEF OpToRel
<1> HIDE DEF R
<1>3. ASSUME NEW y \in T PROVE x <= y
  BY <1>2
<1> QED
  BY <1>3

(* Lists on which a node is at most once. *)
Lists1(S) == {s \in Seq(S) : \A i, j \in 1..Len(s) : s[i] = s[j] => i = j}

(* A list holds elements of its set; it is empty when it holds none. *)
LEMMA ListElems ==
    ASSUME NEW S, NEW s \in Lists1(S)
    PROVE  /\ s \in Seq(S) /\ Len(s) \in Nat /\ DOMAIN s = 1..Len(s)
           /\ Elems(s) \subseteq S
           /\ \A x : x \in Elems(s) <=> \E i \in 1..Len(s) : s[i] = x
           /\ (s = <<>> <=> Elems(s) = {})
           /\ s # <<>> => Head(s) \in Elems(s)
<1>1. /\ s \in Seq(S) /\ Len(s) \in Nat /\ DOMAIN s = 1..Len(s)
  BY DEF Lists1
<1>2. \A x : x \in Elems(s) <=> \E i \in 1..Len(s) : s[i] = x
  BY <1>1 DEF Elems
<1>3. \A i \in 1..Len(s) : s[i] \in S
  BY <1>1
<1>4. s # <<>> => Len(s) # 0 /\ Head(s) = s[1]
  BY <1>1, EmptySeq, HeadTailProperties
<1>5. s # <<>> => Head(s) \in Elems(s)
  BY <1>1, <1>2, <1>4
<1>6. s = <<>> => Elems(s) = {}
  BY <1>1, <1>2
<1> QED
  BY <1>1, <1>2, <1>3, <1>5, <1>6

LEMMA ListWithout ==
    ASSUME NEW S, NEW s \in Lists1(S), NEW t
    PROVE  /\ Without(s, t) \in Lists1(S)
           /\ Elems(Without(s, t)) = Elems(s) \ {t}
<1>1. CASE t \notin Elems(s)
  BY <1>1 DEF Without
<1>2. CASE t \in Elems(s)
  <2> DEFINE at == CHOOSE i \in DOMAIN s : s[i] = t
             a == SubSeq(s, 1, at - 1)
             b == SubSeq(s, at + 1, Len(s))
             w == a \o b
             L == Len(s)
  <2>0. /\ s \in Seq(S) /\ L \in Nat /\ DOMAIN s = 1..L
        /\ \A i, j \in 1..L : s[i] = s[j] => i = j
        /\ \A x : x \in Elems(s) <=> \E i \in 1..L : s[i] = x
    BY ListElems DEF Lists1
  <2>1. at \in 1..L /\ s[at] = t
    BY <1>2, <2>0 DEF Elems
  <2>2. Without(s, t) = w
    BY <1>2 DEF Without
  <2>3. /\ a \in Seq(S) /\ Len(a) = at - 1
        /\ \A i \in 1..(at - 1) : a[i] = s[i]
    BY <2>0, <2>1, SubSeqProperties
  <2>4. /\ b \in Seq(S) /\ Len(b) = L - at
        /\ \A i \in 1..(L - at) : b[i] = s[at + i]
    BY <2>0, <2>1, SubSeqProperties
  <2> HIDE DEF a, b, at, L
  <2>5. /\ w \in Seq(S) /\ Len(w) = Len(a) + Len(b)
        /\ \A i \in 1..(Len(a) + Len(b)) : w[i] = IF i <= Len(a) THEN a[i] ELSE b[i - Len(a)]
    BY <2>3, <2>4, ConcatProperties
  <2> HIDE DEF w
  <2>6. Len(w) = L - 1
    BY <2>0, <2>1, <2>3, <2>4, <2>5
  <2>7. ASSUME NEW i \in 1..(L - 1) PROVE w[i] = IF i < at THEN s[i] ELSE s[i + 1]
    <3>1. CASE i < at
      BY <2>0, <2>1, <2>3, <2>4, <2>5, <3>1
    <3>2. CASE i >= at
      <4>1. w[i] = b[i - (at - 1)]
        BY <2>0, <2>1, <2>3, <2>4, <2>5, <3>2
      <4>2. i - (at - 1) \in 1..(L - at)
        BY <2>0, <2>1, <3>2
      <4>3. w[i] = s[at + (i - (at - 1))]
        BY <2>4, <4>1, <4>2
      <4>4. at + (i - (at - 1)) = i + 1
        BY <2>0, <2>1
      <4> QED
        BY <3>2, <4>3, <4>4, <2>0, <2>1
    <3> QED
      BY <2>0, <2>1, <3>1, <3>2
  <2>8. w \in Lists1(S)
    <3> SUFFICES ASSUME NEW i \in 1..(L - 1), NEW j \in 1..(L - 1), w[i] = w[j] PROVE i = j
      BY <2>5, <2>6 DEF Lists1
    <3> QED
      BY <2>0, <2>1, <2>7
  <2>9. \A x : x \in Elems(w) <=> \E i \in 1..(L - 1) : w[i] = x
    BY <2>6, <2>8, ListElems
  <2>10. ASSUME NEW x \in Elems(w) PROVE x \in Elems(s) \ {t}
    <3>1. PICK i \in 1..(L - 1) : w[i] = x
      BY <2>9, <2>10
    <3> QED
      BY <2>0, <2>1, <2>7, <3>1
  <2>11. ASSUME NEW x \in Elems(s) \ {t} PROVE x \in Elems(w)
    <3>1. PICK i \in 1..L : s[i] = x
      BY <2>0, <2>11
    <3>2. CASE i < at
      BY <2>0, <2>1, <2>7, <2>9, <3>1, <3>2
    <3>3. CASE i > at
      <4>1. i - 1 \in 1..(L - 1) /\ w[i - 1] = x
        BY <2>0, <2>1, <2>7, <3>1, <3>3
      <4> QED
        BY <2>9, <4>1
    <3> QED
      BY <2>0, <2>1, <3>1, <3>2, <3>3
  <2> QED
    BY <2>2, <2>8, <2>10, <2>11
<1> QED
  BY <1>1, <1>2

LEMMA ListInsert ==
    ASSUME NEW S, NEW s \in Lists1(S), NEW t \in S, t \notin Elems(s), NEW n \in 1..(Len(s) + 1)
    PROVE  /\ InsertBefore(s, n, t) \in Lists1(S)
           /\ Elems(InsertBefore(s, n, t)) = Elems(s) \cup {t}
<1> DEFINE a == SubSeq(s, 1, n - 1)
           b == SubSeq(s, n, Len(s))
           c == a \o <<t>>
           w == c \o b
           L == Len(s)
<1>0. /\ s \in Seq(S) /\ L \in Nat /\ DOMAIN s = 1..L
      /\ \A i, j \in 1..L : s[i] = s[j] => i = j
      /\ \A x : x \in Elems(s) <=> \E i \in 1..L : s[i] = x
      /\ n \in Nat /\ n >= 1 /\ n <= L + 1
  BY ListElems DEF Lists1
<1>1. w = InsertBefore(s, n, t)
  BY DEF InsertBefore
<1>2. /\ a \in Seq(S) /\ Len(a) = n - 1
      /\ \A i \in 1..(n - 1) : a[i] = s[i]
  BY <1>0, SubSeqProperties
<1>3. /\ b \in Seq(S) /\ Len(b) = L + 1 - n
      /\ \A i \in 1..(L + 1 - n) : b[i] = s[n - 1 + i]
  BY <1>0, SubSeqProperties
<1> HIDE DEF a, b, L
<1>4. /\ c \in Seq(S) /\ Len(c) = n
      /\ \A i \in 1..n : c[i] = IF i < n THEN s[i] ELSE t
  BY <1>0, <1>2, ConcatProperties
<1> HIDE DEF c
<1>5. /\ w \in Seq(S) /\ Len(w) = Len(c) + Len(b)
      /\ \A i \in 1..(Len(c) + Len(b)) : w[i] = IF i <= Len(c) THEN c[i] ELSE b[i - Len(c)]
  BY <1>3, <1>4, ConcatProperties
<1> HIDE DEF w
<1>6. Len(w) = L + 1
  BY <1>0, <1>3, <1>4, <1>5
<1>7. ASSUME NEW i \in 1..(L + 1)
      PROVE  w[i] = IF i < n THEN s[i] ELSE IF i = n THEN t ELSE s[i - 1]
  <2>1. CASE i <= n
    BY <1>0, <1>3, <1>4, <1>5, <2>1
  <2>2. CASE i > n
    <3>1. w[i] = b[i - n] /\ i - n \in 1..(L + 1 - n)
      BY <1>0, <1>3, <1>4, <1>5, <2>2
    <3>2. n - 1 + (i - n) = i - 1
      BY <1>0
    <3>3. w[i] = s[n - 1 + (i - n)]
      BY <1>3, <3>1
    <3> QED
      BY <1>0, <2>2, <3>2, <3>3
  <2> QED
    BY <1>0, <2>1, <2>2
<1>8. \A i \in 1..L : s[i] # t
  BY <1>0
<1>9. w \in Lists1(S)
  <2> SUFFICES ASSUME NEW i \in 1..(L + 1), NEW j \in 1..(L + 1), w[i] = w[j] PROVE i = j
    BY <1>5, <1>6 DEF Lists1
  <2> QED
    BY <1>0, <1>7, <1>8
<1>10. \A x : x \in Elems(w) <=> \E i \in 1..(L + 1) : w[i] = x
  BY <1>6, <1>9, ListElems
<1>11. ASSUME NEW x \in Elems(w) PROVE x \in Elems(s) \cup {t}
  <2>1. PICK i \in 1..(L + 1) : w[i] = x
    BY <1>10, <1>11
  <2> QED
    BY <1>0, <1>7, <2>1
<1>12. t \in Elems(w)
  BY <1>0, <1>7, <1>10
<1>13. ASSUME NEW x \in Elems(s) PROVE x \in Elems(w)
  <2>1. PICK i \in 1..L : s[i] = x
    BY <1>0, <1>13
  <2>2. CASE i < n
    BY <1>0, <1>7, <1>10, <2>1, <2>2
  <2>3. CASE i >= n
    <3>1. i + 1 \in 1..(L + 1) /\ w[i + 1] = x
      BY <1>0, <1>7, <2>1, <2>3
    <3> QED
      BY <1>10, <3>1
  <2> QED
    BY <1>0, <2>1, <2>2, <2>3
<1> QED
  BY <1>1, <1>9, <1>11, <1>12, <1>13

(* A node is put at either end. *)
LEMMA ListPush ==
    ASSUME NEW S, NEW s \in Lists1(S), NEW t \in S, t \notin Elems(s)
    PROVE  /\ <<t>> \o s \in Lists1(S) /\ Elems(<<t>> \o s) = Elems(s) \cup {t}
           /\ Append(s, t) \in Lists1(S) /\ Elems(Append(s, t)) = Elems(s) \cup {t}
<1>0. s \in Seq(S) /\ Len(s) \in Nat
  BY ListElems
<1>1. /\ SubSeq(s, 1, 0) = <<>> /\ SubSeq(s, 1, Len(s)) = s /\ SubSeq(s, Len(s) + 1, Len(s)) = <<>>
  BY <1>0, SubSeqEmpty, SubSeqFull
<1>2. InsertBefore(s, 1, t) = <<t>> \o s
  BY <1>0, <1>1, ConcatEmptySeq DEF InsertBefore
<1>3. InsertBefore(s, Len(s) + 1, t) = Append(s, t)
  <2>1. Append(s, t) = s \o <<t>> /\ s \o <<t>> \in Seq(S)
    BY <1>0, AppendIsConcat, ConcatProperties
  <2>2. (s \o <<t>>) \o <<>> = s \o <<t>>
    BY <2>1, ConcatEmptySeq
  <2>3. Len(s) + 1 - 1 = Len(s)
    BY <1>0
  <2>4. SubSeq(s, 1, Len(s) + 1 - 1) = s
    BY <1>1, <2>3
  <2>5. InsertBefore(s, Len(s) + 1, t)
            = (SubSeq(s, 1, Len(s) + 1 - 1) \o <<t>>) \o SubSeq(s, Len(s) + 1, Len(s))
    BY DEF InsertBefore
  <2> QED
    BY <1>1, <2>1, <2>2, <2>4, <2>5
<1>4. 1 \in 1..(Len(s) + 1) /\ Len(s) + 1 \in 1..(Len(s) + 1)
  BY <1>0
<1>5. ASSUME NEW n \in 1..(Len(s) + 1)
      PROVE  InsertBefore(s, n, t) \in Lists1(S) /\ Elems(InsertBefore(s, n, t)) = Elems(s) \cup {t}
  BY ListInsert
<1> QED
  BY <1>2, <1>3, <1>4, <1>5, Zenon

(* The head of a list is taken off. *)
LEMMA ListPop ==
    ASSUME NEW S, NEW s \in Lists1(S), s # <<>>
    PROVE  Tail(s) \in Lists1(S) /\ Elems(Tail(s)) = Elems(s) \ {Head(s)}
<1> DEFINE w == Tail(s)
           L == Len(s)
<1>1. /\ w \in Seq(S) /\ Len(w) = L - 1 /\ Head(s) = s[1] /\ L # 0
      /\ \A i \in 1..(L - 1) : w[i] = s[i + 1]
  BY ListElems, EmptySeq, HeadTailProperties
<1>2. /\ \A i, j \in 1..L : s[i] = s[j] => i = j
      /\ \A x : x \in Elems(s) <=> \E i \in 1..L : s[i] = x
  BY ListElems DEF Lists1
<1> HIDE DEF w, L
<1>0. L \in Nat
  BY ListElems DEF L
<1>3. w \in Lists1(S)
  <2> SUFFICES ASSUME NEW i \in 1..(L - 1), NEW j \in 1..(L - 1), w[i] = w[j] PROVE i = j
    BY <1>1 DEF Lists1
  <2> QED
    BY <1>0, <1>1, <1>2
<1>4. \A x : x \in Elems(w) <=> \E i \in 1..(L - 1) : w[i] = x
  BY <1>1, <1>3, ListElems
<1>5. ASSUME NEW x \in Elems(w) PROVE x \in Elems(s) \ {Head(s)}
  <2>1. PICK i \in 1..(L - 1) : w[i] = x
    BY <1>4, <1>5
  <2> QED
    BY <1>0, <1>1, <1>2, <2>1
<1>6. ASSUME NEW x \in Elems(s) \ {Head(s)} PROVE x \in Elems(w)
  <2>1. PICK i \in 1..L : s[i] = x
    BY <1>2, <1>6
  <2>2. i - 1 \in 1..(L - 1) /\ w[i - 1] = x
    BY <1>0, <1>1, <2>1
  <2> QED
    BY <1>4, <2>2
<1> QED
  BY <1>3, <1>5, <1>6 DEF w

----------------------------------------------------------------------------
(* Kernel states. *)
Statuses == {"init", "ready", "running", "suspend", "close", "freed"}
Errors   == {"EOK", "EINTR", "ETIMEOUT", "ERROR"}

KernelState ==
    [table : [Prios -> Lists1(Threads)], group : SUBSET Prios, cur : Threads, nest : Nat,
     stat : [Threads -> Statuses], yield : SUBSET Threads, prio : [Threads -> Prios],
     slice : [Threads -> 1..InitTick], error : [Threads -> Errors],
     timers : Lists1(Threads), left : [Threads -> Nat],
     waitq : [Queues -> Lists1(Threads)], defunct : Lists1(Threads), isr : BOOLEAN]

(* what taking threads off lists and putting them on leaves alone *)
SameCore(kk, r) ==
    /\ r.cur = kk.cur /\ r.nest = kk.nest /\ r.isr = kk.isr
    /\ r.yield = kk.yield /\ r.prio = kk.prio /\ r.slice = kk.slice /\ r.error = kk.error

(* t is on no list but, perhaps, the timer list *)
Off(kk, t) ==
    /\ \A p \in Prios : t \notin Elems(kk.table[p])
    /\ \A q \in Queues : t \notin Elems(kk.waitq[q])
    /\ t \notin Elems(kk.defunct)

GroupExact(kk) == kk.group = {p \in Prios : Elems(kk.table[p]) # {}}

QueuesApart(kk) ==
    \A q, r \in Queues : q # r => Elems(kk.waitq[q]) \cap Elems(kk.waitq[r]) = {}

(* the lists t is on are those of its state *)
Agrees(kk, t) ==
    /\ \A p \in Prios : t \in Elems(kk.table[p]) <=> (kk.stat[t] = "ready" /\ kk.prio[t] = p)
    /\ \A q \in Queues : t \in Elems(kk.waitq[q]) => kk.stat[t] = "suspend"
    /\ t \in Elems(kk.defunct) <=> kk.stat[t] = "close"
    /\ t \in Elems(kk.timers) => kk.stat[t] = "suspend"

(* The bitmap is exact, and lists and states agree but for the threads in  *)
(* X, which a kernel function has taken off their lists and not put back.  *)
ExactBut(kk, X) ==
    /\ GroupExact(kk) /\ QueuesApart(kk)
    /\ \A t \in Threads \ X : Agrees(kk, t)
    /\ \A t \in X : Off(kk, t)

(* rt_list_remove takes a thread off its list and does nothing else. *)
LEMMA ListRemove ==
    ASSUME NEW kk \in KernelState, NEW t \in Threads
    PROVE  LET r == rt_list_remove(kk, t)
           IN /\ r \in KernelState
              /\ SameCore(kk, r) /\ r.group = kk.group /\ r.stat = kk.stat /\ r.timers = kk.timers /\ r.left = kk.left
              /\ \A p \in Prios : Elems(r.table[p]) = Elems(kk.table[p]) \ {t}
              /\ \A q \in Queues : Elems(r.waitq[q]) = Elems(kk.waitq[q]) \ {t}
              /\ \A q \in Queues : t \notin Elems(kk.waitq[q]) => r.waitq[q] = kk.waitq[q]
              /\ Elems(r.defunct) = Elems(kk.defunct) \ {t}
<1> DEFINE r == rt_list_remove(kk, t)
<1>1. /\ r.table = [p \in Prios |-> Without(kk.table[p], t)]
      /\ r.waitq = [q \in Queues |-> Without(kk.waitq[q], t)]
      /\ r.defunct = Without(kk.defunct, t)
      /\ r = [kk EXCEPT !.table = r.table, !.waitq = r.waitq, !.defunct = r.defunct]
      /\ SameCore(kk, r) /\ r.group = kk.group /\ r.stat = kk.stat /\ r.timers = kk.timers /\ r.left = kk.left
  BY DEF rt_list_remove, KernelState, SameCore
<1>2. /\ kk.table \in [Prios -> Lists1(Threads)] /\ kk.waitq \in [Queues -> Lists1(Threads)]
      /\ kk.defunct \in Lists1(Threads)
  BY DEF KernelState, SameCore
<1> HIDE DEF r
<1>3. \A p \in Prios : r.table[p] \in Lists1(Threads) /\ Elems(r.table[p]) = Elems(kk.table[p]) \ {t}
  BY <1>1, <1>2, ListWithout
<1>4. \A q \in Queues : r.waitq[q] \in Lists1(Threads) /\ Elems(r.waitq[q]) = Elems(kk.waitq[q]) \ {t}
  BY <1>1, <1>2, ListWithout
<1>8. \A q \in Queues : t \notin Elems(kk.waitq[q]) => r.waitq[q] = kk.waitq[q]
  BY <1>1 DEF Without
<1>5. r.defunct \in Lists1(Threads) /\ Elems(r.defunct) = Elems(kk.defunct) \ {t}
  BY <1>1, <1>2, ListWithout
<1>6. /\ r.table \in [Prios -> Lists1(Threads)] /\ r.waitq \in [Queues -> Lists1(Threads)]
  BY <1>1, <1>3, <1>4
<1>7. r \in KernelState
  BY <1>1, <1>5, <1>6 DEF KernelState, SameCore
<1> QED
  BY <1>1, <1>3, <1>4, <1>5, <1>7, <1>8 DEF r

(* Taking a thread that is not ready off its list leaves the bitmap exact. *)
LEMMA ListRemoveExact ==
    ASSUME NEW kk \in KernelState, NEW t \in Threads, ExactBut(kk, {}), kk.stat[t] # "ready"
    PROVE  ExactBut(rt_list_remove(kk, t), {t})
<1> DEFINE r == rt_list_remove(kk, t)
<1>1. /\ SameCore(kk, r) /\ r.group = kk.group /\ r.stat = kk.stat /\ r.timers = kk.timers /\ r.left = kk.left
      /\ \A p \in Prios : Elems(r.table[p]) = Elems(kk.table[p]) \ {t}
      /\ \A q \in Queues : Elems(r.waitq[q]) = Elems(kk.waitq[q]) \ {t}
      /\ Elems(r.defunct) = Elems(kk.defunct) \ {t}
  BY ListRemove
<1> HIDE DEF r
<1>2. /\ r.group = kk.group /\ r.stat = kk.stat /\ r.prio = kk.prio /\ r.timers = kk.timers
  BY <1>1 DEF KernelState, SameCore
<1>3. \A p \in Prios : t \notin Elems(kk.table[p])
  BY DEF ExactBut, Agrees
<1>4. GroupExact(r) /\ QueuesApart(r)
  <2>1. \A p \in Prios : Elems(r.table[p]) = Elems(kk.table[p])
    BY <1>1, <1>3
  <2>2. GroupExact(r)
    BY <1>2, <2>1 DEF ExactBut, GroupExact
  <2>3. QueuesApart(r)
    BY <1>1 DEF ExactBut, QueuesApart
  <2> QED
    BY <2>2, <2>3
<1>5. ASSUME NEW u \in Threads \ {t} PROVE Agrees(r, u)
  BY <1>1, <1>2 DEF ExactBut, Agrees
<1>6. Off(r, t)
  BY <1>1 DEF Off
<1> QED
  BY <1>4, <1>5, <1>6 DEF ExactBut, r

(* rt_schedule_remove_thread also clears the bit of a list it empties.     *)
LEMMA ScheduleRemove ==
    ASSUME NEW kk \in KernelState, NEW t \in Threads
    PROVE  LET r == rt_schedule_remove_thread(kk, t)
           IN /\ r \in KernelState
              /\ SameCore(kk, r) /\ r.stat = kk.stat /\ r.timers = kk.timers /\ r.left = kk.left
              /\ \A p \in Prios : Elems(r.table[p]) = Elems(kk.table[p]) \ {t}
              /\ \A q \in Queues : Elems(r.waitq[q]) = Elems(kk.waitq[q]) \ {t}
              /\ \A q \in Queues : t \notin Elems(kk.waitq[q]) => r.waitq[q] = kk.waitq[q]
              /\ Elems(r.defunct) = Elems(kk.defunct) \ {t}
              /\ r.group = IF Elems(r.table[kk.prio[t]]) = {} THEN kk.group \ {kk.prio[t]}
                                                              ELSE kk.group
<1> DEFINE l == rt_list_remove(kk, t)
           r == rt_schedule_remove_thread(kk, t)
<1>1. /\ l \in KernelState
      /\ SameCore(kk, l) /\ l.group = kk.group /\ l.stat = kk.stat /\ l.timers = kk.timers /\ l.left = kk.left
      /\ \A p \in Prios : Elems(l.table[p]) = Elems(kk.table[p]) \ {t}
      /\ \A q \in Queues : Elems(l.waitq[q]) = Elems(kk.waitq[q]) \ {t}
      /\ \A q \in Queues : t \notin Elems(kk.waitq[q]) => l.waitq[q] = kk.waitq[q]
      /\ Elems(l.defunct) = Elems(kk.defunct) \ {t}
  BY ListRemove
<1>2. r = IF l.table[l.prio[t]] = <<>> THEN [l EXCEPT !.group = @ \ {l.prio[t]}] ELSE l
  BY DEF rt_schedule_remove_thread
<1> HIDE DEF l, r
<1>3. l.prio = kk.prio /\ kk.prio[t] \in Prios /\ l.group = kk.group
  BY <1>1 DEF KernelState, SameCore
<1>4. l.table[kk.prio[t]] = <<>> <=> Elems(l.table[kk.prio[t]]) = {}
  <2>1. l.table[kk.prio[t]] \in Lists1(Threads)
    BY <1>1, <1>3 DEF KernelState, SameCore
  <2> QED
    BY <2>1, ListElems
<1>5. /\ r \in KernelState
      /\ r.table = l.table /\ r.waitq = l.waitq /\ r.defunct = l.defunct
      /\ r.group = IF l.table[l.prio[t]] = <<>> THEN kk.group \ {l.prio[t]} ELSE kk.group
  BY <1>1, <1>2, <1>3 DEF KernelState, SameCore
<1>6. SameCore(kk, r) /\ r.stat = kk.stat /\ r.timers = kk.timers /\ r.left = kk.left
  BY <1>1, <1>2 DEF KernelState, SameCore
<1> QED
  BY <1>1, <1>3, <1>4, <1>5, <1>6 DEF r

LEMMA ScheduleRemoveExact ==
    ASSUME NEW kk \in KernelState, NEW t \in Threads, ExactBut(kk, {})
    PROVE  ExactBut(rt_schedule_remove_thread(kk, t), {t})
<1> DEFINE r == rt_schedule_remove_thread(kk, t)
<1>1. /\ SameCore(kk, r) /\ r.stat = kk.stat /\ r.timers = kk.timers /\ r.left = kk.left
      /\ \A p \in Prios : Elems(r.table[p]) = Elems(kk.table[p]) \ {t}
      /\ \A q \in Queues : Elems(r.waitq[q]) = Elems(kk.waitq[q]) \ {t}
      /\ Elems(r.defunct) = Elems(kk.defunct) \ {t}
      /\ r.group = IF Elems(r.table[kk.prio[t]]) = {} THEN kk.group \ {kk.prio[t]} ELSE kk.group
  BY ScheduleRemove, ZenonT(40)
<1> HIDE DEF r
<1>2. /\ r.stat = kk.stat /\ r.prio = kk.prio /\ r.timers = kk.timers /\ kk.prio[t] \in Prios
  BY <1>1 DEF KernelState, SameCore
<1>3. \A p \in Prios : t \in Elems(kk.table[p]) => p = kk.prio[t]
  BY DEF ExactBut, Agrees
<1>4. GroupExact(r) /\ QueuesApart(r)
  BY <1>1, <1>2, <1>3, SMTT(20) DEF ExactBut, GroupExact, QueuesApart
<1>5. ASSUME NEW u \in Threads \ {t} PROVE Agrees(r, u)
  BY <1>1, <1>2 DEF ExactBut, Agrees
<1>6. Off(r, t)
  BY <1>1 DEF Off
<1> QED
  BY <1>4, <1>5, <1>6 DEF ExactBut, r

(* What agrees in these fields is as exact. *)
LEMMA ExactFrame ==
    ASSUME NEW kk, NEW r, NEW X,
           ExactBut(kk, X),
           r.table = kk.table, r.group = kk.group, r.waitq = kk.waitq, r.defunct = kk.defunct,
           Elems(r.timers) \subseteq Elems(kk.timers),
           \A u \in Threads \ X : r.stat[u] = kk.stat[u] /\ r.prio[u] = kk.prio[u]
    PROVE  ExactBut(r, X)
<1>1. GroupExact(r) /\ QueuesApart(r)
  BY DEF ExactBut, GroupExact, QueuesApart
<1>2. ASSUME NEW u \in Threads \ X PROVE Agrees(r, u)
  BY DEF ExactBut, Agrees
<1>3. ASSUME NEW u \in X PROVE Off(r, u)
  BY DEF ExactBut, Off
<1> QED
  BY <1>1, <1>2, <1>3 DEF ExactBut

(* A thread in a state that has no list may be left out, and one that is   *)
(* on no list may be taken in when its state has none.                     *)
LEMMA LeaveOut ==
    ASSUME NEW kk, NEW t \in Threads, ExactBut(kk, {}),
           kk.stat[t] \in {"init", "running", "freed"}
    PROVE  ExactBut(kk, {t}) /\ t \notin Elems(kk.timers)
<1>1. Off(kk, t) /\ t \notin Elems(kk.timers)
  BY DEF ExactBut, Agrees, Off
<1> QED
  BY <1>1 DEF ExactBut

LEMMA TakeIn ==
    ASSUME NEW kk, NEW t \in Threads, ExactBut(kk, {t}),
           kk.stat[t] \in {"init", "running", "suspend", "freed"},
           t \in Elems(kk.timers) => kk.stat[t] = "suspend"
    PROVE  ExactBut(kk, {})
<1>1. Agrees(kk, t)
  BY DEF ExactBut, Off, Agrees
<1> QED
  BY <1>1 DEF ExactBut

LEMMA TimerStop ==
    ASSUME NEW kk \in KernelState, NEW t \in Threads
    PROVE  LET r == rt_timer_stop(kk, t)
           IN /\ r \in KernelState
              /\ SameCore(kk, r) /\ r.table = kk.table /\ r.group = kk.group /\ r.stat = kk.stat /\ r.waitq = kk.waitq /\ r.defunct = kk.defunct
              /\ Elems(r.timers) = Elems(kk.timers) \ {t}
              /\ \A X : ExactBut(kk, X) => ExactBut(r, X)
<1> DEFINE r == rt_timer_stop(kk, t)
<1>1. /\ SameCore(kk, r) /\ r.table = kk.table /\ r.group = kk.group /\ r.stat = kk.stat /\ r.waitq = kk.waitq /\ r.defunct = kk.defunct
      /\ r = [kk EXCEPT !.timers = r.timers, !.left = r.left]
      /\ r.timers = Without(kk.timers, t) /\ r.left \in [Threads -> Nat]
  BY DEF rt_timer_stop, KernelState, SameCore
<1> HIDE DEF r
<1>2. r.timers \in Lists1(Threads) /\ Elems(r.timers) = Elems(kk.timers) \ {t}
  BY <1>1, ListWithout DEF KernelState, SameCore
<1>3. r \in KernelState
  BY <1>1, <1>2 DEF KernelState, SameCore
<1>4. /\ r.table = kk.table /\ r.group = kk.group /\ r.waitq = kk.waitq /\ r.defunct = kk.defunct
      /\ r.stat = kk.stat /\ r.prio = kk.prio
  BY <1>1 DEF KernelState, SameCore
<1>5. ASSUME NEW X, ExactBut(kk, X) PROVE ExactBut(r, X)
  BY <1>2, <1>4, <1>5, ExactFrame
<1> QED
  BY <1>1, <1>2, <1>3, <1>5 DEF r

(* The place found for a timer or a waiter is a place of the list. *)
LEMMA PlaceOf ==
    ASSUME NEW s, Len(s) \in Nat, DOMAIN s = 1..Len(s), NEW later \in SUBSET (DOMAIN s)
    PROVE  (IF later = {} THEN Len(s) + 1 ELSE CHOOSE i \in later : \A j \in later : i <= j)
             \in 1..(Len(s) + 1)
<1>1. CASE later = {}
  BY <1>1
<1>2. CASE later # {}
  <2>1. later \subseteq Nat
    OBVIOUS
  <2>2. \E i \in later : \A j \in later : i <= j
    BY <1>2, <2>1, SmallestOf
  <2> QED
    BY <1>2, <2>2
<1> QED
  BY <1>1, <1>2

LEMMA TimerStart ==
    ASSUME NEW kk \in KernelState, NEW t \in Threads, NEW n \in Nat, n > 0
    PROVE  LET r == rt_timer_start(kk, t, n)
           IN /\ r \in KernelState
              /\ SameCore(kk, r) /\ r.table = kk.table /\ r.group = kk.group /\ r.stat = kk.stat /\ r.waitq = kk.waitq /\ r.defunct = kk.defunct
              /\ Elems(r.timers) = Elems(kk.timers) \cup {t}
              /\ (kk.stat[t] = "suspend" /\ ExactBut(kk, {}) => ExactBut(r, {}))
<1> DEFINE r == rt_timer_start(kk, t, n)
           s == Without(kk.timers, t)
           later == {i \in DOMAIN s : kk.left[s[i]] > n}
           at == IF later = {} THEN Len(s) + 1 ELSE CHOOSE i \in later : \A j \in later : i <= j
<1>1. /\ SameCore(kk, r) /\ r.table = kk.table /\ r.group = kk.group /\ r.stat = kk.stat /\ r.waitq = kk.waitq /\ r.defunct = kk.defunct
      /\ r = [kk EXCEPT !.timers = r.timers, !.left = r.left]
      /\ r.timers = InsertBefore(s, at, t) /\ r.left \in [Threads -> Nat]
  BY DEF rt_timer_start, KernelState, SameCore
<1> HIDE DEF r
<1>2. s \in Lists1(Threads) /\ Elems(s) = Elems(kk.timers) \ {t}
  BY ListWithout DEF KernelState, SameCore
<1>3. at \in 1..(Len(s) + 1)
  <2>1. Len(s) \in Nat /\ DOMAIN s = 1..Len(s) /\ later \in SUBSET (DOMAIN s)
    BY <1>2, ListElems
  <2> HIDE DEF s, later
  <2> QED
    BY <2>1, PlaceOf
<1> HIDE DEF s, at
<1>4. r.timers \in Lists1(Threads) /\ Elems(r.timers) = Elems(kk.timers) \cup {t}
  <2>1. t \notin Elems(s)
    BY <1>2
  <2>2. r.timers \in Lists1(Threads) /\ Elems(r.timers) = Elems(s) \cup {t}
    BY <1>1, <1>2, <1>3, <2>1, ListInsert
  <2> QED
    BY <1>2, <2>2
<1>5. r \in KernelState
  BY <1>1, <1>4 DEF KernelState, SameCore
<1>6. /\ r.table = kk.table /\ r.group = kk.group /\ r.waitq = kk.waitq /\ r.defunct = kk.defunct
      /\ r.stat = kk.stat /\ r.prio = kk.prio
  BY <1>1 DEF KernelState, SameCore
<1>7. ASSUME kk.stat[t] = "suspend", ExactBut(kk, {}) PROVE ExactBut(r, {})
  <2>1. GroupExact(r) /\ QueuesApart(r)
    BY <1>6, <1>7 DEF ExactBut, GroupExact, QueuesApart
  <2>2. ASSUME NEW u \in Threads PROVE Agrees(r, u)
    BY <1>4, <1>6, <1>7 DEF ExactBut, Agrees
  <2> QED
    BY <2>1, <2>2 DEF ExactBut
<1> QED
  BY <1>1, <1>4, <1>5, <1>7 DEF r

(* rt_schedule_insert_thread puts a thread that is on no list on the list  *)
(* of its priority, or lets it run on when it is the current one.          *)
LEMMA ScheduleInsert ==
    ASSUME NEW kk \in KernelState, NEW t \in Threads, ExactBut(kk, {t}), t \notin Elems(kk.timers)
    PROVE  LET r == rt_schedule_insert_thread(kk, t)
           IN /\ r \in KernelState /\ ExactBut(r, {})
              /\ SameCore(kk, r) /\ r.timers = kk.timers /\ r.left = kk.left /\ r.waitq = kk.waitq /\ r.defunct = kk.defunct
              /\ r.stat = [kk.stat EXCEPT ![t] = IF t = kk.cur THEN "running" ELSE "ready"]
              /\ r.group = IF t = kk.cur THEN kk.group ELSE kk.group \cup {kk.prio[t]}
<1> DEFINE r == rt_schedule_insert_thread(kk, t)
<1>1. CASE t = kk.cur
  <2>1. r = [kk EXCEPT !.stat[t] = "running"]
    BY <1>1 DEF rt_schedule_insert_thread
  <2> HIDE DEF r
  <2>2. /\ r \in KernelState
        /\ SameCore(kk, r) /\ r.timers = kk.timers /\ r.left = kk.left /\ r.waitq = kk.waitq /\ r.defunct = kk.defunct
        /\ r.stat = [kk.stat EXCEPT ![t] = "running"] /\ r.stat[t] = "running"
        /\ r.table = kk.table /\ r.group = kk.group /\ r.waitq = kk.waitq
        /\ r.defunct = kk.defunct /\ r.timers = kk.timers /\ r.prio = kk.prio
        /\ \A u \in Threads \ {t} : r.stat[u] = kk.stat[u]
    BY <2>1 DEF KernelState, Statuses, SameCore
  <2>3. ExactBut(r, {t})
    BY <2>2, ExactFrame
  <2>4. ExactBut(r, {})
    BY <2>2, <2>3, TakeIn
  <2> QED
    BY <1>1, <2>2, <2>4 DEF r
<1>2. CASE t # kk.cur
  <2> DEFINE p == kk.prio[t]
             old == kk.table[p]
             new == IF t \in kk.yield THEN Append(old, t) ELSE <<t>> \o old
  <2>1. r = [kk EXCEPT !.stat[t] = "ready", !.table[p] = new, !.group = @ \cup {p}]
    BY <1>2 DEF rt_schedule_insert_thread
  <2>2. p \in Prios /\ old \in Lists1(Threads) /\ t \notin Elems(old)
    BY DEF KernelState, SameCore, ExactBut, Off
  <2>3. new \in Lists1(Threads) /\ Elems(new) = Elems(old) \cup {t}
    <3> HIDE DEF old
    <3>2. /\ <<t>> \o old \in Lists1(Threads) /\ Elems(<<t>> \o old) = Elems(old) \cup {t}
          /\ Append(old, t) \in Lists1(Threads) /\ Elems(Append(old, t)) = Elems(old) \cup {t}
      BY <2>2, ListPush
    <3> QED
      BY <3>2, Zenon
  <2> HIDE DEF r, new
  <2>4. /\ r \in KernelState
        /\ SameCore(kk, r) /\ r.timers = kk.timers /\ r.left = kk.left /\ r.waitq = kk.waitq /\ r.defunct = kk.defunct
        /\ r.stat = [kk.stat EXCEPT ![t] = "ready"] /\ r.stat[t] = "ready"
        /\ r.table = [kk.table EXCEPT ![p] = new] /\ r.group = kk.group \cup {p}
        /\ r.waitq = kk.waitq /\ r.defunct = kk.defunct /\ r.timers = kk.timers /\ r.prio = kk.prio
        /\ \A u \in Threads \ {t} : r.stat[u] = kk.stat[u]
    BY <2>1, <2>2, <2>3 DEF KernelState, Statuses, SameCore
  <2>5. \A z \in Prios : r.table[z] = IF z = p THEN new ELSE kk.table[z]
    BY <2>2, <2>4 DEF KernelState, SameCore
  <2>6. /\ Elems(r.table[p]) = Elems(kk.table[p]) \cup {t}
        /\ \A z \in Prios \ {p} : Elems(r.table[z]) = Elems(kk.table[z])
    BY <2>2, <2>3, <2>5
  <2>7. GroupExact(r)
    BY <2>2, <2>4, <2>6 DEF ExactBut, GroupExact
  <2>8. QueuesApart(r)
    BY <2>4 DEF ExactBut, QueuesApart
  <2> HIDE DEF p
  <2>9. ASSUME NEW u \in Threads \ {t} PROVE Agrees(r, u)
    <3>1. Agrees(kk, u) /\ r.stat[u] = kk.stat[u]
      BY <2>4 DEF ExactBut
    <3>2. \A z \in Prios : u \in Elems(r.table[z]) <=> u \in Elems(kk.table[z])
      BY <2>6
    <3> QED
      BY <2>4, <3>1, <3>2 DEF Agrees
  <2>10. Agrees(r, t)
    <3>1. Off(kk, t)
      BY DEF ExactBut
    <3>2. \A z \in Prios : t \in Elems(r.table[z]) <=> z = p
      BY <2>2, <2>6, <3>1 DEF Off
    <3> QED
      BY <2>4, <3>1, <3>2 DEF Agrees, Off, p
  <2>11. ExactBut(r, {})
    BY <2>7, <2>8, <2>9, <2>10 DEF ExactBut
  <2> QED
    BY <1>2, <2>4, <2>11 DEF r, p
<1> QED
  BY <1>1, <1>2

(* rt_thread_suspend *)
LEMMA ThreadSuspendEffect ==
    ASSUME NEW kk \in KernelState, NEW t \in Threads, ExactBut(kk, {})
    PROVE  LET r == rt_thread_suspend(kk, t)
           IN /\ r \in KernelState /\ ExactBut(r, {}) /\ Off(r, t)
              /\ SameCore(kk, r)
              /\ r.stat = [kk.stat EXCEPT ![t] = "suspend"]
              /\ r.group \subseteq kk.group
              /\ \A q \in Queues : Elems(r.waitq[q]) = Elems(kk.waitq[q]) \ {t}
              /\ \A q \in Queues : t \notin Elems(kk.waitq[q]) => r.waitq[q] = kk.waitq[q]
              /\ Elems(r.timers) = Elems(kk.timers) \ {t}
<1> DEFINE a == rt_schedule_remove_thread(kk, t)
           b == rt_timer_stop(a, t)
           r == rt_thread_suspend(kk, t)
<1>1. /\ a \in KernelState /\ ExactBut(a, {t})
      /\ SameCore(kk, a) /\ a.stat = kk.stat /\ a.timers = kk.timers /\ a.left = kk.left
      /\ \A q \in Queues : Elems(a.waitq[q]) = Elems(kk.waitq[q]) \ {t}
      /\ \A q \in Queues : t \notin Elems(kk.waitq[q]) => a.waitq[q] = kk.waitq[q]
      /\ a.group = IF Elems(a.table[kk.prio[t]]) = {} THEN kk.group \ {kk.prio[t]} ELSE kk.group
  BY ScheduleRemove, ScheduleRemoveExact, ZenonT(40)
<1> HIDE DEF a
<1>2. /\ b \in KernelState /\ ExactBut(b, {t})
      /\ SameCore(a, b) /\ b.table = a.table /\ b.group = a.group /\ b.stat = a.stat /\ b.waitq = a.waitq /\ b.defunct = a.defunct
      /\ Elems(b.timers) = Elems(a.timers) \ {t}
  BY <1>1, TimerStop
<1>3. r = [b EXCEPT !.stat[t] = "suspend"]
  BY DEF rt_thread_suspend, a
<1> HIDE DEF b, r
<1>4. /\ r \in KernelState
      /\ r.table = b.table /\ r.group = b.group /\ r.waitq = b.waitq /\ r.defunct = b.defunct
      /\ r.timers = b.timers /\ r.prio = b.prio
      /\ \A u \in Threads \ {t} : r.stat[u] = b.stat[u]
      /\ r.stat = [b.stat EXCEPT ![t] = "suspend"] /\ r.stat[t] = "suspend"
  BY <1>2, <1>3 DEF KernelState, Statuses, SameCore
<1>5. ExactBut(r, {t})
  BY <1>2, <1>4, ExactFrame
<1>6. ExactBut(r, {}) /\ Off(r, t)
  BY <1>4, <1>5, TakeIn DEF ExactBut
<1>7. /\ SameCore(kk, r)
  BY <1>1, <1>2, <1>3 DEF KernelState, SameCore
<1>8. b.stat = kk.stat /\ b.group = a.group /\ b.waitq = a.waitq /\ a.timers = kk.timers
  BY <1>1, <1>2 DEF KernelState, SameCore
<1> QED
  BY <1>1, <1>2, <1>4, <1>6, <1>7, <1>8 DEF r

(* rt_thread_resume does nothing to a thread that is not suspended, and    *)
(* makes one that is ready, or running when it is the current one.         *)
LEMMA ThreadResumeEffect ==
    ASSUME NEW kk \in KernelState, NEW t \in Threads, ExactBut(kk, {}), kk.stat[t] = "suspend"
    PROVE  LET r == rt_thread_resume(kk, t)
           IN /\ r \in KernelState /\ ExactBut(r, {})
              /\ SameCore(kk, r)
              /\ r.stat = [kk.stat EXCEPT ![t] = IF t = kk.cur THEN "running" ELSE "ready"]
              /\ \A q \in Queues : Elems(r.waitq[q]) = Elems(kk.waitq[q]) \ {t}
              /\ \A q \in Queues : t \notin Elems(kk.waitq[q]) => r.waitq[q] = kk.waitq[q]
              /\ Elems(r.timers) = Elems(kk.timers) \ {t}
<1> DEFINE a == rt_list_remove(kk, t)
           b == rt_timer_stop(a, t)
           r == rt_thread_resume(kk, t)
<1>1. /\ a \in KernelState /\ ExactBut(a, {t})
      /\ SameCore(kk, a) /\ a.group = kk.group /\ a.stat = kk.stat /\ a.timers = kk.timers /\ a.left = kk.left
      /\ \A q \in Queues : Elems(a.waitq[q]) = Elems(kk.waitq[q]) \ {t}
      /\ \A q \in Queues : t \notin Elems(kk.waitq[q]) => a.waitq[q] = kk.waitq[q]
  BY ListRemove, ListRemoveExact
<1> HIDE DEF a
<1>2. /\ b \in KernelState /\ ExactBut(b, {t})
      /\ SameCore(a, b) /\ b.table = a.table /\ b.group = a.group /\ b.stat = a.stat /\ b.waitq = a.waitq /\ b.defunct = a.defunct
      /\ Elems(b.timers) = Elems(a.timers) \ {t}
  BY <1>1, TimerStop
<1>3. r = rt_schedule_insert_thread(b, t)
  BY DEF rt_thread_resume, a
<1> HIDE DEF b, r
<1>4. /\ r \in KernelState /\ ExactBut(r, {})
      /\ SameCore(b, r) /\ r.timers = b.timers /\ r.left = b.left /\ r.waitq = b.waitq /\ r.defunct = b.defunct
      /\ r.stat = [b.stat EXCEPT ![t] = IF t = b.cur THEN "running" ELSE "ready"]
  BY <1>2, <1>3, ScheduleInsert
<1>5. b.stat = kk.stat /\ b.cur = kk.cur /\ r.waitq = a.waitq /\ a.timers = kk.timers
      /\ r.timers = b.timers
  BY <1>1, <1>2, <1>4 DEF KernelState, SameCore
<1>6. SameCore(kk, r)
  BY <1>1, <1>2, <1>4 DEF KernelState, SameCore
<1> QED
  BY <1>1, <1>2, <1>4, <1>5, <1>6 DEF r

(* The last part of rt_schedule: the thread to run leaves the ready table. *)
LEMMA SwitchTo ==
    ASSUME NEW kk \in KernelState, NEW t \in Threads, ExactBut(kk, {}),
           kk.stat[t] \in {"ready", "running"}
    PROVE  LET r == [rt_schedule_remove_thread(kk, t) EXCEPT !.stat[t] = "running"]
           IN /\ r \in KernelState /\ ExactBut(r, {})
              /\ SameCore(kk, r) /\ r.timers = kk.timers /\ r.left = kk.left /\ r.waitq = kk.waitq
              /\ r.stat = [kk.stat EXCEPT ![t] = "running"]
              /\ r.group \subseteq kk.group
<1> DEFINE a == rt_schedule_remove_thread(kk, t)
           r == [a EXCEPT !.stat[t] = "running"]
<1>1. /\ a \in KernelState /\ ExactBut(a, {t})
      /\ SameCore(kk, a) /\ a.stat = kk.stat /\ a.timers = kk.timers /\ a.left = kk.left
      /\ \A q \in Queues : Elems(a.waitq[q]) = Elems(kk.waitq[q]) \ {t}
      /\ \A q \in Queues : t \notin Elems(kk.waitq[q]) => a.waitq[q] = kk.waitq[q]
      /\ a.group = IF Elems(a.table[kk.prio[t]]) = {} THEN kk.group \ {kk.prio[t]} ELSE kk.group
  BY ScheduleRemove, ScheduleRemoveExact, ZenonT(40)
<1>2. t \notin Elems(kk.timers) /\ \A q \in Queues : t \notin Elems(kk.waitq[q])
  BY DEF ExactBut, Agrees
<1> HIDE DEF a
<1>3. a.waitq = kk.waitq
  BY <1>1, <1>2 DEF KernelState
<1>4. /\ r \in KernelState
      /\ r.table = a.table /\ r.group = a.group /\ r.waitq = a.waitq /\ r.defunct = a.defunct
      /\ r.timers = a.timers /\ r.left = a.left /\ SameCore(a, r)
      /\ \A u \in Threads \ {t} : r.stat[u] = a.stat[u]
      /\ r.stat = [a.stat EXCEPT ![t] = "running"] /\ r.stat[t] = "running"
  BY <1>1 DEF KernelState, Statuses, SameCore
<1> HIDE DEF r
<1>5. SameCore(kk, r)
  BY <1>1, <1>4 DEF SameCore
<1>6. ExactBut(r, {t})
  BY <1>1, <1>4, ExactFrame DEF SameCore
<1>7. ExactBut(r, {})
  BY <1>1, <1>2, <1>4, <1>6, TakeIn
<1> QED
  BY <1>1, <1>3, <1>4, <1>5, <1>7 DEF r, a

(* What rt_schedule leaves alone. *)
SameObjects(kk, r) ==
    /\ r.nest = kk.nest /\ r.isr = kk.isr /\ r.prio = kk.prio /\ r.slice = kk.slice
    /\ r.error = kk.error /\ r.timers = kk.timers /\ r.left = kk.left /\ r.waitq = kk.waitq

(* only the current thread is in the state RUNNING *)
OneRuns(kk) == \A t \in Threads : kk.stat[t] = "running" => t = kk.cur

(* rt_schedule takes the head of the most urgent list, unless the current  *)
(* thread may go on; the thread it puts back is the one that ran.          *)
LEMMA ScheduleEffect ==
    ASSUME NEW kk \in KernelState, ExactBut(kk, {}), MaxPrio \in Nat
    PROVE  LET r == rt_schedule(kk)
           IN /\ r \in KernelState /\ ExactBut(r, {})
              /\ SameObjects(kk, r)
              /\ \A t \in Threads : \/ r.stat[t] = kk.stat[t]
                                    \/ {r.stat[t], kk.stat[t]} \subseteq {"ready", "running"}
              /\ r.stat[r.cur] = "running" \/ (r = kk /\ (kk.nest # 0 \/ kk.group = {}))
              /\ r.cur # kk.cur => kk.stat[r.cur] = "ready"
              /\ OneRuns(kk) => OneRuns(r)
              /\ kk.nest = 0 => \A p \in r.group : r.prio[r.cur] <= p
<1> DEFINE r == rt_schedule(kk)
<1>1. CASE kk.nest # 0 \/ kk.group = {}
  <2>1. r = kk
    BY <1>1 DEF rt_schedule
  <2> QED
    BY <1>1, <2>1 DEF SameObjects
<1>2. CASE ~(kk.nest # 0 \/ kk.group = {})
  <2> DEFINE c == kk.cur
             highest == HighestReadyPriority(kk)
             h == Head(kk.table[highest])
             running == kk.stat[c] = "running"
             goesOn == running /\ (\/ kk.prio[c] < highest
                                   \/ kk.prio[c] = highest /\ c \notin kk.yield)
             to == IF goesOn THEN c ELSE h
             k1 == [kk EXCEPT !.yield = IF running THEN @ \ {c} ELSE @, !.cur = to]
             k2 == IF running /\ to # c THEN rt_schedule_insert_thread(k1, c) ELSE k1
  <2>1. r = [rt_schedule_remove_thread(k2, to) EXCEPT !.stat[to] = "running"]
    BY <1>2 DEF rt_schedule
  <2>2. highest \in kk.group /\ highest \in Prios /\ \A p \in kk.group : highest <= p
    <3>1. kk.group \subseteq Nat /\ kk.group \subseteq Prios
      BY DEF KernelState, Prios
    <3>2. \E p \in kk.group : \A q \in kk.group : p <= q
      BY <1>2, <3>1, SmallestOf
    <3> QED
      BY <3>1, <3>2 DEF HighestReadyPriority
  <2>3. h \in Threads /\ kk.stat[h] = "ready" /\ kk.prio[h] = highest
    <3>1. kk.table[highest] \in Lists1(Threads) /\ Elems(kk.table[highest]) # {}
      BY <2>2 DEF KernelState, ExactBut, GroupExact
    <3>2. h \in Elems(kk.table[highest]) /\ h \in Threads
      BY <3>1, ListElems
    <3> QED
      BY <2>2, <3>2 DEF ExactBut, Agrees
  <2>4. c \in Threads /\ kk.prio[c] \in Prios
    BY DEF KernelState
  <2> HIDE DEF highest, h, r
  <2>5. to \in Threads /\ ((to = c /\ running) \/ to = h)
    BY <2>3, <2>4
  <2>6. /\ k1 \in KernelState /\ k1.cur = to
        /\ k1.table = kk.table /\ k1.group = kk.group /\ k1.waitq = kk.waitq
        /\ k1.defunct = kk.defunct /\ k1.timers = kk.timers /\ k1.stat = kk.stat
        /\ k1.prio = kk.prio
        /\ SameObjects(kk, k1)
    BY <2>5 DEF KernelState, SameObjects
  <2>7. ExactBut(k1, {})
    <3> HIDE DEF k1
    <3> QED
      BY <2>6, ExactFrame
  <2> HIDE DEF k1
  <2>8. /\ k2 \in KernelState /\ ExactBut(k2, {}) /\ SameObjects(kk, k2) /\ k2.cur = to
        /\ k2.group \subseteq kk.group \cup {kk.prio[c]}
        /\ k2.stat = IF running /\ to # c THEN [kk.stat EXCEPT ![c] = "ready"] ELSE kk.stat
        /\ to = c => k2.group = kk.group
        /\ ~running => k2.group = kk.group
    <3>1. CASE running /\ to # c
      <4>1. ExactBut(k1, {c}) /\ c \notin Elems(k1.timers)
        BY <2>4, <2>6, <2>7, <3>1, LeaveOut
      <4>2. k2 = rt_schedule_insert_thread(k1, c)
        BY <3>1
      <4> HIDE DEF k2
      <4>3. /\ k2 \in KernelState /\ ExactBut(k2, {})
            /\ SameCore(k1, k2) /\ k2.timers = k1.timers /\ k2.left = k1.left /\ k2.waitq = k1.waitq
            /\ k2.stat = [k1.stat EXCEPT ![c] = IF c = k1.cur THEN "running" ELSE "ready"]
            /\ k2.group = IF c = k1.cur THEN k1.group ELSE k1.group \cup {k1.prio[c]}
        BY <2>4, <2>6, <4>1, <4>2, ScheduleInsert, SMTT(20)
      <4> HIDE DEF to
      <4> QED
        BY <2>6, <3>1, <4>3 DEF SameObjects, SameCore
    <3>2. CASE ~(running /\ to # c)
      BY <2>6, <2>7, <3>2
    <3> QED
      BY <3>1, <3>2
  <2> HIDE DEF k2
  <2>9. k2.stat[to] \in {"ready", "running"}
    BY <2>3, <2>4, <2>5, <2>8 DEF KernelState
  <2>10. /\ r \in KernelState /\ ExactBut(r, {})
         /\ SameCore(k2, r) /\ r.timers = k2.timers /\ r.left = k2.left /\ r.waitq = k2.waitq
         /\ r.stat = [k2.stat EXCEPT ![to] = "running"]
         /\ r.group \subseteq k2.group
    BY <2>1, <2>5, <2>8, <2>9, SwitchTo
  <2>11. SameObjects(kk, r) /\ r.cur = to
    BY <2>8, <2>10 DEF SameObjects, SameCore
  <2>12. kk.stat \in [Threads -> Statuses] /\ k2.stat \in [Threads -> Statuses]
    BY <2>8 DEF KernelState
  <2>13. r.stat[r.cur] = "running"
    BY <2>5, <2>10, <2>11, <2>12
  <2>14. r.cur # kk.cur => kk.stat[r.cur] = "ready"
    BY <2>3, <2>5, <2>11
  <2>15. ASSUME NEW t \in Threads
         PROVE  \/ r.stat[t] = kk.stat[t]
                \/ {r.stat[t], kk.stat[t]} \subseteq {"ready", "running"}
    <3> HIDE DEF to
    <3>1. r.stat[t] = IF t = to THEN "running" ELSE k2.stat[t]
      BY <2>5, <2>10, <2>12
    <3>2. k2.stat[t] = kk.stat[t] \/ (k2.stat[t] = "ready" /\ kk.stat[t] = "running")
      BY <2>4, <2>8, <2>12
    <3>3. t = to => kk.stat[t] \in {"ready", "running"}
      BY <2>3, <2>5
    <3> QED
      BY <3>1, <3>2, <3>3
  <2>16. ASSUME OneRuns(kk) PROVE OneRuns(r)
    <3> SUFFICES ASSUME NEW t \in Threads, r.stat[t] = "running", t # to PROVE FALSE
      BY <2>11 DEF OneRuns
    <3>1. k2.stat[t] = "running"
      BY <2>5, <2>10, <2>12
    <3>2. kk.stat[t] = "running" /\ (t = c => ~(running /\ to # c))
      BY <2>4, <2>8, <2>12, <3>1
    <3> QED
      BY <2>16, <3>2 DEF OneRuns
  <2>17. ASSUME NEW p \in r.group PROVE r.prio[r.cur] <= p
    <3>1. r.prio[r.cur] = kk.prio[to] /\ p \in k2.group
      BY <2>10, <2>11 DEF SameObjects
    <3>2. highest \in Int /\ kk.prio[c] \in Int
      BY <2>2, <2>4 DEF Prios
    <3>3. CASE goesOn
      <4>1. to = c /\ p \in kk.group /\ kk.prio[c] <= highest
        BY <2>8, <3>1, <3>2, <3>3
      <4>2. highest <= p /\ p \in Int
        BY <2>2, <4>1 DEF KernelState, Prios
      <4> QED
        BY <3>1, <3>2, <4>1, <4>2
    <3>4. CASE ~goesOn
      <4>1. to = h /\ kk.prio[to] = highest
        BY <2>3, <3>4
      <4>2. running => highest <= kk.prio[c]
        BY <3>2, <3>4
      <4>3. p \in kk.group \/ (p = kk.prio[c] /\ running)
        BY <2>8, <3>1
      <4> QED
        BY <2>2, <3>1, <4>1, <4>2, <4>3
    <3> QED
      BY <3>3, <3>4
  <2> QED
    BY <2>10, <2>11, <2>13, <2>14, <2>15, <2>16, <2>17 DEF r
<1> QED
  BY <1>1, <1>2

----------------------------------------------------------------------------
(* What holds of the kernel state between any two steps: besides the lists *)
(* being exact, the idle thread never waits, and the current thread is     *)
(* running unless it has just suspended or closed itself.                  *)
Sane(kk) ==
    /\ kk \in KernelState /\ ExactBut(kk, {}) /\ OneRuns(kk)
    /\ kk.stat[IdleThread] \in {"ready", "running"}
    /\ kk.stat[kk.cur] \in {"running", "suspend", "close"}

Suspended(kk) == {t \in Threads : kk.stat[t] = "suspend"}

(* The waiters of every queue but t stay where they are. *)
QueuesLose(kk, r, t) ==
    \A q \in Queues : /\ Elems(r.waitq[q]) = Elems(kk.waitq[q]) \ {t}
                      /\ t \notin Elems(kk.waitq[q]) => r.waitq[q] = kk.waitq[q]

(* Fields that only say something about a thread that is on no list. *)
LEMMA SaneFrame ==
    ASSUME NEW kk, NEW r, Sane(kk), r \in KernelState,
           r.table = kk.table, r.group = kk.group, r.waitq = kk.waitq, r.defunct = kk.defunct,
           r.timers = kk.timers, r.stat = kk.stat, r.prio = kk.prio, r.cur = kk.cur
    PROVE  Sane(r)
<1>1. ExactBut(r, {})
  BY ExactFrame DEF Sane
<1> QED
  BY <1>1 DEF Sane, OneRuns

LEMMA SaneSchedule ==
    ASSUME KernelAssumption, NEW kk, Sane(kk)
    PROVE  LET r == rt_schedule(kk)
           IN /\ Sane(r) /\ SameObjects(kk, r)
              /\ Suspended(r) = Suspended(kk)
              /\ kk.nest = 0 => /\ \A p \in r.group : r.prio[r.cur] <= p
                                /\ r.stat[r.cur] = "running"
              /\ r.cur # kk.cur => kk.nest = 0 /\ kk.stat[r.cur] = "ready"
              /\ \A t \in Threads : r.stat[t] = "close" <=> kk.stat[t] = "close"
              /\ \A t \in Threads : \/ r.stat[t] = kk.stat[t]
                                    \/ {r.stat[t], kk.stat[t]} \subseteq {"ready", "running"}
<1> DEFINE r == rt_schedule(kk)
<1>1. kk \in KernelState /\ ExactBut(kk, {}) /\ MaxPrio \in Nat /\ IdleThread \in Threads
  BY DEF Sane, KernelAssumption
<1>2. /\ r \in KernelState /\ ExactBut(r, {})
      /\ SameObjects(kk, r)
      /\ \A t \in Threads : \/ r.stat[t] = kk.stat[t]
                            \/ {r.stat[t], kk.stat[t]} \subseteq {"ready", "running"}
      /\ r.stat[r.cur] = "running" \/ (r = kk /\ (kk.nest # 0 \/ kk.group = {}))
      /\ r.cur # kk.cur => kk.stat[r.cur] = "ready"
      /\ OneRuns(kk) => OneRuns(r)
      /\ kk.nest = 0 => \A p \in r.group : r.prio[r.cur] <= p
  BY <1>1, ScheduleEffect
<1>7. r.cur # kk.cur => kk.nest = 0
  BY DEF rt_schedule
<1> HIDE DEF r
<1>3. Sane(r)
  BY <1>1, <1>2 DEF Sane
<1>4. \A t \in Threads : /\ r.stat[t] = "suspend" <=> kk.stat[t] = "suspend"
                         /\ r.stat[t] = "close" <=> kk.stat[t] = "close"
  BY <1>2
<1>5. Suspended(r) = Suspended(kk)
  BY <1>4 DEF Suspended
<1>6. kk.nest = 0 => r.stat[r.cur] = "running"
  <2>1. CASE kk.group = {}
    <3>1. kk.stat[IdleThread] # "ready"
      <4>1. Agrees(kk, IdleThread) /\ GroupExact(kk) /\ kk.prio \in [Threads -> Prios]
        BY <1>1 DEF ExactBut, KernelState
      <4> QED
        BY <1>1, <2>1, <4>1 DEF Agrees, GroupExact
    <3>2. kk.stat[kk.cur] = "running"
      BY <1>1, <3>1 DEF Sane, OneRuns
    <3>3. r = kk
      BY <2>1 DEF r, rt_schedule
    <3> QED
      BY <3>2, <3>3
  <2>2. CASE kk.group # {} /\ kk.nest = 0
    BY <1>2, <2>2
  <2> QED
    BY <2>1, <2>2
<1> QED
  BY <1>2, <1>3, <1>4, <1>5, <1>6, <1>7 DEF r

LEMMA SaneSuspend ==
    ASSUME KernelAssumption, NEW kk, Sane(kk), NEW t \in Threads \ {IdleThread}
    PROVE  LET r == rt_thread_suspend(kk, t)
           IN /\ Sane(r) /\ Off(r, t) /\ SameCore(kk, r)
              /\ Suspended(r) = Suspended(kk) \cup {t}
              /\ r.stat = [kk.stat EXCEPT ![t] = "suspend"]
              /\ r.group \subseteq kk.group
              /\ QueuesLose(kk, r, t)
              /\ Elems(r.timers) = Elems(kk.timers) \ {t}
<1> DEFINE r == rt_thread_suspend(kk, t)
<1>1. /\ r \in KernelState /\ ExactBut(r, {}) /\ Off(r, t)
      /\ SameCore(kk, r)
      /\ r.stat = [kk.stat EXCEPT ![t] = "suspend"]
      /\ r.group \subseteq kk.group
      /\ Elems(r.timers) = Elems(kk.timers) \ {t}
      /\ \A q \in Queues : Elems(r.waitq[q]) = Elems(kk.waitq[q]) \ {t}
      /\ \A q \in Queues : t \notin Elems(kk.waitq[q]) => r.waitq[q] = kk.waitq[q]
  BY ThreadSuspendEffect DEF Sane
<1> HIDE DEF r
<1>2. kk.stat \in [Threads -> Statuses] /\ kk.cur \in Threads /\ IdleThread \in Threads
  BY DEF Sane, KernelState, KernelAssumption
<1>3. \A u \in Threads : r.stat[u] = IF u = t THEN "suspend" ELSE kk.stat[u]
  BY <1>1, <1>2
<1>4. Sane(r)
  BY <1>1, <1>2, <1>3 DEF Sane, OneRuns, SameCore
<1>5. Suspended(r) = Suspended(kk) \cup {t}
  BY <1>3 DEF Suspended
<1>6. QueuesLose(kk, r, t)
  BY <1>1 DEF QueuesLose
<1> QED
  BY <1>1, <1>4, <1>5, <1>6 DEF r

LEMMA SaneResume ==
    ASSUME KernelAssumption, NEW kk, Sane(kk), NEW t \in Threads, kk.stat[t] = "suspend"
    PROVE  LET r == rt_thread_resume(kk, t)
           IN /\ Sane(r) /\ SameCore(kk, r)
              /\ Suspended(r) = Suspended(kk) \ {t}
              /\ r.stat = [kk.stat EXCEPT ![t] = IF t = kk.cur THEN "running" ELSE "ready"]
              /\ QueuesLose(kk, r, t)
<1> DEFINE r == rt_thread_resume(kk, t)
<1>1. /\ r \in KernelState /\ ExactBut(r, {})
      /\ SameCore(kk, r)
      /\ r.stat = [kk.stat EXCEPT ![t] = IF t = kk.cur THEN "running" ELSE "ready"]
      /\ \A q \in Queues : Elems(r.waitq[q]) = Elems(kk.waitq[q]) \ {t}
      /\ \A q \in Queues : t \notin Elems(kk.waitq[q]) => r.waitq[q] = kk.waitq[q]
  BY ThreadResumeEffect DEF Sane
<1> HIDE DEF r
<1>2. kk.stat \in [Threads -> Statuses] /\ kk.cur \in Threads /\ IdleThread \in Threads
  BY DEF Sane, KernelState, KernelAssumption
<1>3. \A u \in Threads : r.stat[u] = IF u # t THEN kk.stat[u]
                                     ELSE IF t = kk.cur THEN "running" ELSE "ready"
  BY <1>1, <1>2
<1>4. Sane(r)
  BY <1>1, <1>2, <1>3 DEF Sane, OneRuns, SameCore
<1>5. Suspended(r) = Suspended(kk) \ {t}
  BY <1>3 DEF Suspended
<1>6. QueuesLose(kk, r, t)
  BY <1>1 DEF QueuesLose
<1> QED
  BY <1>1, <1>4, <1>5, <1>6 DEF r

LEMMA SaneTimerStart ==
    ASSUME NEW kk, Sane(kk), NEW t \in Threads, kk.stat[t] = "suspend", NEW n \in Nat, n > 0
    PROVE  LET r == rt_timer_start(kk, t, n)
           IN /\ Sane(r) /\ SameCore(kk, r)
              /\ r.table = kk.table /\ r.group = kk.group /\ r.waitq = kk.waitq /\ r.stat = kk.stat
              /\ Elems(r.timers) = Elems(kk.timers) \cup {t}
<1> DEFINE r == rt_timer_start(kk, t, n)
<1>1. /\ r \in KernelState /\ ExactBut(r, {}) /\ SameCore(kk, r)
      /\ r.table = kk.table /\ r.group = kk.group /\ r.waitq = kk.waitq /\ r.stat = kk.stat
      /\ Elems(r.timers) = Elems(kk.timers) \cup {t}
  BY TimerStart DEF Sane
<1> HIDE DEF r
<1>2. Sane(r)
  BY <1>1 DEF Sane, OneRuns, SameCore
<1> QED
  BY <1>1, <1>2 DEF r

(* The last part of a deletion puts a thread that is on no list on the     *)
(* defunct list and takes its timer off the timer list.                    *)
LEMMA DefunctEffect ==
    ASSUME NEW a \in KernelState, NEW t \in Threads, ExactBut(a, {t})
    PROVE  LET r == MakeDefunct(a, t)
           IN /\ r \in KernelState /\ ExactBut(r, {})
              /\ r.cur = a.cur /\ r.nest = a.nest /\ r.isr = a.isr /\ r.prio = a.prio
              /\ r.error = a.error /\ r.group = a.group /\ r.waitq = a.waitq
              /\ r.stat = [a.stat EXCEPT ![t] = "close"]
              /\ Elems(r.timers) = Elems(a.timers) \ {t}
<1> DEFINE b == rt_timer_stop(a, t)
           r == MakeDefunct(a, t)
<1>1. /\ b \in KernelState /\ ExactBut(b, {t}) /\ SameCore(a, b)
      /\ b.stat = a.stat /\ b.group = a.group /\ b.waitq = a.waitq
      /\ Elems(b.timers) = Elems(a.timers) \ {t}
  BY TimerStop, ZenonT(40)
<1>2. r = [b EXCEPT !.stat[t] = "close", !.yield = @ \ {t}, !.defunct = <<t>> \o @]
  BY DEF MakeDefunct
<1> HIDE DEF b, r
<1>3. b.defunct \in Lists1(Threads) /\ t \notin Elems(b.defunct)
  BY <1>1 DEF KernelState, ExactBut, Off
<1>4. <<t>> \o b.defunct \in Lists1(Threads) /\ Elems(<<t>> \o b.defunct) = Elems(b.defunct) \cup {t}
  BY <1>3, ListPush
<1>5. /\ r \in KernelState
      /\ r.defunct = <<t>> \o b.defunct /\ r.table = b.table /\ r.group = b.group
      /\ r.waitq = b.waitq /\ r.timers = b.timers /\ r.prio = b.prio /\ r.cur = b.cur
      /\ r.nest = b.nest /\ r.isr = b.isr /\ r.error = b.error
      /\ r.stat = [b.stat EXCEPT ![t] = "close"] /\ r.stat[t] = "close"
      /\ \A u \in Threads \ {t} : r.stat[u] = b.stat[u]
  BY <1>1, <1>2, <1>4 DEF KernelState, Statuses
<1>6. Elems(r.defunct) = Elems(b.defunct) \cup {t}
  BY <1>4, <1>5
<1>7. ExactBut(r, {})
  <2>1. GroupExact(r) /\ QueuesApart(r)
    <3>1. GroupExact(b) /\ QueuesApart(b)
      BY <1>1 DEF ExactBut
    <3>2. r.table = b.table /\ r.group = b.group /\ r.waitq = b.waitq
      BY <1>5
    <3> QED
      BY <3>1, <3>2 DEF GroupExact, QueuesApart
  <2>2. Agrees(r, t)
    BY <1>1, <1>5, <1>6 DEF ExactBut, Off, Agrees
  <2>3. ASSUME NEW u \in Threads \ {t} PROVE Agrees(r, u)
    BY <1>1, <1>5, <1>6, <2>3 DEF ExactBut, Agrees
  <2> QED
    BY <2>1, <2>2, <2>3 DEF ExactBut
<1> QED
  BY <1>1, <1>5, <1>7 DEF r, SameCore

(* The first part takes the thread off its list. *)
LEMMA UnscheduleEffect ==
    ASSUME NEW kk \in KernelState, NEW t \in Threads, ExactBut(kk, {})
    PROVE  LET a == Unschedule(kk, t)
           IN /\ a \in KernelState /\ ExactBut(a, {t}) /\ SameCore(kk, a)
              /\ a.stat = kk.stat /\ a.group \subseteq kk.group /\ QueuesLose(kk, a, t)
              /\ a.timers = kk.timers
<1> DEFINE a == Unschedule(kk, t)
<1>1. CASE kk.stat[t] = "init"
  <2>1. a = kk
    BY <1>1 DEF Unschedule
  <2>2. ExactBut(kk, {t})
    BY <1>1, LeaveOut
  <2> QED
    BY <2>1, <2>2 DEF SameCore, QueuesLose, ExactBut, Off
<1>2. CASE kk.stat[t] # "init"
  <2> DEFINE c == rt_schedule_remove_thread(kk, t)
  <2>1. /\ c \in KernelState /\ ExactBut(c, {t}) /\ SameCore(kk, c) /\ c.stat = kk.stat
        /\ \A q \in Queues : Elems(c.waitq[q]) = Elems(kk.waitq[q]) \ {t}
        /\ \A q \in Queues : t \notin Elems(kk.waitq[q]) => c.waitq[q] = kk.waitq[q]
        /\ c.group = IF Elems(c.table[kk.prio[t]]) = {} THEN kk.group \ {kk.prio[t]} ELSE kk.group
        /\ c.timers = kk.timers
    BY ScheduleRemove, ScheduleRemoveExact, ZenonT(40)
  <2>2. a = c
    BY <1>2 DEF Unschedule
  <2> HIDE DEF c, a
  <2>3. /\ a \in KernelState /\ ExactBut(a, {t}) /\ SameCore(kk, a)
        /\ a.stat = kk.stat /\ a.group \subseteq kk.group /\ QueuesLose(kk, a, t)
        /\ a.timers = kk.timers
    BY <2>1, <2>2 DEF QueuesLose
  <2> QED
    BY <2>3 DEF a
<1> QED
  BY <1>1, <1>2

(* CloseThread puts the thread on the defunct list and on no other. *)
LEMMA SaneClose ==
    ASSUME KernelAssumption, NEW kk, Sane(kk), NEW t \in Threads \ {IdleThread},
           kk.stat[t] \notin {"close", "freed"}
    PROVE  LET r == CloseThread(kk, t)
           IN /\ Sane(r) /\ r.group \subseteq kk.group
              /\ r.cur = kk.cur /\ r.nest = kk.nest /\ r.prio = kk.prio /\ r.isr = kk.isr
              /\ r.error = kk.error /\ r.stat = [kk.stat EXCEPT ![t] = "close"]
              /\ QueuesLose(kk, r, t)
              /\ Elems(r.timers) = Elems(kk.timers) \ {t}
<1> DEFINE a == Unschedule(kk, t)
           r == MakeDefunct(a, t)
<1>1. /\ kk \in KernelState /\ ExactBut(kk, {}) /\ t \in Threads /\ IdleThread \in Threads
      /\ kk.stat \in [Threads -> Statuses] /\ kk.cur \in Threads
  BY DEF Sane, KernelAssumption, KernelState
<1>2. /\ a \in KernelState /\ ExactBut(a, {t}) /\ SameCore(kk, a)
      /\ a.stat = kk.stat /\ a.group \subseteq kk.group /\ QueuesLose(kk, a, t)
      /\ a.timers = kk.timers
  BY <1>1, UnscheduleEffect
<1> HIDE DEF a
<1>3. /\ r \in KernelState /\ ExactBut(r, {})
      /\ r.cur = a.cur /\ r.nest = a.nest /\ r.isr = a.isr /\ r.prio = a.prio
      /\ r.error = a.error /\ r.group = a.group /\ r.waitq = a.waitq
      /\ r.stat = [a.stat EXCEPT ![t] = "close"]
      /\ Elems(r.timers) = Elems(a.timers) \ {t}
  BY <1>1, <1>2, DefunctEffect
<1> HIDE DEF r
<1>4. Sane(r)
  <2>1. \A u \in Threads : r.stat[u] = IF u = t THEN "close" ELSE kk.stat[u]
    BY <1>1, <1>2, <1>3
  <2>2. r.cur = kk.cur
    BY <1>2, <1>3 DEF SameCore
  <2> QED
    BY <1>1, <1>3, <2>1, <2>2 DEF Sane, OneRuns
<1>5. QueuesLose(kk, r, t)
  BY <1>2, <1>3 DEF QueuesLose
<1>6. /\ r.group \subseteq kk.group /\ r.cur = kk.cur /\ r.nest = kk.nest /\ r.prio = kk.prio
      /\ r.isr = kk.isr /\ r.error = kk.error /\ r.stat = [kk.stat EXCEPT ![t] = "close"]
      /\ Elems(r.timers) = Elems(kk.timers) \ {t}
  BY <1>2, <1>3 DEF SameCore
<1> QED
  BY <1>4, <1>5, <1>6 DEF r, a, CloseThread

(* What a step does to a thread it is not about: its timer is not started, *)
(* and it gets another state only by being switched to or from, or when    *)
(* its time has run out.                                                   *)
OthersStay(kk, r) ==
    /\ r.nest = kk.nest /\ Elems(r.timers) \subseteq Elems(kk.timers)
    /\ r.cur # kk.cur =>
          kk.nest = 0 /\ (kk.stat[r.cur] = "ready" \/ r.cur \in Elems(kk.timers))
    /\ \A t \in Threads :
          \/ r.stat[t] = kk.stat[t]
          \/ r.stat[t] \in {"ready", "running"} /\ kk.stat[t] \in {"ready", "running"}
          \/ r.stat[t] \in {"ready", "running"} /\ t \in Elems(kk.timers)

(* A change of priority moves a ready thread to its new list. *)
LEMMA SaneChangePriority ==
    ASSUME KernelAssumption, NEW kk, Sane(kk), NEW t \in Threads, NEW p \in Prios
    PROVE  LET r == ChangePriority(kk, t, p)
           IN /\ Sane(r) /\ r.stat = kk.stat /\ r.waitq = kk.waitq /\ r.error = kk.error
              /\ r.cur = kk.cur /\ r.nest = kk.nest /\ r.isr = kk.isr /\ r.timers = kk.timers
<1> DEFINE r == ChangePriority(kk, t, p)
<1>1. kk \in KernelState /\ ExactBut(kk, {})
  BY DEF Sane
<1>2. CASE kk.stat[t] = "ready"
  <2> DEFINE a == rt_schedule_remove_thread(kk, t)
             b == [a EXCEPT !.prio[t] = p]
  <2>1. /\ a \in KernelState /\ ExactBut(a, {t}) /\ SameCore(kk, a)
        /\ a.stat = kk.stat /\ a.timers = kk.timers
        /\ \A q \in Queues : t \notin Elems(kk.waitq[q]) => a.waitq[q] = kk.waitq[q]
    BY <1>1, ScheduleRemove, ScheduleRemoveExact
  <2>2. r = rt_schedule_insert_thread(b, t)
    BY <1>2 DEF ChangePriority
  <2> HIDE DEF a
  <2>3. /\ b \in KernelState /\ b.table = a.table /\ b.group = a.group /\ b.waitq = a.waitq
        /\ b.defunct = a.defunct /\ b.timers = a.timers /\ b.stat = a.stat /\ b.cur = a.cur
        /\ b.nest = a.nest /\ b.isr = a.isr /\ b.error = a.error
        /\ \A u \in Threads \ {t} : b.prio[u] = a.prio[u]
    BY <2>1 DEF KernelState
  <2> HIDE DEF b
  <2>4. Elems(b.timers) \subseteq Elems(a.timers)
    BY <2>3
  <2>5. ExactBut(b, {t})
    BY <2>1, <2>3, <2>4, ExactFrame
  <2>6. Agrees(kk, t)
    BY <1>1 DEF ExactBut
  <2>7. t \notin Elems(b.timers)
    BY <1>2, <2>1, <2>3, <2>6 DEF Agrees
  <2>8. /\ r \in KernelState /\ ExactBut(r, {}) /\ SameCore(b, r) /\ r.waitq = b.waitq
        /\ r.timers = b.timers
        /\ r.stat = [b.stat EXCEPT ![t] = IF t = b.cur THEN "running" ELSE "ready"]
    <3> DEFINE i == rt_schedule_insert_thread(b, t)
    <3>1. /\ i \in KernelState /\ ExactBut(i, {}) /\ SameCore(b, i) /\ i.waitq = b.waitq
          /\ i.timers = b.timers
          /\ i.stat = [b.stat EXCEPT ![t] = IF t = b.cur THEN "running" ELSE "ready"]
      BY <2>3, <2>5, <2>7, ScheduleInsert, ZenonT(40)
    <3> HIDE DEF i, r
    <3> QED
      BY <2>2, <3>1 DEF i
  <2> HIDE DEF r
  <2>9. t # kk.cur
    BY <1>2 DEF Sane
  <2>10. r.stat = kk.stat
    BY <1>1, <1>2, <2>1, <2>3, <2>8, <2>9 DEF SameCore, KernelState
  <2>11. r.waitq = kk.waitq
    <3>1. \A q \in Queues : r.waitq[q] = kk.waitq[q]
      BY <1>2, <2>1, <2>3, <2>6, <2>8 DEF Agrees
    <3> QED
      BY <1>1, <2>8, <3>1 DEF KernelState
  <2>12. /\ r.cur = kk.cur /\ r.nest = kk.nest /\ r.isr = kk.isr /\ r.error = kk.error
         /\ r.timers = kk.timers
    BY <2>1, <2>3, <2>8 DEF SameCore
  <2>13. Sane(r)
    BY <2>8, <2>10, <2>12 DEF Sane, OneRuns
  <2> QED
    BY <2>10, <2>11, <2>12, <2>13 DEF r
<1>3. CASE kk.stat[t] # "ready"
  <2>1. r = [kk EXCEPT !.prio[t] = p]
    BY <1>3 DEF ChangePriority
  <2> HIDE DEF r
  <2>2. /\ r \in KernelState /\ r.table = kk.table /\ r.group = kk.group /\ r.waitq = kk.waitq
        /\ r.defunct = kk.defunct /\ r.timers = kk.timers /\ r.stat = kk.stat /\ r.cur = kk.cur
        /\ r.nest = kk.nest /\ r.isr = kk.isr /\ r.error = kk.error
        /\ \A u \in Threads \ {t} : r.prio[u] = kk.prio[u]
    BY <1>1, <2>1 DEF KernelState
  <2>3. GroupExact(r) /\ QueuesApart(r)
    BY <1>1, <2>2 DEF ExactBut, GroupExact, QueuesApart
  <2>4. ASSUME NEW u \in Threads PROVE Agrees(r, u)
    BY <1>1, <1>3, <2>2, <2>4 DEF ExactBut, Agrees
  <2>5. Sane(r)
    BY <2>2, <2>3, <2>4 DEF Sane, OneRuns, ExactBut
  <2> QED
    BY <2>2, <2>5 DEF r
<1> QED
  BY <1>2, <1>3

(* thread_timeout, as the timer interrupt calls it: the thread is woken    *)
(* with an error and leaves the list it waits on.                          *)
LEMMA SaneTimeout ==
    ASSUME KernelAssumption, NEW kk, Sane(kk), NEW t \in Threads, kk.stat[t] = "suspend"
    PROVE  LET r == thread_timeout(rt_timer_stop(kk, t), t)
           IN /\ Sane(r) /\ r.nest = kk.nest /\ r.isr = kk.isr /\ r.prio = kk.prio
              /\ r.error = [kk.error EXCEPT ![t] = "ETIMEOUT"]
              /\ Suspended(r) = Suspended(kk) \ {t}
              /\ QueuesLose(kk, r, t)
              /\ kk.nest = 0 => /\ \A p \in r.group : r.prio[r.cur] <= p
                                /\ r.stat[r.cur] = "running"
              /\ t \in Elems(kk.timers) => OthersStay(kk, r)
<1> DEFINE a == rt_timer_stop(kk, t)
           b == [a EXCEPT !.error[t] = "ETIMEOUT"]
           c == rt_list_remove(b, t)
           d == rt_schedule_insert_thread(c, t)
           e == rt_schedule(d)
<1>1. kk \in KernelState /\ ExactBut(kk, {})
  BY DEF Sane
<1>2. /\ a \in KernelState /\ ExactBut(a, {}) /\ SameCore(kk, a) /\ a.stat = kk.stat
      /\ a.waitq = kk.waitq /\ Elems(a.timers) = Elems(kk.timers) \ {t}
  BY <1>1, TimerStop
<1> HIDE DEF a
<1>3. /\ b \in KernelState /\ b.table = a.table /\ b.group = a.group /\ b.waitq = a.waitq
      /\ b.defunct = a.defunct /\ b.timers = a.timers /\ b.stat = a.stat /\ b.cur = a.cur
      /\ b.nest = a.nest /\ b.isr = a.isr /\ b.prio = a.prio
      /\ b.error = [a.error EXCEPT ![t] = "ETIMEOUT"]
  BY <1>2 DEF KernelState, Errors
<1> HIDE DEF b
<1>4. ExactBut(b, {})
  BY <1>2, <1>3, ExactFrame
<1>5. /\ c \in KernelState /\ ExactBut(c, {t}) /\ SameCore(b, c) /\ c.stat = b.stat
      /\ c.timers = b.timers
      /\ \A q \in Queues : Elems(c.waitq[q]) = Elems(b.waitq[q]) \ {t}
      /\ \A q \in Queues : t \notin Elems(b.waitq[q]) => c.waitq[q] = b.waitq[q]
  <2>1. b.stat[t] # "ready"
    BY <1>2, <1>3
  <2> QED
    BY <1>3, <1>4, <2>1, ListRemove, ListRemoveExact
<1> HIDE DEF c
<1>6. /\ d \in KernelState /\ ExactBut(d, {}) /\ SameCore(c, d) /\ d.waitq = c.waitq
      /\ d.timers = c.timers
      /\ d.stat = [c.stat EXCEPT ![t] = IF t = c.cur THEN "running" ELSE "ready"]
  <2>1. t \notin Elems(c.timers)
    BY <1>2, <1>3, <1>5
  <2> QED
    BY <1>5, <2>1, ScheduleInsert
<1> HIDE DEF d
<1>7. kk.cur \in Threads /\ kk.stat \in [Threads -> Statuses] /\ IdleThread \in Threads
  BY <1>1 DEF KernelState, KernelAssumption
<1>8. /\ d.cur = kk.cur /\ d.nest = kk.nest /\ d.isr = kk.isr /\ d.prio = kk.prio
      /\ d.error = [kk.error EXCEPT ![t] = "ETIMEOUT"]
      /\ \A u \in Threads : d.stat[u] = IF u # t THEN kk.stat[u]
                                        ELSE IF t = kk.cur THEN "running" ELSE "ready"
  BY <1>2, <1>3, <1>5, <1>6, <1>7 DEF SameCore
<1>9. Sane(d)
  BY <1>6, <1>7, <1>8 DEF Sane, OneRuns
<1>10. Suspended(d) = Suspended(kk) \ {t}
  BY <1>8 DEF Suspended
<1>11. QueuesLose(kk, d, t)
  BY <1>2, <1>3, <1>5, <1>6 DEF QueuesLose
<1>12. /\ Sane(e) /\ SameObjects(d, e) /\ Suspended(e) = Suspended(d)
       /\ d.nest = 0 => /\ \A p \in e.group : e.prio[e.cur] <= p
                        /\ e.stat[e.cur] = "running"
       /\ e.cur # d.cur => d.nest = 0 /\ d.stat[e.cur] = "ready"
       /\ \A u \in Threads : \/ e.stat[u] = d.stat[u]
                              \/ {e.stat[u], d.stat[u]} \subseteq {"ready", "running"}
  BY <1>9, SaneSchedule
<1> HIDE DEF e
<1>14. ASSUME t \in Elems(kk.timers) PROVE OthersStay(kk, e)
  <2>1. e.nest = kk.nest /\ Elems(e.timers) = Elems(kk.timers) \ {t}
    BY <1>2, <1>3, <1>5, <1>6, <1>8, <1>12 DEF SameObjects
  <2>2. e.cur \in Threads
    BY <1>12 DEF Sane, KernelState
  <2>3. e.cur # kk.cur =>
          kk.nest = 0 /\ (kk.stat[e.cur] = "ready" \/ e.cur \in Elems(kk.timers))
    BY <1>8, <1>12, <1>14, <2>2
  <2>4. ASSUME NEW u \in Threads
        PROVE  \/ e.stat[u] = kk.stat[u]
               \/ e.stat[u] \in {"ready", "running"} /\ kk.stat[u] \in {"ready", "running"}
               \/ e.stat[u] \in {"ready", "running"} /\ u \in Elems(kk.timers)
    <3>1. \/ e.stat[u] = d.stat[u]
          \/ e.stat[u] \in {"ready", "running"} /\ d.stat[u] \in {"ready", "running"}
      BY <1>12
    <3>2. u # t => d.stat[u] = kk.stat[u]
      BY <1>8
    <3>3. u = t => d.stat[u] \in {"ready", "running"}
      BY <1>8
    <3> QED
      BY <1>14, <3>1, <3>2, <3>3
  <2> QED
    BY <2>1, <2>3, <2>4 DEF OthersStay
<1>13. QueuesLose(kk, e, t)
  BY <1>11, <1>12 DEF QueuesLose, SameObjects
<1> QED
  BY <1>8, <1>10, <1>12, <1>13, <1>14 DEF SameObjects, e, d, c, b, a, thread_timeout

(* A field that is only a message to a thread. *)
LEMMA SaneError ==
    ASSUME NEW kk, Sane(kk), NEW t \in Threads, NEW e \in Errors
    PROVE  LET r == [kk EXCEPT !.error[t] = e]
           IN /\ Sane(r) /\ r.error = [kk.error EXCEPT ![t] = e]
              /\ r.cur = kk.cur /\ r.nest = kk.nest /\ r.isr = kk.isr /\ r.prio = kk.prio
              /\ r.stat = kk.stat /\ r.waitq = kk.waitq /\ r.group = kk.group
<1> DEFINE r == [kk EXCEPT !.error[t] = e]
<1>1. /\ r \in KernelState /\ r.error = [kk.error EXCEPT ![t] = e]
      /\ r.table = kk.table /\ r.group = kk.group /\ r.waitq = kk.waitq /\ r.defunct = kk.defunct
      /\ r.timers = kk.timers /\ r.stat = kk.stat /\ r.prio = kk.prio /\ r.cur = kk.cur
      /\ r.nest = kk.nest /\ r.isr = kk.isr
  BY DEF Sane, KernelState
<1> HIDE DEF r
<1>2. Sane(r)
  BY <1>1, SaneFrame
<1> QED
  BY <1>1, <1>2 DEF r

(* what waking t with the error e does *)
WokenWith(kk, r, t, e) ==
    /\ Sane(r) /\ r.error = [kk.error EXCEPT ![t] = e]
    /\ r.cur = kk.cur /\ r.nest = kk.nest /\ r.isr = kk.isr /\ r.prio = kk.prio
    /\ r.stat = [kk.stat EXCEPT ![t] = IF t = kk.cur THEN "running" ELSE "ready"]
    /\ Suspended(r) = Suspended(kk) \ {t}
    /\ QueuesLose(kk, r, t)

LEMMA SaneWake ==
    ASSUME KernelAssumption, NEW kk, Sane(kk), NEW t \in Threads, kk.stat[t] = "suspend",
           NEW e \in Errors
    PROVE  WokenWith(kk, rt_thread_resume([kk EXCEPT !.error[t] = e], t), t, e)
<1> DEFINE a == [kk EXCEPT !.error[t] = e]
           r == rt_thread_resume(a, t)
<1>1. /\ Sane(a) /\ a.error = [kk.error EXCEPT ![t] = e]
      /\ a.cur = kk.cur /\ a.nest = kk.nest /\ a.isr = kk.isr /\ a.prio = kk.prio
      /\ a.stat = kk.stat /\ a.waitq = kk.waitq
  BY SaneError
<1> HIDE DEF a
<1>2. /\ Sane(r) /\ SameCore(a, r)
      /\ Suspended(r) = Suspended(a) \ {t}
      /\ r.stat = [a.stat EXCEPT ![t] = IF t = a.cur THEN "running" ELSE "ready"]
      /\ QueuesLose(a, r, t)
  BY <1>1, SaneResume
<1> HIDE DEF r
<1>3. Suspended(a) = Suspended(kk)
  BY <1>1 DEF Suspended
<1>4. QueuesLose(kk, r, t)
  BY <1>1, <1>2 DEF QueuesLose
<1>5. WokenWith(kk, r, t, e)
  BY <1>1, <1>2, <1>3, <1>4 DEF WokenWith, SameCore
<1> QED
  BY <1>5 DEF r, a

(* A suspended thread that is on no list is put on a queue. *)
LEMMA SaneJoin ==
    ASSUME NEW kk, Sane(kk), NEW t \in Threads, kk.stat[t] = "suspend", Off(kk, t),
           NEW q \in Queues, NEW w \in Lists1(Threads), Elems(w) = Elems(kk.waitq[q]) \cup {t}
    PROVE  LET r == [kk EXCEPT !.waitq[q] = w]
           IN /\ Sane(r) /\ SameCore(kk, r) /\ r.stat = kk.stat /\ r.group = kk.group
              /\ r.waitq = [kk.waitq EXCEPT ![q] = w]
<1> DEFINE r == [kk EXCEPT !.waitq[q] = w]
<1>1. /\ r \in KernelState /\ SameCore(kk, r) /\ r.stat = kk.stat /\ r.group = kk.group
      /\ r.table = kk.table /\ r.defunct = kk.defunct /\ r.timers = kk.timers
      /\ r.waitq = [kk.waitq EXCEPT ![q] = w] /\ kk.waitq \in [Queues -> Lists1(Threads)]
  BY DEF Sane, KernelState, SameCore
<1> HIDE DEF r
<1>2. \A z \in Queues : Elems(r.waitq[z]) = IF z = q THEN Elems(kk.waitq[q]) \cup {t}
                                            ELSE Elems(kk.waitq[z])
  BY <1>1
<1>3. /\ GroupExact(kk) /\ QueuesApart(kk) /\ \A u \in Threads : Agrees(kk, u)
      /\ \A z \in Queues : t \notin Elems(kk.waitq[z])
  BY DEF Sane, ExactBut, Off
<1>4. GroupExact(r)
  BY <1>1, <1>3 DEF GroupExact
<1>5. QueuesApart(r)
  BY <1>2, <1>3 DEF QueuesApart
<1>6. ASSUME NEW u \in Threads PROVE Agrees(r, u)
  BY <1>1, <1>2, <1>3 DEF Agrees, SameCore
<1>7. Sane(r)
  BY <1>1, <1>4, <1>5, <1>6 DEF Sane, ExactBut, OneRuns, SameCore
<1> QED
  BY <1>1, <1>7 DEF r

(* t, which was running, waits on q now *)
WaitsOn(kk, r, q, t) ==
    /\ Sane(r) /\ SameCore(kk, r) /\ r.stat = [kk.stat EXCEPT ![t] = "suspend"]
    /\ Suspended(r) = Suspended(kk) \cup {t}
    /\ r.group \subseteq kk.group
    /\ Elems(r.waitq[q]) = Elems(kk.waitq[q]) \cup {t}
    /\ \A z \in Queues \ {q} : r.waitq[z] = kk.waitq[z]

(* The thread calling suspends itself and is put on a list of its own queue. *)
LEMMA SaneWaitOn ==
    ASSUME KernelAssumption, NEW kk, Sane(kk), NEW t \in Threads \ {IdleThread},
           kk.stat[t] # "suspend", NEW q \in Queues, NEW w \in Lists1(Threads),
           Elems(w) = Elems(kk.waitq[q]) \cup {t}
    PROVE  WaitsOn(kk, [rt_thread_suspend(kk, t) EXCEPT !.waitq[q] = w], q, t)
<1> DEFINE a == rt_thread_suspend(kk, t)
           r == [a EXCEPT !.waitq[q] = w]
<1>1. /\ Sane(a) /\ Off(a, t) /\ SameCore(kk, a)
      /\ Suspended(a) = Suspended(kk) \cup {t}
      /\ a.stat = [kk.stat EXCEPT ![t] = "suspend"]
      /\ a.group \subseteq kk.group
      /\ QueuesLose(kk, a, t)
  BY SaneSuspend
<1> HIDE DEF a
<1>2. kk.stat \in [Threads -> Statuses] /\ a.waitq \in [Queues -> Lists1(Threads)]
  BY <1>1 DEF Sane, KernelState
<1>3. \A z \in Queues : t \notin Elems(kk.waitq[z])
  BY DEF Sane, ExactBut, Agrees
<1>4. \A z \in Queues : a.waitq[z] = kk.waitq[z]
  BY <1>1, <1>3 DEF QueuesLose
<1>5. a.stat[t] = "suspend" /\ Elems(w) = Elems(a.waitq[q]) \cup {t}
  BY <1>1, <1>2, <1>4
<1>6. /\ Sane(r) /\ SameCore(a, r) /\ r.stat = a.stat /\ r.group = a.group
      /\ r.waitq = [a.waitq EXCEPT ![q] = w]
  BY <1>1, <1>5, SaneJoin
<1> HIDE DEF r
<1>7. Suspended(r) = Suspended(a)
  BY <1>6 DEF Suspended
<1>8. Elems(r.waitq[q]) = Elems(kk.waitq[q]) \cup {t} /\ \A z \in Queues \ {q} : r.waitq[z] = kk.waitq[z]
  BY <1>2, <1>4, <1>6
<1>9. WaitsOn(kk, r, q, t)
  BY <1>1, <1>6, <1>7, <1>8 DEF WaitsOn, SameCore
<1> QED
  BY <1>9 DEF r, a

LEMMA SaneIpcSuspend ==
    ASSUME KernelAssumption, NEW kk, Sane(kk), NEW t \in Threads \ {IdleThread},
           kk.stat[t] # "suspend", NEW q \in Queues
    PROVE  WaitsOn(kk, ipc_list_suspend(kk, q, t), q, t)
<1> DEFINE a == rt_thread_suspend(kk, t)
           s == a.waitq[q]
           after == {i \in DOMAIN s : a.prio[t] < a.prio[s[i]]}
           at == IF QueueFlag[q] = "FIFO" \/ after = {} THEN Len(s) + 1
                 ELSE CHOOSE i \in after : \A j \in after : i <= j
           w == InsertBefore(s, at, t)
<1>1. ipc_list_suspend(kk, q, t) = [a EXCEPT !.waitq[q] = w]
  BY DEF ipc_list_suspend
<1>2. /\ Sane(a) /\ Off(a, t) /\ QueuesLose(kk, a, t)
  BY SaneSuspend
<1>3. t \notin Elems(kk.waitq[q])
  BY DEF Sane, ExactBut, Agrees
<1>4. s = kk.waitq[q] /\ s \in Lists1(Threads)
  BY <1>2, <1>3 DEF QueuesLose, Sane, KernelState
<1> HIDE DEF a
<1>5. Len(s) \in Nat /\ DOMAIN s = 1..Len(s)
  BY <1>4, ListElems
<1>6. at \in 1..(Len(s) + 1)
  <2>1. after \in SUBSET (DOMAIN s)
    OBVIOUS
  <2> HIDE DEF after, s
  <2> DEFINE z == IF after = {} THEN Len(s) + 1 ELSE CHOOSE i \in after : \A j \in after : i <= j
  <2>2. z \in 1..(Len(s) + 1)
    BY <1>5, <2>1, PlaceOf
  <2>3. at = z \/ at = Len(s) + 1
    OBVIOUS
  <2> QED
    BY <1>5, <2>2, <2>3
<1> HIDE DEF at, s
<1>7. w \in Lists1(Threads) /\ Elems(w) = Elems(kk.waitq[q]) \cup {t}
  BY <1>3, <1>4, <1>6, ListInsert
<1> HIDE DEF w
<1>8. WaitsOn(kk, [a EXCEPT !.waitq[q] = w], q, t)
  BY <1>7, SaneWaitOn DEF a
<1> QED
  BY <1>1, <1>8

(* The head of a queue is woken. *)
LEMMA SaneIpcResume ==
    ASSUME KernelAssumption, NEW kk, Sane(kk), NEW q \in Queues, kk.waitq[q] # <<>>
    PROVE  LET t == Head(kk.waitq[q])
           IN /\ t \in Threads /\ t \in Elems(kk.waitq[q]) /\ kk.stat[t] = "suspend"
              /\ WokenWith(kk, ipc_list_resume(kk, q), t, "EOK")
<1> DEFINE t == Head(kk.waitq[q])
<1>1. kk.waitq[q] \in Lists1(Threads)
  BY DEF Sane, KernelState
<1>2. t \in Elems(kk.waitq[q]) /\ t \in Threads
  BY <1>1, ListElems
<1>3. kk.stat[t] = "suspend"
  BY <1>2 DEF Sane, ExactBut, Agrees
<1> HIDE DEF t
<1>4. WokenWith(kk, rt_thread_resume([kk EXCEPT !.error[t] = "EOK"], t), t, "EOK")
  BY <1>2, <1>3, SaneWake DEF Errors
<1> QED
  BY <1>2, <1>3, <1>4 DEF t, ipc_list_resume

(* ipc_list_resume_all wakes the waiters of a queue, one after the other,  *)
(* with an error; what it does to a state after i of them.                 *)
WokenUpTo(kk, r, s, i) ==
    /\ Sane(r) /\ r.cur = kk.cur /\ r.nest = kk.nest /\ r.isr = kk.isr /\ r.prio = kk.prio
    /\ Suspended(r) = Suspended(kk) \ {s[j] : j \in 1..i}
    /\ \A q \in Queues : Elems(r.waitq[q]) = Elems(kk.waitq[q]) \ {s[j] : j \in 1..i}
    /\ \A u \in Threads : r.error[u] = IF u \in {s[j] : j \in 1..i} THEN "ERROR" ELSE kk.error[u]
    /\ r.stat[r.cur] = "running" \/ r.stat[r.cur] = kk.stat[r.cur]

LEMMA WokenUpToNext ==
    ASSUME KernelAssumption, NEW kk, Sane(kk), NEW s \in Lists1(Threads), NEW i \in 1..Len(s),
           Elems(s) \subseteq Suspended(kk),
           NEW x, WokenUpTo(kk, x, s, i - 1)
    PROVE  WokenUpTo(kk, rt_thread_resume([x EXCEPT !.error[s[i]] = "ERROR"], s[i]), s, i)
<1> DEFINE t == s[i]
           before == {s[j] : j \in 1..(i - 1)}
           upto == {s[j] : j \in 1..i}
           r == rt_thread_resume([x EXCEPT !.error[t] = "ERROR"], t)
<1>1. /\ s \in Seq(Threads) /\ Len(s) \in Nat
      /\ \A a, b \in 1..Len(s) : s[a] = s[b] => a = b
      /\ t \in Threads /\ t \in Elems(s)
  BY ListElems DEF Lists1
<1>2. upto = before \cup {t} /\ t \notin before
  BY <1>1
<1>3. /\ Sane(x) /\ x.cur = kk.cur /\ x.nest = kk.nest /\ x.isr = kk.isr /\ x.prio = kk.prio
      /\ Suspended(x) = Suspended(kk) \ before
      /\ \A q \in Queues : Elems(x.waitq[q]) = Elems(kk.waitq[q]) \ before
      /\ \A u \in Threads : x.error[u] = IF u \in before THEN "ERROR" ELSE kk.error[u]
      /\ x.stat[x.cur] = "running" \/ x.stat[x.cur] = kk.stat[x.cur]
  BY DEF WokenUpTo
<1> HIDE DEF t, before, upto
<1>4. x.stat[t] = "suspend"
  BY <1>1, <1>2, <1>3 DEF Suspended
<1>5. WokenWith(x, r, t, "ERROR")
  BY <1>1, <1>3, <1>4, SaneWake DEF Errors
<1> HIDE DEF r
<1>6. x.error \in [Threads -> Errors] /\ x.stat \in [Threads -> Statuses] /\ x.cur \in Threads
  BY <1>3 DEF Sane, KernelState
<1>7. /\ Sane(r) /\ r.cur = kk.cur /\ r.nest = kk.nest /\ r.isr = kk.isr /\ r.prio = kk.prio
      /\ Suspended(r) = Suspended(kk) \ upto
  BY <1>2, <1>3, <1>5 DEF WokenWith
<1>8. \A q \in Queues : Elems(r.waitq[q]) = Elems(kk.waitq[q]) \ upto
  BY <1>2, <1>3, <1>5 DEF WokenWith, QueuesLose
<1>9. \A u \in Threads : r.error[u] = IF u \in upto THEN "ERROR" ELSE kk.error[u]
  BY <1>2, <1>3, <1>5, <1>6 DEF WokenWith
<1>10. r.stat[r.cur] = "running" \/ r.stat[r.cur] = kk.stat[r.cur]
  BY <1>3, <1>5, <1>6 DEF WokenWith
<1> QED
  BY <1>7, <1>8, <1>9, <1>10 DEF WokenUpTo, upto, r, t

(* one step of it *)
ResumeStep(x, s, i) == rt_thread_resume([x EXCEPT !.error[s[i]] = "ERROR"], s[i])

IsResumeChain(f, kk, s, n) ==
    f = [i \in 0..n |-> IF i = 0 THEN kk ELSE ResumeStep(f[i - 1], s, i)]

(* The recursive function of ipc_list_resume_all, for a list of any        *)
(* length, is a function: a chain of i wake-ups can always be made longer. *)
LEMMA ResumeAllChain ==
    ASSUME NEW kk, NEW s, NEW n \in Nat
    PROVE  \E f : IsResumeChain(f, kk, s, n)
<1> DEFINE Step(x, i) == ResumeStep(x, s, i)
           Chain(f, m) == f = [i \in 0..m |-> IF i = 0 THEN kk ELSE Step(f[i - 1], i)]
           T == {m \in Nat : ~ \E f : Chain(f, m)}
<1> SUFFICES \E f : Chain(f, n)
  BY DEF IsResumeChain
<1> HIDE DEF Step
<1>1. SUFFICES T = {}
  OBVIOUS
<1>2. SUFFICES ASSUME T # {} PROVE FALSE
  OBVIOUS
<1>3. PICK m \in T : \A y \in T : m <= y
  BY <1>2, SmallestOf
<1>4. m # 0
  <2>1. Chain([i \in 0..0 |-> kk], 0)
    OBVIOUS
  <2> QED
    BY <1>3, <2>1
<1>5. m - 1 \in Nat /\ m - 1 \notin T
  BY <1>3, <1>4
<1>6. PICK f : Chain(f, m - 1)
  BY <1>5
<1> DEFINE g == [i \in 0..m |-> IF i = m THEN Step(f[m - 1], m) ELSE f[i]]
<1>7. \A i \in 0..m : g[i] = IF i = 0 THEN kk ELSE Step(g[i - 1], i)
  <2> SUFFICES ASSUME NEW i \in 0..m PROVE g[i] = IF i = 0 THEN kk ELSE Step(g[i - 1], i)
    OBVIOUS
  <2>1. m \in Nat /\ m >= 1
    BY <1>3, <1>4
  <2>2. CASE i = m
    BY <2>1, <2>2, <1>4
  <2>3. CASE i # m
    <3>1. i \in 0..(m - 1)
      BY <2>1, <2>3
    <3>2. f[i] = IF i = 0 THEN kk ELSE Step(f[i - 1], i)
      BY <1>6, <3>1
    <3>3. i # 0 => i - 1 \in 0..m /\ i - 1 # m
      BY <2>1, <3>1
    <3> QED
      BY <2>3, <3>2, <3>3
  <2> QED
    BY <2>2, <2>3
<1>8. Chain(g, m)
  <2>1. g = [i \in 0..m |-> g[i]]
    OBVIOUS
  <2> HIDE DEF g
  <2> QED
    BY <1>7, <2>1
<1> QED
  BY <1>3, <1>8

LEMMA SaneResumeAll ==
    ASSUME KernelAssumption, NEW kk, Sane(kk), NEW q \in Queues
    PROVE  WokenUpTo(kk, ipc_list_resume_all(kk, q), kk.waitq[q], Len(kk.waitq[q]))
<1> DEFINE s == kk.waitq[q]
           f == CHOOSE g : IsResumeChain(g, kk, s, Len(s))
           T == {i \in 0..Len(s) : ~WokenUpTo(kk, f[i], s, i)}
<1>1. s \in Lists1(Threads) /\ kk.error \in [Threads -> Errors]
  BY DEF Sane, KernelState
<1>2. Len(s) \in Nat /\ Elems(s) \subseteq Threads /\ DOMAIN s = 1..Len(s)
  BY <1>1, ListElems
<1>3. Elems(s) \subseteq Suspended(kk)
  BY <1>2 DEF Sane, ExactBut, Agrees, Suspended
<1>4. ipc_list_resume_all(kk, q) = f[Len(s)]
  BY DEF ipc_list_resume_all, ResumeStep, IsResumeChain
<1> HIDE DEF s
<1>5. f = [i \in 0..Len(s) |-> IF i = 0 THEN kk ELSE ResumeStep(f[i - 1], s, i)]
  <2>1. IsResumeChain(f, kk, s, Len(s))
    BY <1>2, ResumeAllChain
  <2> QED
    BY <2>1 DEF IsResumeChain
<1> HIDE DEF f
<1>6. T = {}
  <2> SUFFICES ASSUME T # {} PROVE FALSE
    OBVIOUS
  <2>1. T \subseteq Nat
    BY <1>2
  <2>2. PICK i \in T : \A y \in T : i <= y
    BY <2>1, SmallestOf
  <2>3. WokenUpTo(kk, kk, s, 0)
    <3>1. {s[j] : j \in 1..0} = {}
      OBVIOUS
    <3> QED
      BY <3>1 DEF WokenUpTo
  <2>4. f[0] = kk
    BY <1>2, <1>5
  <2>5. i # 0
    BY <2>2, <2>3, <2>4
  <2>6. i \in 1..Len(s) /\ i - 1 \in 0..Len(s) /\ i - 1 \notin T
    BY <1>2, <2>2, <2>5
  <2>7. WokenUpTo(kk, f[i - 1], s, i - 1)
    BY <2>6
  <2>8. WokenUpTo(kk, ResumeStep(f[i - 1], s, i), s, i)
    BY <1>1, <1>3, <2>6, <2>7, WokenUpToNext DEF ResumeStep
  <2>9. f[i] = ResumeStep(f[i - 1], s, i)
    BY <1>5, <2>2, <2>5
  <2> QED
    BY <2>2, <2>8, <2>9
<1>7. WokenUpTo(kk, f[Len(s)], s, Len(s))
  BY <1>2, <1>6
<1> QED
  BY <1>4, <1>7 DEF s

----------------------------------------------------------------------------
(* The steps that every application takes.  Quiet ones wake nobody.        *)
Quiet(kk, r) ==
    /\ Sane(r) /\ r.waitq = kk.waitq /\ r.error = kk.error /\ r.nest = kk.nest
    /\ Suspended(r) = Suspended(kk)

(* The current thread goes on, and no thread became ready. *)
RunsOn(kk, r) ==
    r.cur = kk.cur /\ r.prio = kk.prio /\ r.stat[r.cur] = kk.stat[r.cur] /\ r.group \subseteq kk.group

(* rt_schedule has chosen the current thread. *)
Dispatched(r) ==
    r.nest = 0 => r.stat[r.cur] = "running" /\ \A p \in r.group : r.prio[r.cur] <= p

(* The timer of t has run out. *)
TimedOut(kk, r, t) ==
    /\ Sane(r) /\ r.nest = kk.nest /\ r.error = [kk.error EXCEPT ![t] = "ETIMEOUT"]
    /\ Suspended(r) = Suspended(kk) \ {t}
    /\ QueuesLose(kk, r, t)

LEMMA QuietSchedule ==
    ASSUME KernelAssumption, NEW kk, Sane(kk)
    PROVE  /\ Quiet(kk, rt_schedule(kk)) /\ Dispatched(rt_schedule(kk))
           /\ OthersStay(kk, rt_schedule(kk))
<1> DEFINE r == rt_schedule(kk)
<1>1. /\ Sane(r) /\ SameObjects(kk, r) /\ Suspended(r) = Suspended(kk)
      /\ kk.nest = 0 => /\ \A p \in r.group : r.prio[r.cur] <= p
                        /\ r.stat[r.cur] = "running"
      /\ r.cur # kk.cur => kk.nest = 0 /\ kk.stat[r.cur] = "ready"
      /\ \A u \in Threads : \/ r.stat[u] = kk.stat[u]
                             \/ {r.stat[u], kk.stat[u]} \subseteq {"ready", "running"}
  BY SaneSchedule
<1> HIDE DEF r
<1>2. Quiet(kk, r) /\ Dispatched(r) /\ OthersStay(kk, r)
  BY <1>1 DEF Quiet, Dispatched, SameObjects, OthersStay
<1> QED
  BY <1>2 DEF r

(* What only changes time slices, timers, yields and the interrupt flag. *)
LEMMA QuietFrame ==
    ASSUME NEW kk, NEW r, Sane(kk), r \in KernelState,
           r.table = kk.table, r.group = kk.group, r.waitq = kk.waitq, r.defunct = kk.defunct,
           r.timers = kk.timers, r.stat = kk.stat, r.prio = kk.prio, r.cur = kk.cur,
           r.nest = kk.nest, r.error = kk.error
    PROVE  Quiet(kk, r) /\ RunsOn(kk, r) /\ OthersStay(kk, r)
<1>1. Sane(r)
  BY SaneFrame
<1> QED
  BY <1>1 DEF Quiet, RunsOn, Suspended, OthersStay

LEMMA TickIncreaseStep ==
    ASSUME KernelAssumption, Sane(k), TickIncrease
    PROVE  Quiet(k, k') /\ (RunsOn(k, k') \/ Dispatched(k')) /\ OthersStay(k, k')
<1> DEFINE c == k.cur
           k1 == [k EXCEPT !.isr = TRUE,
                           !.left = [t \in Threads |-> IF @[t] > 0 THEN @[t] - 1 ELSE 0],
                           !.slice[c] = IF @ = 1 THEN InitTick ELSE @ - 1]
           k2 == [k1 EXCEPT !.yield = @ \cup {c}]
<1>1. k' = IF k.slice[c] = 1 THEN rt_schedule(k2) ELSE k1
  BY DEF TickIncrease
<1>2. /\ k \in KernelState /\ c \in Threads /\ InitTick \in Nat \ {0}
      /\ k.slice \in [Threads -> 1..InitTick] /\ k.left \in [Threads -> Nat]
  BY DEF Sane, KernelState, KernelAssumption
<1>3. /\ [t \in Threads |-> IF k.left[t] > 0 THEN k.left[t] - 1 ELSE 0] \in [Threads -> Nat]
      /\ (IF k.slice[c] = 1 THEN InitTick ELSE k.slice[c] - 1) \in 1..InitTick
  BY <1>2
<1>4. /\ k1 \in KernelState
      /\ k1.table = k.table /\ k1.group = k.group /\ k1.waitq = k.waitq /\ k1.defunct = k.defunct
      /\ k1.timers = k.timers /\ k1.stat = k.stat /\ k1.prio = k.prio /\ k1.cur = k.cur
      /\ k1.nest = k.nest /\ k1.error = k.error
  BY <1>2, <1>3 DEF KernelState
<1> HIDE DEF k1
<1>5. Quiet(k, k1) /\ RunsOn(k, k1) /\ OthersStay(k, k1)
  BY <1>4, QuietFrame
<1>6. /\ k2 \in KernelState
      /\ k2.table = k1.table /\ k2.group = k1.group /\ k2.waitq = k1.waitq /\ k2.defunct = k1.defunct
      /\ k2.timers = k1.timers /\ k2.stat = k1.stat /\ k2.prio = k1.prio /\ k2.cur = k1.cur
      /\ k2.nest = k1.nest /\ k2.error = k1.error
  BY <1>2, <1>4 DEF KernelState
<1> HIDE DEF k2
<1>7. Quiet(k1, k2)
  BY <1>5, <1>6, QuietFrame DEF Quiet
<1>8. /\ Quiet(k2, rt_schedule(k2)) /\ Dispatched(rt_schedule(k2))
      /\ OthersStay(k2, rt_schedule(k2))
  BY <1>7, QuietSchedule DEF Quiet
<1>9. Quiet(k, rt_schedule(k2)) /\ OthersStay(k, rt_schedule(k2))
  <2>1. Quiet(k, rt_schedule(k2))
    BY <1>5, <1>7, <1>8 DEF Quiet
  <2>2. k2.timers = k.timers /\ k2.stat = k.stat /\ k2.cur = k.cur /\ k2.nest = k.nest
    BY <1>4, <1>6
  <2> QED
    BY <1>8, <2>1, <2>2 DEF OthersStay
<1> QED
  BY <1>1, <1>5, <1>8, <1>9

LEMMA TimerCheckStep ==
    ASSUME KernelAssumption, Sane(k), TimerCheck
    PROVE  /\ OthersStay(k, k')
           /\ \/ Quiet(k, k') /\ RunsOn(k, k')
              \/ Dispatched(k') /\ \E t \in Suspended(k) : TimedOut(k, k', t)
<1>1. CASE k.timers # <<>> /\ k.left[Head(k.timers)] = 0
  <2> DEFINE t == Head(k.timers)
             r == thread_timeout(rt_timer_stop(k, t), t)
  <2>1. t \in Elems(k.timers) /\ t \in Threads
    <3>1. k.timers \in Lists1(Threads)
      BY DEF Sane, KernelState
    <3> QED
      BY <1>1, <3>1, ListElems
  <2>2. k.stat[t] = "suspend"
    BY <2>1 DEF Sane, ExactBut, Agrees
  <2>3. k' = r
    BY <1>1 DEF TimerCheck
  <2> HIDE DEF t
  <2>4. /\ Sane(r) /\ r.nest = k.nest
        /\ r.error = [k.error EXCEPT ![t] = "ETIMEOUT"]
        /\ Suspended(r) = Suspended(k) \ {t}
        /\ QueuesLose(k, r, t)
        /\ k.nest = 0 => /\ \A p \in r.group : r.prio[r.cur] <= p
                         /\ r.stat[r.cur] = "running"
        /\ OthersStay(k, r)
    BY <2>1, <2>2, SaneTimeout
  <2> HIDE DEF r
  <2>5. t \in Suspended(k) /\ TimedOut(k, r, t) /\ Dispatched(r)
    BY <2>1, <2>2, <2>4 DEF TimedOut, Suspended, Dispatched
  <2> QED
    BY <2>3, <2>4, <2>5
<1>2. CASE ~(k.timers # <<>> /\ k.left[Head(k.timers)] = 0)
  <2> DEFINE r == [k EXCEPT !.isr = FALSE]
  <2>1. k' = r
    BY <1>2 DEF TimerCheck
  <2>2. /\ r \in KernelState
        /\ r.table = k.table /\ r.group = k.group /\ r.waitq = k.waitq /\ r.defunct = k.defunct
        /\ r.timers = k.timers /\ r.stat = k.stat /\ r.prio = k.prio /\ r.cur = k.cur
        /\ r.nest = k.nest /\ r.error = k.error
    BY DEF Sane, KernelState
  <2> HIDE DEF r
  <2>3. Quiet(k, r) /\ RunsOn(k, r) /\ OthersStay(k, r)
    BY <2>2, QuietFrame
  <2> QED
    BY <2>1, <2>3
<1> QED
  BY <1>1, <1>2

LEMMA ScheduleStepQuiet ==
    ASSUME KernelAssumption, Sane(k), NEW t \in Threads, Schedule(t)
    PROVE  Quiet(k, k') /\ Dispatched(k') /\ OthersStay(k, k')
<1>1. k' = rt_schedule(k)
  BY DEF Schedule
<1>2. Quiet(k, rt_schedule(k)) /\ Dispatched(rt_schedule(k)) /\ OthersStay(k, rt_schedule(k))
  BY QuietSchedule
<1> QED
  BY <1>1, <1>2

LEMMA ThreadYieldStep ==
    ASSUME KernelAssumption, Sane(k), NEW t \in Threads, ThreadYield(t)
    PROVE  Quiet(k, k') /\ RunsOn(k, k') /\ OthersStay(k, k')
<1> DEFINE r == [k EXCEPT !.slice[t] = InitTick, !.yield = @ \cup {t}]
<1>1. k' = r
  BY DEF ThreadYield
<1>2. InitTick \in 1..InitTick
  BY DEF KernelAssumption
<1>3. /\ r \in KernelState
      /\ r.table = k.table /\ r.group = k.group /\ r.waitq = k.waitq /\ r.defunct = k.defunct
      /\ r.timers = k.timers /\ r.stat = k.stat /\ r.prio = k.prio /\ r.cur = k.cur
      /\ r.nest = k.nest /\ r.error = k.error
  BY <1>2 DEF Sane, KernelState
<1> HIDE DEF r
<1> QED
  BY <1>1, <1>3, QuietFrame

LEMMA IdleLoopStep ==
    ASSUME KernelAssumption, Sane(k), IdleLoop
    PROVE  /\ Quiet(k, k') /\ RunsOn(k, k') /\ k'.timers = k.timers
           /\ \A u \in Threads : k'.stat[u] = k.stat[u] \/ k.stat[u] = "close"
<1>1. CASE k.defunct = <<>>
  <2>1. k' = k
    BY <1>1 DEF IdleLoop
  <2> QED
    BY <2>1 DEF Quiet, RunsOn
<1>2. CASE k.defunct # <<>>
  <2> DEFINE h == Head(k.defunct)
             r == [k EXCEPT !.defunct = Tail(@), !.stat[h] = "freed"]
  <2>1. k' = r
    BY <1>2 DEF IdleLoop
  <2>2. k.defunct \in Lists1(Threads) /\ k \in KernelState
    BY DEF Sane, KernelState
  <2>3. h \in Elems(k.defunct) /\ h \in Threads
    BY <1>2, <2>2, ListElems
  <2>4. k.stat[h] = "close"
    BY <2>3 DEF Sane, ExactBut, Agrees
  <2>5. Tail(k.defunct) \in Lists1(Threads) /\ Elems(Tail(k.defunct)) = Elems(k.defunct) \ {h}
    BY <1>2, <2>2, ListPop
  <2> HIDE DEF h
  <2>6. /\ r \in KernelState
        /\ r.table = k.table /\ r.group = k.group /\ r.waitq = k.waitq /\ r.defunct = Tail(k.defunct)
        /\ r.timers = k.timers /\ r.prio = k.prio /\ r.cur = k.cur
        /\ r.nest = k.nest /\ r.error = k.error
        /\ \A u \in Threads : r.stat[u] = IF u = h THEN "freed" ELSE k.stat[u]
    BY <2>2, <2>3, <2>5 DEF KernelState, Statuses
  <2> HIDE DEF r
  <2>7. /\ GroupExact(k) /\ QueuesApart(k) /\ \A u \in Threads : Agrees(k, u)
    BY DEF Sane, ExactBut
  <2>8. GroupExact(r) /\ QueuesApart(r)
    BY <2>6, <2>7 DEF GroupExact, QueuesApart
  <2>9. ASSUME NEW u \in Threads PROVE Agrees(r, u)
    BY <2>3, <2>4, <2>5, <2>6, <2>7 DEF Agrees
  <2>10. h # k.cur /\ h # IdleThread /\ k.cur \in Threads /\ IdleThread \in Threads
    <3>1. k.cur = IdleThread
      BY DEF IdleLoop
    <3> QED
      BY <2>2, <2>4, <3>1 DEF Sane, KernelAssumption
  <2>11. Sane(r)
    BY <2>6, <2>8, <2>9, <2>10 DEF Sane, ExactBut, OneRuns
  <2>12. Suspended(r) = Suspended(k)
    BY <2>4, <2>6 DEF Suspended
  <2>13. Quiet(k, r) /\ RunsOn(k, r)
    BY <2>6, <2>10, <2>11, <2>12 DEF Quiet, RunsOn
  <2> QED
    BY <2>1, <2>4, <2>6, <2>13
<1> QED
  BY <1>1, <1>2

LEMMA ThreadStartupStep ==
    ASSUME KernelAssumption, Sane(k), NEW t \in Threads, NEW u \in Threads, ThreadStartup(t, u)
    PROVE  Quiet(k, k') /\ k'.cur = k.cur /\ k'.stat[k.cur] = k.stat[k.cur]
<1> DEFINE a == [k EXCEPT !.stat[u] = "suspend", !.yield = @ \ {u}]
           r == rt_thread_resume(a, u)
<1>1. k' = r /\ k.stat[u] = "init"
  BY DEF ThreadStartup
<1>2. k \in KernelState /\ u # k.cur /\ u # IdleThread /\ k.cur \in Threads
  BY <1>1 DEF Sane, KernelState
<1>3. /\ a \in KernelState
      /\ a.table = k.table /\ a.group = k.group /\ a.waitq = k.waitq /\ a.defunct = k.defunct
      /\ a.timers = k.timers /\ a.prio = k.prio /\ a.cur = k.cur
      /\ a.nest = k.nest /\ a.error = k.error
      /\ \A z \in Threads : a.stat[z] = IF z = u THEN "suspend" ELSE k.stat[z]
  BY <1>2 DEF KernelState, Statuses
<1> HIDE DEF a
<1>4. /\ GroupExact(k) /\ QueuesApart(k) /\ \A z \in Threads : Agrees(k, z)
  BY DEF Sane, ExactBut
<1>5. GroupExact(a) /\ QueuesApart(a)
  BY <1>3, <1>4 DEF GroupExact, QueuesApart
<1>6. ASSUME NEW z \in Threads PROVE Agrees(a, z)
  BY <1>1, <1>3, <1>4 DEF Agrees
<1>7. Sane(a)
  BY <1>2, <1>3, <1>5, <1>6 DEF Sane, ExactBut, OneRuns, KernelAssumption
<1>8. a.stat[u] = "suspend"
  BY <1>3
<1>9. /\ Sane(r) /\ SameCore(a, r) /\ Suspended(r) = Suspended(a) \ {u}
      /\ r.stat = [a.stat EXCEPT ![u] = IF u = a.cur THEN "running" ELSE "ready"]
      /\ QueuesLose(a, r, u)
  BY <1>7, <1>8, SaneResume
<1> HIDE DEF r
<1>10. r.waitq = k.waitq
  <2>1. \A q \in Queues : u \notin Elems(k.waitq[q])
    BY <1>1, <1>4 DEF Agrees
  <2>2. \A q \in Queues : r.waitq[q] = k.waitq[q]
    BY <1>3, <1>9, <2>1 DEF QueuesLose
  <2> QED
    BY <1>2, <1>9, <2>2 DEF Sane, KernelState
<1>11. Suspended(r) = Suspended(k)
  BY <1>1, <1>3, <1>9 DEF Suspended
<1>12. r.stat[k.cur] = k.stat[k.cur]
  BY <1>2, <1>3, <1>9 DEF Sane, KernelState
<1> QED
  BY <1>1, <1>3, <1>9, <1>10, <1>11, <1>12 DEF Quiet, SameCore

(* The kernel starts in such a state. *)
LEMMA SaneInit ==
    ASSUME KernelAssumption, KernelInit
    PROVE  Sane(k) /\ k.nest = 0 /\ Suspended(k) = {} /\ k.stat[k.cur] = "running"
<1>1. /\ IdleThread \in Threads /\ MainThread \in Threads /\ MainThread # IdleThread
      /\ MaxPrio \in Nat \ {0} /\ InitPrio \in [Threads -> Prios]
      /\ InitPrio[IdleThread] = MaxPrio - 1 /\ InitTick \in Nat \ {0} /\ MaxPrio - 1 \in Prios
  BY DEF KernelAssumption, Prios
<1>2. <<>> \in Lists1(Threads) /\ Elems(<<>>) = {}
  BY DEF Lists1, Elems
<1>3. <<IdleThread>> \in Lists1(Threads) /\ Elems(<<IdleThread>>) = {IdleThread}
  BY <1>1 DEF Lists1, Elems
<1>4. k \in KernelState
  BY <1>1, <1>2, <1>3 DEF KernelInit, KernelState, Statuses, Errors
<1>5. /\ k.cur = MainThread /\ k.nest = 0 /\ k.group = {MaxPrio - 1} /\ k.prio = InitPrio
      /\ \A t \in Threads : k.stat[t] = CASE t = MainThread -> "running" [] t = IdleThread -> "ready"
                                          [] OTHER -> "init"
      /\ \A p \in Prios : k.table[p] = IF p = MaxPrio - 1 THEN <<IdleThread>> ELSE <<>>
      /\ \A q \in Queues : k.waitq[q] = <<>>
      /\ k.timers = <<>> /\ k.defunct = <<>>
  BY DEF KernelInit
<1>6. \A p \in Prios : Elems(k.table[p]) = IF p = MaxPrio - 1 THEN {IdleThread} ELSE {}
  BY <1>2, <1>3, <1>5
<1>7. GroupExact(k) /\ QueuesApart(k)
  <2>1. \A q \in Queues : Elems(k.waitq[q]) = {}
    BY <1>2, <1>5
  <2>2. QueuesApart(k)
    BY <2>1 DEF QueuesApart
  <2>3. \A p \in Prios : Elems(k.table[p]) # {} <=> p = MaxPrio - 1
    BY <1>6
  <2>4. {p \in Prios : Elems(k.table[p]) # {}} = {MaxPrio - 1}
    BY <1>1, <2>3
  <2> QED
    BY <1>5, <2>2, <2>4 DEF GroupExact
<1>8. ASSUME NEW t \in Threads PROVE Agrees(k, t)
  BY <1>1, <1>2, <1>5, <1>6 DEF Agrees
<1>9. Sane(k)
  BY <1>1, <1>4, <1>5, <1>7, <1>8 DEF Sane, ExactBut, OneRuns
<1> QED
  BY <1>1, <1>5, <1>9 DEF Suspended

(* What Sane means in the terms of RtKernel. *)
LEMMA SaneMeans ==
    ASSUME Sane(k), \A t \in Threads : ~Removed(t) \/ k.stat[t] # "ready"
    PROVE  ReadyTableExact /\ TimerOfSuspended
<1>1. /\ k \in KernelState /\ GroupExact(k) /\ QueuesApart(k)
      /\ \A t \in Threads : Agrees(k, t)
  BY DEF Sane, ExactBut
<1>2. /\ \A p \in Prios : k.table[p] \in Lists1(Threads)
      /\ \A q \in Queues : k.waitq[q] \in Lists1(Threads)
      /\ k.defunct \in Lists1(Threads) /\ k.timers \in Lists1(Threads)
  BY <1>1 DEF KernelState
<1>3. k.group = {p \in Prios : k.table[p] # <<>>}
  <2>1. ASSUME NEW p \in Prios PROVE k.table[p] # <<>> <=> Elems(k.table[p]) # {}
    <3>1. k.table[p] \in Lists1(Threads)
      BY <1>2
    <3> QED
      BY <3>1, ListElems
  <2> QED
    BY <1>1, <2>1 DEF GroupExact
<1>4. \A s \in Lists, t \in Threads : \A i, j \in Times(s, t) : i = j
  <2> SUFFICES ASSUME NEW s \in Lists, NEW t \in Threads, NEW i \in Times(s, t), NEW j \in Times(s, t)
               PROVE  i = j
    OBVIOUS
  <2>1. s \in Lists1(Threads)
    BY <1>2 DEF Lists
  <2>2. i \in 1..Len(s) /\ j \in 1..Len(s) /\ s[i] = s[j]
    BY <2>1, ListElems DEF Times
  <2> QED
    BY <2>1, <2>2 DEF Lists1
<1>5. ReadyTableExact
  BY <1>1, <1>3, <1>4 DEF ReadyTableExact, Agrees, QueuesApart
<1>6. Elems(k.timers) \subseteq Threads
  BY <1>2, ListElems
<1>7. TimerOfSuspended
  BY <1>1, <1>6 DEF TimerOfSuspended, Agrees
<1> QED
  BY <1>5, <1>7

(* call: where each thread is in which call *)
Calls(ops, objs) == [pc : {"user", "sched", "back"}, op : ops, obj : objs]

LEMMA KernelTypes ==
    ASSUME Sane(k), NEW ops, NEW objs, call \in [Threads -> Calls(ops, objs)]
    PROVE  KernelTypeOK
<1>1. Lists1(Threads) \subseteq Seq(Threads)
  BY DEF Lists1
<1> QED
  BY <1>1 DEF Sane, KernelState, KernelTypeOK, Calls, Statuses, Errors

(* Where no call is cut, no thread is between two lists. *)
LEMMA SaneWhole ==
    ASSUME Sane(k), NEW ops, NEW objs, call \in [Threads -> Calls(ops, objs)]
    PROVE  ReadyTableExact /\ TimerOfSuspended
<1>1. \A t \in Threads : ~Removed(t)
  BY DEF Removed, Calls
<1> QED
  BY <1>1, SaneMeans

(***************************************************************************)
(* Applications in which threads wait for objects of ipc.c and mempool.c   *)
(***************************************************************************)
(* What the calls in progress have in common.  In its own code a thread is *)
(* in the middle of nothing, the idle thread never is in the middle of     *)
(* anything, and a thread that suspended itself goes no further than       *)
(* rt_schedule.                                                            *)
CallsFit(ops, objs) ==
    /\ call \in [Threads -> Calls(ops, objs)]
    /\ \A t \in Threads : call[t].pc = "user" => call[t].op = "none"
    /\ call[IdleThread].op = "none"
    /\ k.stat[k.cur] = "suspend" => call[k.cur].pc = "sched"

(* The calls in progress stay what they are. *)
CallsKept(ops, objs) ==
    /\ \A t \in Threads :
          call'[t].op = call[t].op /\ (call[t].op # "none" => call'[t].obj = call[t].obj)
    /\ CallsFit(ops, objs)'

LEMMA CallsFitInit ==
    ASSUME KernelAssumption, KernelInit, NEW ops, NEW objs, "none" \in ops, "none" \in objs
    PROVE  CallsFit(ops, objs)
<1>1. k.stat[k.cur] = "running"
  BY SaneInit
<1>2. call = [t \in Threads |-> UserCode]
  BY DEF KernelInit
<1>3. UserCode \in Calls(ops, objs) /\ UserCode.op = "none"
  BY DEF UserCode, Calls
<1>4. call \in [Threads -> Calls(ops, objs)] /\ \A t \in Threads : call[t].op = "none"
  BY <1>2, <1>3
<1> QED
  BY <1>1, <1>4 DEF CallsFit, KernelAssumption

LEMMA CallsSame ==
    ASSUME NEW ops, NEW objs, CallsFit(ops, objs), UNCHANGED call,
           (k'.cur = k.cur /\ k'.stat[k'.cur] = k.stat[k.cur]) \/ k'.stat[k'.cur] # "suspend"
    PROVE  CallsKept(ops, objs)
BY DEF CallsFit, CallsKept

(* The thread calling goes on to rt_schedule, in the middle of op or of    *)
(* nothing.                                                                *)
LEMMA CallsToSchedule ==
    ASSUME KernelAssumption, NEW ops, NEW objs, NEW op \in ops, NEW obj \in objs,
           CallsFit(ops, objs), NEW t \in Threads, t = k.cur, t # IdleThread,
           ThenSchedule(t, op, obj), k'.cur = k.cur
    PROVE  /\ CallsFit(ops, objs)' /\ call'[t].op = op
           /\ \A x \in Threads \ {t} : call'[x] = call[x]
<1>1. call' = [call EXCEPT ![t] = [pc |-> "sched", op |-> op, obj |-> obj]]
  BY DEF ThenSchedule
<1>2. [pc |-> "sched", op |-> op, obj |-> obj] \in Calls(ops, objs)
  BY DEF Calls
<1>3. call \in [Threads -> Calls(ops, objs)] /\ IdleThread \in Threads
  BY DEF CallsFit, KernelAssumption
<1>4. /\ call' \in [Threads -> Calls(ops, objs)] /\ call'[t].pc = "sched" /\ call'[t].op = op
      /\ \A x \in Threads \ {t} : call'[x] = call[x]
  BY <1>1, <1>2, <1>3
<1>5. call'[IdleThread].op = "none"
  BY <1>3, <1>4 DEF CallsFit
<1>6. \A x \in Threads : call'[x].pc = "user" => call'[x].op = "none"
  BY <1>4 DEF CallsFit
<1> QED
  BY <1>4, <1>5, <1>6 DEF CallsFit

LEMMA CallsYield ==
    ASSUME KernelAssumption, NEW ops, NEW objs, "none" \in ops, "none" \in objs,
           CallsFit(ops, objs), NEW t \in Threads, Running(t),
           ThenSchedule(t, "none", "none"), k'.cur = k.cur
    PROVE  CallsKept(ops, objs)
<1>1. t = k.cur /\ t # IdleThread /\ call[t].op = "none"
  BY DEF Running, CallsFit
<1>2. /\ CallsFit(ops, objs)' /\ call'[t].op = "none"
      /\ \A x \in Threads \ {t} : call'[x] = call[x]
  BY <1>1, CallsToSchedule
<1> QED
  BY <1>1, <1>2 DEF CallsKept

(* The call of the current thread ends. *)
EndsCall(t) == call' = [call EXCEPT ![t] = UserCode]

LEMMA CallsEnd ==
    ASSUME KernelAssumption, NEW ops, NEW objs, "none" \in ops, "none" \in objs,
           CallsFit(ops, objs), NEW t \in Threads, t = k.cur, call[t].pc \in {"user", "back"},
           EndsCall(t), k'.cur = k.cur, k'.stat = k.stat
    PROVE  /\ CallsFit(ops, objs)' /\ call'[t].op = "none" /\ k.stat[t] # "suspend"
           /\ \A x \in Threads \ {t} : call'[x] = call[x]
<1>1. UserCode \in Calls(ops, objs) /\ UserCode.op = "none"
  BY DEF UserCode, Calls
<1>2. call \in [Threads -> Calls(ops, objs)] /\ k.stat[t] # "suspend"
  BY DEF CallsFit
<1>3. /\ call' \in [Threads -> Calls(ops, objs)] /\ call'[t].op = "none"
      /\ \A x \in Threads \ {t} : call'[x] = call[x]
  BY <1>1, <1>2 DEF EndsCall
<1>4. /\ \A x \in Threads : call'[x].pc = "user" => call'[x].op = "none"
      /\ call'[IdleThread].op = "none"
  BY <1>3 DEF CallsFit, KernelAssumption
<1> QED
  BY <1>2, <1>3, <1>4 DEF CallsFit

(* The steps every application makes beside its calls. *)
CommonStep ==
    \/ TickIncrease \/ TimerCheck \/ IdleLoop
    \/ \E t \in Threads : \/ Schedule(t) \/ ThreadYield(t)
                           \/ \E u \in Threads : ThreadStartup(t, u)

(* They leave the calls in progress and the waiting threads alone, but for *)
(* one whose time has run out.                                             *)
LEMMA CommonStepEffect ==
    ASSUME KernelAssumption, Sane(k), k.nest = 0, NEW ops, NEW objs, "none" \in ops, "none" \in objs,
           CallsFit(ops, objs), CommonStep
    PROVE  /\ CallsKept(ops, objs)
           /\ Quiet(k, k') \/ \E t \in Suspended(k) : TimedOut(k, k', t)
<1>1. CASE TickIncrease
  <2>1. Quiet(k, k') /\ (RunsOn(k, k') \/ Dispatched(k')) /\ UNCHANGED call
    BY <1>1, TickIncreaseStep DEF TickIncrease
  <2>2. (k'.cur = k.cur /\ k'.stat[k'.cur] = k.stat[k.cur]) \/ k'.stat[k'.cur] # "suspend"
    BY <2>1 DEF Quiet, RunsOn, Dispatched
  <2> QED
    BY <2>1, <2>2, CallsSame
<1>2. CASE TimerCheck
  <2>1. UNCHANGED call
    BY <1>2 DEF TimerCheck
  <2>2. CASE Quiet(k, k') /\ RunsOn(k, k')
    <3>1. k'.cur = k.cur /\ k'.stat[k'.cur] = k.stat[k.cur]
      BY <2>2 DEF RunsOn
    <3> QED
      BY <2>1, <2>2, <3>1, CallsSame
  <2>3. CASE Dispatched(k') /\ \E t \in Suspended(k) : TimedOut(k, k', t)
    <3>1. k'.stat[k'.cur] # "suspend"
      BY <2>3 DEF Dispatched, TimedOut
    <3> QED
      BY <2>1, <2>3, <3>1, CallsSame
  <2> QED
    BY <1>2, <2>2, <2>3, TimerCheckStep
<1>3. CASE IdleLoop
  <2>1. Quiet(k, k') /\ RunsOn(k, k') /\ UNCHANGED call
    BY <1>3, IdleLoopStep DEF IdleLoop
  <2>2. k'.cur = k.cur /\ k'.stat[k'.cur] = k.stat[k.cur]
    BY <2>1 DEF RunsOn
  <2> QED
    BY <2>1, <2>2, CallsSame
<1>4. ASSUME NEW t \in Threads, Schedule(t) PROVE CallsKept(ops, objs) /\ Quiet(k, k')
  <2>1. Quiet(k, k') /\ Dispatched(k')
    BY <1>4, ScheduleStepQuiet
  <2>2. /\ call \in [Threads -> Calls(ops, objs)] /\ call[IdleThread].op = "none"
        /\ \A x \in Threads : call[x].pc = "user" => call[x].op = "none"
    BY DEF CallsFit
  <2> DEFINE c == IF call[t].op = "none" THEN UserCode ELSE [call[t] EXCEPT !.pc = "back"]
  <2>3. /\ c \in Calls(ops, objs) /\ c.op = call[t].op /\ (c.pc = "user" => c.op = "none")
        /\ call[t].op # "none" => c.obj = call[t].obj
    BY <2>2 DEF Calls, UserCode
  <2>4. call' = [call EXCEPT ![t] = c]
    BY <1>4 DEF Schedule
  <2> HIDE DEF c
  <2>5. /\ call' \in [Threads -> Calls(ops, objs)]
        /\ \A x \in Threads : call'[x].op = call[x].op /\ (call'[x].pc = "user" => call'[x].op = "none")
        /\ \A x \in Threads : call[x].op # "none" => call'[x].obj = call[x].obj
    BY <2>2, <2>3, <2>4
  <2>6. k'.stat[k'.cur] # "suspend"
    BY <2>1 DEF Quiet, Dispatched
  <2>7. CallsKept(ops, objs)
    BY <2>2, <2>5, <2>6 DEF CallsKept, CallsFit, KernelAssumption
  <2> QED
    BY <2>1, <2>7
<1>5. ASSUME NEW t \in Threads, ThreadYield(t) PROVE CallsKept(ops, objs) /\ Quiet(k, k')
  <2>1. Quiet(k, k') /\ RunsOn(k, k')
    BY <1>5, ThreadYieldStep
  <2>2. k'.cur = k.cur
    BY <2>1 DEF RunsOn
  <2> QED
    BY <1>5, <2>1, <2>2, CallsYield DEF ThreadYield
<1>6. ASSUME NEW t \in Threads, NEW u \in Threads, ThreadStartup(t, u)
      PROVE  CallsKept(ops, objs) /\ Quiet(k, k')
  <2>1. Quiet(k, k') /\ k'.cur = k.cur
    BY <1>6, ThreadStartupStep
  <2> QED
    BY <1>6, <2>1, CallsYield DEF ThreadStartup
<1> QED
  BY <1>1, <1>2, <1>3, <1>4, <1>5, <1>6 DEF CommonStep

(* t waits on the list q, thread->error is e, and perhaps its timer runs.  *)
Blocked(kk, r, q, t, e) ==
    /\ Sane(r) /\ r.cur = kk.cur /\ r.nest = kk.nest /\ r.isr = kk.isr /\ r.prio = kk.prio
    /\ r.error = [kk.error EXCEPT ![t] = e]
    /\ r.stat = [kk.stat EXCEPT ![t] = "suspend"]
    /\ Suspended(r) = Suspended(kk) \cup {t}
    /\ Elems(r.waitq[q]) = Elems(kk.waitq[q]) \cup {t}
    /\ \A z \in Queues \ {q} : r.waitq[z] = kk.waitq[z]

(* The end of every call that waits: the timer is started if there is a    *)
(* time to wait.                                                           *)
LEMMA BlockedWithTimer ==
    ASSUME KernelAssumption, NEW kk, Sane(kk), NEW t \in Threads, NEW q \in Queues,
           NEW e \in Errors, NEW n \in Nat \cup {Forever},
           NEW s, WaitsOn([kk EXCEPT !.error[t] = e], s, q, t)
    PROVE  Blocked(kk, IF n > 0 THEN rt_timer_start(s, t, n) ELSE s, q, t, e)
<1> DEFINE a == [kk EXCEPT !.error[t] = e]
           b == rt_timer_start(s, t, n)
           r == IF n > 0 THEN b ELSE s
<1>1. /\ Sane(a) /\ a.error = [kk.error EXCEPT ![t] = e] /\ a.cur = kk.cur /\ a.nest = kk.nest
      /\ a.isr = kk.isr /\ a.prio = kk.prio /\ a.stat = kk.stat /\ a.waitq = kk.waitq
  BY SaneError
<1>2. WaitsOn(a, s, q, t)
  OBVIOUS
<1> HIDE DEF a
<1>3. /\ Sane(s) /\ SameCore(a, s) /\ s.stat = [a.stat EXCEPT ![t] = "suspend"]
      /\ Suspended(s) = Suspended(a) \cup {t}
      /\ Elems(s.waitq[q]) = Elems(a.waitq[q]) \cup {t}
      /\ \A z \in Queues \ {q} : s.waitq[z] = a.waitq[z]
  BY <1>2 DEF WaitsOn
<1>4. kk.stat \in [Threads -> Statuses]
  BY DEF Sane, KernelState
<1>5. /\ Sane(r) /\ SameCore(s, r) /\ r.stat = s.stat /\ r.waitq = s.waitq
  <2>1. CASE n > 0
    <3>1. n \in Nat /\ s.stat[t] = "suspend"
      BY <1>1, <1>3, <1>4, <2>1 DEF Forever
    <3>2. Sane(b) /\ SameCore(s, b) /\ b.stat = s.stat /\ b.waitq = s.waitq
      BY <1>3, <2>1, <3>1, SaneTimerStart
    <3> HIDE DEF b
    <3> QED
      BY <2>1, <3>2
  <2>2. CASE ~(n > 0)
    BY <1>3, <2>2 DEF SameCore
  <2> QED
    BY <2>1, <2>2
<1> HIDE DEF r
<1>6. Suspended(a) = Suspended(kk) /\ Suspended(r) = Suspended(s)
  BY <1>1, <1>5 DEF Suspended
<1>7. Blocked(kk, r, q, t, e)
  BY <1>1, <1>3, <1>5, <1>6 DEF SameCore, Blocked
<1> QED
  BY <1>7 DEF r

(* rt_sem_take, rt_mb_recv and the others that use _ipc_list_suspend       *)
LEMMA BlockedOnIpcList ==
    ASSUME KernelAssumption, NEW kk, Sane(kk), NEW t \in Threads \ {IdleThread},
           kk.stat[t] # "suspend", NEW q \in Queues, NEW e \in Errors, NEW n \in Nat \cup {Forever}
    PROVE  LET s == ipc_list_suspend([kk EXCEPT !.error[t] = e], q, t)
           IN Blocked(kk, IF n > 0 THEN rt_timer_start(s, t, n) ELSE s, q, t, e)
<1> DEFINE a == [kk EXCEPT !.error[t] = e]
<1>1. Sane(a) /\ a.stat = kk.stat
  BY SaneError
<1>2. WaitsOn(a, ipc_list_suspend(a, q, t), q, t)
  BY <1>1, SaneIpcSuspend
<1> QED
  BY <1>2, BlockedWithTimer

(* Everybody on the list q is woken and told that the object is gone. *)
Emptied(kk, r, q) ==
    /\ Sane(r) /\ r.cur = kk.cur /\ r.nest = kk.nest /\ r.isr = kk.isr /\ r.prio = kk.prio
    /\ Suspended(r) = Suspended(kk) \ Elems(kk.waitq[q])
    /\ r.waitq[q] = <<>>
    /\ \A z \in Queues : Elems(r.waitq[z]) = Elems(kk.waitq[z]) \ Elems(kk.waitq[q])
    /\ \A u \in Threads : r.error[u] = IF u \in Elems(kk.waitq[q]) THEN "ERROR" ELSE kk.error[u]
    /\ r.stat[r.cur] = "running" \/ r.stat[r.cur] = kk.stat[r.cur]

LEMMA AllWokenOf ==
    ASSUME KernelAssumption, NEW kk, Sane(kk), NEW q \in Queues
    PROVE  Emptied(kk, ipc_list_resume_all(kk, q), q)
<1> DEFINE r == ipc_list_resume_all(kk, q)
           s == kk.waitq[q]
<1>1. WokenUpTo(kk, r, s, Len(s))
  BY SaneResumeAll
<1> HIDE DEF r
<1>2. s \in Lists1(Threads)
  BY DEF Sane, KernelState
<1>3. {s[j] : j \in 1..Len(s)} = Elems(s)
  <2>1. DOMAIN s = 1..Len(s)
    BY <1>2, ListElems
  <2> QED
    BY <2>1 DEF Elems
<1>4. /\ Sane(r) /\ r.cur = kk.cur /\ r.nest = kk.nest /\ r.isr = kk.isr /\ r.prio = kk.prio
      /\ Suspended(r) = Suspended(kk) \ Elems(s)
      /\ \A z \in Queues : Elems(r.waitq[z]) = Elems(kk.waitq[z]) \ Elems(s)
      /\ \A u \in Threads : r.error[u] = IF u \in Elems(s) THEN "ERROR" ELSE kk.error[u]
      /\ r.stat[r.cur] = "running" \/ r.stat[r.cur] = kk.stat[r.cur]
  BY <1>1, <1>3 DEF WokenUpTo
<1>5. r.waitq[q] = <<>>
  <2>1. r.waitq[q] \in Lists1(Threads) /\ Elems(r.waitq[q]) = {}
    BY <1>4 DEF Sane, KernelState
  <2> QED
    BY <2>1, ListElems
<1>6. Emptied(kk, r, q)
  BY <1>4, <1>5 DEF Emptied
<1> QED
  BY <1>6 DEF r
=============================================================================
