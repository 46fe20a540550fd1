-------------------------- MODULE RtMailboxProofs ---------------------------
(***************************************************************************)
(* A mailbox, for any number of threads, any size of the ring, any mails,  *)
(* priorities, waiting times and calls of the application, with a clock or *)
(* without.                                                                *)
(***************************************************************************)
EXTENDS RtMailbox, RtKernelLemmas, FiniteSetTheorems

(* Receivers and senders: the same argument serves for both. *)
Sides == {"recv", "send"}

ListOf(s) == IF s = "recv" THEN RecvList ELSE SendList

(* What a thread of side s is looking for: mails, or free places. *)
Stock(s) == IF s = "recv" THEN mb.entry ELSE Size - mb.entry

Covered(s) == k.waitq[ListOf(s)] # <<>> => Stock(s) <= Cardinality(Woken(s))

MailCallsFit  == CallsFit({"none", "send", "recv"}, {"none", "mb"})
MailCallsKept == CallsKept({"none", "send", "recv"}, {"none", "mb"})

(* The suspended threads are those on the two lists, in the middle of the  *)
(* call that belongs to the list, and a sender knows what it sends.        *)
MailWaits ==
    /\ Suspended(k) = Elems(k.waitq[RecvList]) \cup Elems(k.waitq[SendList])
    /\ \A s \in Sides : \A t \in Elems(k.waitq[ListOf(s)]) : call[t].op = s
    /\ wait \in [Threads -> Timeouts \cup Nat]
    /\ mail \in [Threads -> Mails \cup {NoMail}]
    /\ \A t \in Threads : call[t].op = "send" => mail[t] \in Mails

(* the place i after the offset o *)
Slot(o, i) == IF o + i < Size THEN o + i ELSE o + i - Size

(* The mails in the ring m reach from out_offset to in_offset. *)
IsRing(m) ==
    /\ m \in [pool : [0..(Size - 1) -> Mails \cup {NoMail}],
              in_offset : 0..(Size - 1), out_offset : 0..(Size - 1),
              entry : 0..Size, alive : BOOLEAN]
    /\ m.in_offset = Slot(m.out_offset, m.entry)

RingBooks == IsRing(mb) /\ got \in Mails \cup {NoMail}

(* The inductive invariant. *)
MailInv ==
    /\ Sane(k) /\ k.nest = 0
    /\ MailCallsFit /\ MailWaits /\ RingBooks /\ NoLostWakeup

(***************************************************************************)
(* The ring and the queue it stands for                                    *)
(***************************************************************************)
MailsIn(m) == [i \in 1..m.entry |-> m.pool[(m.out_offset + i - 1) % Size]]

(* Offsets wrap around once at most. *)
LEMMA SlotIs ==
    ASSUME MailboxAssumption, NEW o \in 0..(Size - 1), NEW i \in 0..Size
    PROVE  (o + i) % Size = Slot(o, i) /\ Slot(o, i) \in 0..(Size - 1)
<1>1. Size \in Nat /\ Size > 0 /\ o \in Int /\ 0 <= o /\ o < Size /\ i \in Int /\ 0 <= i /\ i <= Size
  BY DEF MailboxAssumption
<1>2. ASSUME NEW z \in Int, 0 <= z, z < Size
      PROVE  z % Size = z /\ (z + Size) % Size = z
  BY <1>1, <1>2
<1>3. CASE o + i < Size
  BY <1>1, <1>2, <1>3 DEF Slot
<1>4. CASE o + i >= Size
  <2>1. o + i - Size \in Int /\ 0 <= o + i - Size /\ o + i - Size < Size
    BY <1>1, <1>4
  <2>2. (o + i - Size) + Size = o + i
    BY <1>1
  <2> QED
    BY <1>1, <1>2, <1>4, <2>1, <2>2 DEF Slot
<1> QED
  BY <1>1, <1>3, <1>4

LEMMA RingIs ==
    ASSUME MailboxAssumption, NEW m, IsRing(m)
    PROVE  /\ MailsIn(m) \in Seq(Mails \cup {NoMail}) /\ Len(MailsIn(m)) = m.entry
           /\ m.entry \in 0..Size /\ Size \in Nat \ {0} /\ m.out_offset \in 0..(Size - 1)
           /\ m.in_offset \in 0..(Size - 1) /\ m.in_offset = Slot(m.out_offset, m.entry)
           /\ \A i \in 1..m.entry : /\ MailsIn(m)[i] = m.pool[Slot(m.out_offset, i - 1)]
                                     /\ Slot(m.out_offset, i - 1) \in 0..(Size - 1)
<1>1. /\ m.entry \in 0..Size /\ Size \in Nat \ {0} /\ m.out_offset \in 0..(Size - 1)
      /\ m.in_offset \in 0..(Size - 1) /\ m.pool \in [0..(Size - 1) -> Mails \cup {NoMail}]
      /\ m.in_offset = Slot(m.out_offset, m.entry)
  BY DEF IsRing, MailboxAssumption
<1>2. ASSUME NEW i \in 1..m.entry
      PROVE  /\ (m.out_offset + i - 1) % Size = Slot(m.out_offset, i - 1)
             /\ Slot(m.out_offset, i - 1) \in 0..(Size - 1)
             /\ m.pool[Slot(m.out_offset, i - 1)] \in Mails \cup {NoMail}
  <2>1. i - 1 \in 0..Size /\ m.out_offset + i - 1 = m.out_offset + (i - 1)
    BY <1>1
  <2> QED
    BY <1>1, <2>1, SlotIs
<1>3. MailsIn(m) \in [1..m.entry -> Mails \cup {NoMail}]
  BY <1>2 DEF MailsIn
<1>4. MailsIn(m) \in Seq(Mails \cup {NoMail}) /\ Len(MailsIn(m)) = m.entry
  BY <1>1, <1>3
<1> QED
  BY <1>1, <1>2, <1>4 DEF MailsIn

(* Two sequences with the same elements. *)
LEMMA SameMails ==
    ASSUME NEW S, NEW a \in Seq(S), NEW b \in Seq(S), Len(a) = Len(b),
           \A i \in 1..Len(a) : a[i] = b[i]
    PROVE  a = b
BY SeqEqual

(* The fields of a ring, one by one. *)
LEMMA RingFields ==
    ASSUME NEW m, NEW M,
           m \in [pool : [0..(Size - 1) -> M], in_offset : 0..(Size - 1),
                 out_offset : 0..(Size - 1), entry : 0..Size, alive : BOOLEAN]
    PROVE  /\ m.pool \in [0..(Size - 1) -> M] /\ m.in_offset \in 0..(Size - 1)
           /\ m.out_offset \in 0..(Size - 1) /\ m.entry \in 0..Size /\ m.alive \in BOOLEAN
           /\ m = [pool |-> m.pool, in_offset |-> m.in_offset, out_offset |-> m.out_offset,
                   entry |-> m.entry, alive |-> m.alive]
OBVIOUS

(* A mail sent joins the queue behind the others. *)
LEMMA PutIsAppend ==
    ASSUME MailboxAssumption, NEW m, IsRing(m), NEW v \in Mails, m.entry # Size
    PROVE  LET r == [m EXCEPT !.pool[m.in_offset] = v,
                              !.in_offset = (@ + 1) % Size, !.entry = @ + 1]
           IN IsRing(r) /\ r.entry = m.entry + 1 /\ MailsIn(r) = Append(MailsIn(m), v)
<1> DEFINE o == m.out_offset
           n == m.entry
           at == m.in_offset
           M == Mails \cup {NoMail}
           r == [m EXCEPT !.pool[at] = v, !.in_offset = (@ + 1) % Size, !.entry = @ + 1]
<1>1. m \in [pool : [0..(Size - 1) -> M], in_offset : 0..(Size - 1),
             out_offset : 0..(Size - 1), entry : 0..Size, alive : BOOLEAN]
  BY DEF IsRing
<1>2. /\ n \in 0..(Size - 1) /\ Size \in Nat \ {0} /\ o \in 0..(Size - 1)
      /\ at \in 0..(Size - 1) /\ at = Slot(o, n)
  BY RingIs
<1>3. (at + 1) % Size = Slot(at, 1) /\ Slot(at, 1) \in 0..(Size - 1)
  <2>1. 1 \in 0..Size
    BY <1>2
  <2> QED
    BY <1>2, <2>1, SlotIs
<1>4. Slot(at, 1) = Slot(o, n + 1)
  BY <1>2 DEF Slot
<1> DEFINE p == [m.pool EXCEPT ![at] = v]
<1>5. r = [pool |-> p, in_offset |-> Slot(at, 1), out_offset |-> o, entry |-> n + 1, alive |-> m.alive]
  <2>1. r = [m EXCEPT !.pool = p, !.in_offset = Slot(at, 1), !.entry = n + 1]
    BY <1>3
  <2> HIDE DEF p, r
  <2> QED
    BY <1>1, <2>1, RingFields
<1> HIDE DEF r
<1>6. p \in [0..(Size - 1) -> M] /\ n + 1 \in 0..Size /\ m.alive \in BOOLEAN
  BY <1>1, <1>2, RingFields
<1> HIDE DEF p
<1>7. IsRing(r)
  BY <1>2, <1>3, <1>4, <1>5, <1>6 DEF IsRing
<1>8. /\ MailsIn(m) \in Seq(M) /\ Len(MailsIn(m)) = n
      /\ \A i \in 1..n : MailsIn(m)[i] = m.pool[Slot(o, i - 1)] /\ Slot(o, i - 1) \in 0..(Size - 1)
  BY RingIs
<1>9. /\ MailsIn(r) \in Seq(M) /\ Len(MailsIn(r)) = n + 1
      /\ \A i \in 1..(n + 1) : MailsIn(r)[i] = p[Slot(o, i - 1)]
  <2>1. r.entry = n + 1 /\ r.pool = p /\ r.out_offset = o
    BY <1>5
  <2> QED
    BY <1>7, <2>1, RingIs
<1> DEFINE s == MailsIn(m)
           z == Append(s, v)
<1>10. /\ z \in Seq(M) /\ Len(z) = n + 1 /\ \A i \in 1..n : z[i] = s[i]
       /\ z[n + 1] = v
  <2> HIDE DEF s
  <2>1. s \in Seq(M) /\ Len(s) = n /\ v \in M
    BY <1>8 DEF s
  <2> QED
    BY <1>2, <2>1
<1> HIDE DEF z
<1>11. ASSUME NEW i \in 1..(n + 1) PROVE MailsIn(r)[i] = z[i]
  <2>1. CASE i = n + 1
    <3>1. i - 1 = n
      BY <1>2, <2>1
    <3> QED
      BY <1>1, <1>2, <1>9, <1>10, <2>1, <3>1 DEF p
  <2>2. CASE i # n + 1
    <3>1. i \in 1..n
      BY <1>2, <2>2
    <3>2. Slot(o, i - 1) # at
      BY <1>2, <3>1 DEF Slot
    <3>3. p[Slot(o, i - 1)] = m.pool[Slot(o, i - 1)]
      BY <1>1, <1>8, <3>1, <3>2, RingFields DEF p
    <3> QED
      BY <1>8, <1>9, <1>10, <3>1, <3>3
  <2> QED
    BY <2>1, <2>2
<1>12. MailsIn(r) = z
  BY <1>9, <1>10, <1>11, SameMails
<1> QED
  BY <1>5, <1>7, <1>12 DEF r, z

(* The first mail is received and the others move up. *)
LEMMA GetIsTail ==
    ASSUME MailboxAssumption, NEW m, IsRing(m), m.entry # 0
    PROVE  LET r == [m EXCEPT !.out_offset = (@ + 1) % Size, !.entry = @ - 1]
           IN /\ IsRing(r) /\ r.entry = m.entry - 1
              /\ MailsIn(m) # <<>> /\ MailsIn(r) = Tail(MailsIn(m))
              /\ m.pool[m.out_offset] = Head(MailsIn(m))
              /\ m.pool[m.out_offset] \in Mails \cup {NoMail}
<1> DEFINE o == m.out_offset
           n == m.entry
           M == Mails \cup {NoMail}
           r == [m EXCEPT !.out_offset = (@ + 1) % Size, !.entry = @ - 1]
<1>1. m \in [pool : [0..(Size - 1) -> M], in_offset : 0..(Size - 1),
             out_offset : 0..(Size - 1), entry : 0..Size, alive : BOOLEAN]
  BY DEF IsRing
<1>2. /\ n \in 1..Size /\ Size \in Nat \ {0} /\ o \in 0..(Size - 1)
      /\ m.in_offset = Slot(o, n)
  BY RingIs
<1>3. (o + 1) % Size = Slot(o, 1) /\ Slot(o, 1) \in 0..(Size - 1)
  <2>1. 1 \in 0..Size
    BY <1>2
  <2> QED
    BY <1>2, <2>1, SlotIs
<1>4. Slot(o, n) = Slot(Slot(o, 1), n - 1)
  BY <1>2 DEF Slot
<1>5. r = [pool |-> m.pool, in_offset |-> Slot(o, n), out_offset |-> Slot(o, 1), entry |-> n - 1,
           alive |-> m.alive]
  <2>1. r = [m EXCEPT !.out_offset = Slot(o, 1), !.entry = n - 1]
    BY <1>3
  <2> HIDE DEF r
  <2> QED
    BY <1>1, <1>2, <2>1, RingFields
<1> HIDE DEF r
<1>6. n - 1 \in 0..Size /\ m.pool \in [0..(Size - 1) -> M] /\ m.alive \in BOOLEAN
      /\ Slot(o, n) \in 0..(Size - 1)
  BY <1>1, <1>2, RingFields
<1>7. IsRing(r)
  BY <1>3, <1>4, <1>5, <1>6 DEF IsRing
<1>8. /\ MailsIn(m) \in Seq(M) /\ Len(MailsIn(m)) = n
      /\ \A i \in 1..n : MailsIn(m)[i] = m.pool[Slot(o, i - 1)]
  BY RingIs
<1>9. /\ MailsIn(r) \in Seq(M) /\ Len(MailsIn(r)) = n - 1
      /\ \A i \in 1..(n - 1) : MailsIn(r)[i] = m.pool[Slot(Slot(o, 1), i - 1)]
  <2>1. r.entry = n - 1 /\ r.pool = m.pool /\ r.out_offset = Slot(o, 1)
    BY <1>5
  <2> QED
    BY <1>7, <2>1, RingIs
<1> DEFINE s == MailsIn(m)
<1>10. s \in Seq(M) /\ Len(s) = n /\ s # <<>>
  BY <1>2, <1>8
<1> HIDE DEF s
<1>11. /\ Tail(s) \in Seq(M) /\ Len(Tail(s)) = n - 1 /\ Head(s) = s[1]
       /\ \A i \in 1..(n - 1) : Tail(s)[i] = s[i + 1]
  BY <1>2, <1>10, HeadTailProperties
<1>12. ASSUME NEW i \in 1..(n - 1) PROVE MailsIn(r)[i] = Tail(s)[i]
  <2>1. i + 1 \in 1..n /\ (i + 1) - 1 = i
    BY <1>2
  <2>2. Slot(Slot(o, 1), i - 1) = Slot(o, i)
    BY <1>2 DEF Slot
  <2>3. Tail(s)[i] = m.pool[Slot(o, (i + 1) - 1)]
    BY <1>8, <1>11, <2>1 DEF s
  <2>4. MailsIn(r)[i] = m.pool[Slot(o, i)]
    BY <1>9, <2>2
  <2> QED
    BY <2>1, <2>3, <2>4
<1>13. MailsIn(r) = Tail(s)
  BY <1>9, <1>11, <1>12, SameMails
<1>14. s[1] = m.pool[o]
  <2>1. 1 \in 1..n /\ Slot(o, 1 - 1) = o
    BY <1>2 DEF Slot
  <2> QED
    BY <1>8, <2>1 DEF s
<1>15. m.pool[o] \in M
  BY <1>1, <1>2
<1>16. s # <<>> /\ MailsIn(r) = Tail(s) /\ m.pool[o] = Head(s)
  BY <1>10, <1>11, <1>13, <1>14
<1> QED
  BY <1>5, <1>7, <1>15, <1>16 DEF r, s

(* An urgent mail goes in front of the others. *)
LEMMA UrgentIsFirst ==
    ASSUME MailboxAssumption, NEW m, IsRing(m), NEW v \in Mails, m.entry # Size
    PROVE  LET at == IF m.out_offset > 0 THEN m.out_offset - 1 ELSE Size - 1
               r == [m EXCEPT !.out_offset = at, !.pool[at] = v, !.entry = @ + 1]
           IN IsRing(r) /\ r.entry = m.entry + 1 /\ MailsIn(r) = <<v>> \o MailsIn(m)
<1> DEFINE o == m.out_offset
           n == m.entry
           M == Mails \cup {NoMail}
           at == IF o > 0 THEN o - 1 ELSE Size - 1
           r == [m EXCEPT !.out_offset = at, !.pool[at] = v, !.entry = @ + 1]
<1>1. m \in [pool : [0..(Size - 1) -> M], in_offset : 0..(Size - 1),
             out_offset : 0..(Size - 1), entry : 0..Size, alive : BOOLEAN]
  BY DEF IsRing
<1>2. /\ n \in 0..(Size - 1) /\ Size \in Nat \ {0} /\ o \in 0..(Size - 1)
      /\ m.in_offset = Slot(o, n)
  BY RingIs
<1>3. at \in 0..(Size - 1) /\ Slot(at, 1) = o /\ Slot(at, 0) = at
  BY <1>2 DEF Slot
<1> HIDE DEF at
<1>4. Slot(o, n) = Slot(at, n + 1)
  BY <1>2, <1>3 DEF Slot
<1> DEFINE p == [m.pool EXCEPT ![at] = v]
<1>5. r = [pool |-> p, in_offset |-> Slot(o, n), out_offset |-> at, entry |-> n + 1, alive |-> m.alive]
  <2>1. r = [m EXCEPT !.out_offset = at, !.pool = p, !.entry = n + 1]
    OBVIOUS
  <2> HIDE DEF p, r
  <2> QED
    BY <1>1, <1>2, <2>1, RingFields
<1> HIDE DEF r
<1>6. p \in [0..(Size - 1) -> M] /\ n + 1 \in 0..Size /\ m.alive \in BOOLEAN
  <2>1. m.pool \in [0..(Size - 1) -> M] /\ v \in M /\ m.alive \in BOOLEAN
    BY <1>1, RingFields
  <2> QED
    BY <1>2, <1>3, <2>1
<1> HIDE DEF p
<1>7. IsRing(r)
  <2>1. Slot(at, n + 1) \in 0..(Size - 1)
    BY <1>1, <1>2, <1>4, RingFields
  <2> QED
    BY <1>3, <1>4, <1>5, <1>6, <2>1 DEF IsRing
<1>8. /\ MailsIn(m) \in Seq(M) /\ Len(MailsIn(m)) = n
      /\ \A i \in 1..n : MailsIn(m)[i] = m.pool[Slot(o, i - 1)] /\ Slot(o, i - 1) \in 0..(Size - 1)
  BY RingIs
<1>9. /\ MailsIn(r) \in Seq(M) /\ Len(MailsIn(r)) = n + 1
      /\ \A i \in 1..(n + 1) : MailsIn(r)[i] = p[Slot(at, i - 1)]
  <2>1. r.entry = n + 1 /\ r.pool = p /\ r.out_offset = at
    BY <1>5
  <2> QED
    BY <1>7, <2>1, RingIs
<1> DEFINE s == MailsIn(m)
           z == <<v>> \o s
<1>10. /\ z \in Seq(M) /\ Len(z) = n + 1 /\ z[1] = v
       /\ \A i \in 2..(n + 1) : z[i] = s[i - 1]
  <2> HIDE DEF s
  <2>1. s \in Seq(M) /\ Len(s) = n /\ v \in M
    BY <1>8 DEF s
  <2>2. <<v>> \in Seq(M) /\ Len(<<v>>) = 1 /\ <<v>>[1] = v
    BY <2>1
  <2> QED
    BY <1>2, <2>1, <2>2, ConcatProperties
<1> HIDE DEF z
<1>11. ASSUME NEW i \in 1..(n + 1) PROVE MailsIn(r)[i] = z[i]
  <2>1. CASE i = 1
    <3>1. i - 1 = 0
      BY <2>1
    <3> QED
      BY <1>1, <1>2, <1>3, <1>9, <1>10, <2>1, <3>1, RingFields DEF p
  <2>2. CASE i # 1
    <3>1. i - 1 \in 1..n /\ i \in 2..(n + 1)
      BY <1>2, <2>2
    <3>2. Slot(at, i - 1) # at /\ Slot(at, i - 1) = Slot(o, (i - 1) - 1)
      BY <1>2, <1>3, <3>1 DEF Slot
    <3>3. p[Slot(at, i - 1)] = m.pool[Slot(o, (i - 1) - 1)]
      BY <1>1, <1>8, <3>1, <3>2, RingFields DEF p
    <3> QED
      BY <1>8, <1>9, <1>10, <3>1, <3>3
  <2> QED
    BY <2>1, <2>2
<1>12. MailsIn(r) = z
  BY <1>9, <1>10, <1>11, SameMails
<1> QED
  BY <1>5, <1>7, <1>12 DEF r, z, at
(***************************************************************************)
(* Threads on the way to a mail or to a free place                         *)
(***************************************************************************)
LEMMA WokenIs ==
    ASSUME NEW s \in Sides
    PROVE  /\ Woken(s) = {t \in Threads : call[t].op = s /\ t \notin Suspended(k) /\ k.error[t] = "EOK"}
           /\ Woken(s)' = {t \in Threads : call'[t].op = s /\ t \notin Suspended(k') /\ k'.error[t] = "EOK"}
BY DEF Woken, Suspended

LEMMA WokenFinite ==
    ASSUME MailboxAssumption, NEW s \in Sides
    PROVE  /\ IsFiniteSet(Woken(s)) /\ Cardinality(Woken(s)) \in Nat
           /\ IsFiniteSet(Woken(s)') /\ Cardinality(Woken(s)') \in Nat
<1>1. Woken(s) \subseteq Threads /\ Woken(s)' \subseteq Threads
  BY DEF Woken
<1>2. IsFiniteSet(Woken(s)) /\ IsFiniteSet(Woken(s)')
  BY <1>1, FS_Subset DEF MailboxAssumption
<1> QED
  BY <1>2, FS_CardinalityType

LEMMA BothCovered ==
    /\ NoLostWakeup <=> \A s \in Sides : Covered(s)
    /\ NoLostWakeup' <=> \A s \in Sides : Covered(s)'
BY DEF NoLostWakeup, Covered, Sides, ListOf, Stock

LEMMA StockIs ==
    ASSUME MailboxAssumption, NEW s \in Sides
    PROVE  /\ ListOf(s) \in Queues
           /\ RingBooks => Stock(s) \in Nat
           /\ RingBooks' => Stock(s)' \in Nat
<1>1. Size \in Nat
  BY DEF MailboxAssumption
<1>2. RingBooks => mb.entry \in 0..Size
  BY DEF RingBooks, IsRing
<1>3. RingBooks' => mb'.entry \in 0..Size
  BY DEF RingBooks, IsRing
<1>4. Stock(s) = (IF s = "recv" THEN mb.entry ELSE Size - mb.entry)
      /\ Stock(s)' = (IF s = "recv" THEN mb'.entry ELSE Size - mb'.entry)
  BY DEF Stock
<1>5. ListOf(s) \in Queues
  BY DEF ListOf, MailboxAssumption
<1> QED
  BY <1>1, <1>2, <1>3, <1>4, <1>5

(* With nothing to be had, or without waiters, there is nothing to lose. *)
LEMMA NothingToLose ==
    ASSUME MailboxAssumption, NEW s \in Sides, Stock(s)' = 0 \/ k'.waitq[ListOf(s)] = <<>>
    PROVE  Covered(s)'
BY WokenFinite DEF Covered, ListOf

(* Nobody new waits, nobody woken is lost and nothing comes in. *)
LEMMA WokenStay ==
    ASSUME MailboxAssumption, NEW s \in Sides, Covered(s), Stock(s) \in Nat, Stock(s)' = Stock(s),
           k'.waitq[ListOf(s)] # <<>> => k.waitq[ListOf(s)] # <<>>, Woken(s) \subseteq Woken(s)'
    PROVE  Covered(s)'
<1>1. /\ IsFiniteSet(Woken(s)') /\ Cardinality(Woken(s)) \in Nat /\ Cardinality(Woken(s)') \in Nat
  BY WokenFinite
<1>2. Cardinality(Woken(s)) <= Cardinality(Woken(s)')
  BY <1>1, FS_Subset
<1> QED
  BY <1>1, <1>2 DEF Covered, ListOf

(* One thread gets what it was woken for, or was not waiting. *)
LEMMA OneLeaves ==
    ASSUME MailboxAssumption, NEW s \in Sides, Covered(s), Stock(s) \in Nat,
           Stock(s)' = Stock(s) - 1, NEW t \in Threads,
           k'.waitq[ListOf(s)] # <<>> => k.waitq[ListOf(s)] # <<>>,
           Woken(s) \ {t} \subseteq Woken(s)'
    PROVE  Covered(s)'
<1>1. /\ IsFiniteSet(Woken(s)) /\ IsFiniteSet(Woken(s)')
      /\ Cardinality(Woken(s)) \in Nat /\ Cardinality(Woken(s)') \in Nat
  BY WokenFinite
<1>2. Cardinality(Woken(s)) - 1 <= Cardinality(Woken(s) \ {t}) /\ IsFiniteSet(Woken(s) \ {t})
  <2>1. /\ IsFiniteSet(Woken(s) \ {t})
        /\ Cardinality(Woken(s) \ {t})
             = IF t \in Woken(s) THEN Cardinality(Woken(s)) - 1 ELSE Cardinality(Woken(s))
    BY <1>1, FS_RemoveElement
  <2> QED
    BY <1>1, <2>1
<1>3. Cardinality(Woken(s) \ {t}) <= Cardinality(Woken(s)') /\ Cardinality(Woken(s) \ {t}) \in Nat
  BY <1>1, <1>2, FS_Subset, FS_CardinalityType
<1>4. Cardinality(Woken(s)) - 1 <= Cardinality(Woken(s)')
  BY <1>1, <1>2, <1>3
<1> QED
  BY <1>1, <1>4 DEF Covered, ListOf

(* Something comes in, and a thread is woken for it. *)
LEMMA OneJoins ==
    ASSUME MailboxAssumption, NEW s \in Sides, Covered(s), Stock(s) \in Nat,
           Stock(s)' = Stock(s) + 1, NEW u \in Threads \ Woken(s),
           k.waitq[ListOf(s)] # <<>>, Woken(s) \cup {u} \subseteq Woken(s)'
    PROVE  Covered(s)'
<1>1. /\ IsFiniteSet(Woken(s)) /\ IsFiniteSet(Woken(s)')
      /\ Cardinality(Woken(s)) \in Nat /\ Cardinality(Woken(s)') \in Nat
  BY WokenFinite
<1>2. IsFiniteSet(Woken(s) \cup {u}) /\ Cardinality(Woken(s) \cup {u}) = Cardinality(Woken(s)) + 1
  BY <1>1, FS_AddElement
<1>3. Cardinality(Woken(s) \cup {u}) <= Cardinality(Woken(s)')
  BY <1>1, FS_Subset
<1>4. Stock(s) <= Cardinality(Woken(s))
  BY DEF Covered
<1>5. Stock(s)' <= Cardinality(Woken(s)')
  BY <1>1, <1>2, <1>3, <1>4
<1> QED
  BY <1>5 DEF Covered

(***************************************************************************)
(* The steps                                                               *)
(***************************************************************************)
(* What MailInv says of each side. *)
LEMMA SideMeans ==
    ASSUME MailboxAssumption, MailInv, NEW s \in Sides
    PROVE  /\ ListOf(s) \in Queues /\ Stock(s) \in Nat /\ Covered(s)
           /\ Elems(k.waitq[ListOf(s)]) \subseteq Suspended(k) /\ Suspended(k) \subseteq Threads
           /\ \A u \in Elems(k.waitq[ListOf(s)]) : call[u].op = s
           /\ k.error \in [Threads -> Errors] /\ k.waitq \in [Queues -> Lists1(Threads)]
<1>1. ListOf(s) \in Queues /\ Stock(s) \in Nat /\ Covered(s)
  BY StockIs, BothCovered DEF MailInv
<1>2. Elems(k.waitq[ListOf(s)]) \subseteq Suspended(k)
  BY DEF MailInv, MailWaits, ListOf, Sides
<1> QED
  BY <1>1, <1>2 DEF MailInv, MailWaits, Suspended, Sane, KernelState

(* A list without elements is empty. *)
LEMMA NobodyOn ==
    ASSUME NEW kk, Sane(kk), NEW q \in Queues
    PROVE  kk.waitq[q] = <<>> <=> Elems(kk.waitq[q]) = {}
<1>1. kk.waitq[q] \in Lists1(Threads)
  BY DEF Sane, KernelState
<1>2. kk.waitq[q] = <<>> => Elems(kk.waitq[q]) = {}
  BY DEF Elems
<1> QED
  BY <1>1, <1>2, ListElems

(* A step that wakes nobody. *)
LEMMA QuietKeeps ==
    ASSUME MailboxAssumption, MailInv, Quiet(k, k'), MailCallsKept, UNCHANGED <<mb, mail, got>>,
           wait' \in [Threads -> Timeouts \cup Nat]
    PROVE  MailInv'
<1>1. Sane(k') /\ k'.nest = 0 /\ k'.waitq = k.waitq /\ k'.error = k.error /\ Suspended(k') = Suspended(k)
  BY DEF Quiet, MailInv
<1>2. MailCallsFit' /\ \A t \in Threads : call'[t].op = call[t].op
  BY DEF MailCallsKept, CallsKept, MailCallsFit
<1>3. MailWaits'
  <2>1. \A s \in Sides : \A t \in Elems(k.waitq[ListOf(s)]) : t \in Threads /\ call'[t].op = s
    BY <1>2, SideMeans
  <2>2. Suspended(k') = Elems(k'.waitq[RecvList]) \cup Elems(k'.waitq[SendList])
    BY <1>1 DEF MailInv, MailWaits
  <2>3. \A t \in Threads : call'[t].op = "send" => mail'[t] \in Mails
    BY <1>2 DEF MailInv, MailWaits
  <2>4. mail' \in [Threads -> Mails \cup {NoMail}]
    BY DEF MailInv, MailWaits
  <2>5. \A s \in Sides : \A t \in Elems(k'.waitq[ListOf(s)]) : call'[t].op = s
    BY <1>1, <2>1
  <2> QED
    BY <2>2, <2>3, <2>4, <2>5 DEF MailWaits, ListOf
<1>4. RingBooks'
  BY DEF MailInv, RingBooks
<1>5. NoLostWakeup'
  <2> SUFFICES ASSUME NEW s \in Sides PROVE Covered(s)'
    BY BothCovered
  <2>1. Woken(s) \subseteq Woken(s)'
    BY <1>1, <1>2, WokenIs
  <2>2. Stock(s)' = Stock(s)
    BY DEF Stock
  <2> QED
    BY <1>1, <2>1, <2>2, SideMeans, WokenStay
<1> QED
  BY <1>1, <1>2, <1>3, <1>4, <1>5 DEF MailInv

(* The time of a waiting thread has run out. *)
LEMMA TimeoutKeeps ==
    ASSUME MailboxAssumption, MailInv, NEW u \in Suspended(k), TimedOut(k, k', u),
           MailCallsKept, UNCHANGED <<mb, wait, mail, got>>
    PROVE  MailInv'
<1>1. /\ Sane(k') /\ k'.nest = 0 /\ k'.error = [k.error EXCEPT ![u] = "ETIMEOUT"]
      /\ Suspended(k') = Suspended(k) \ {u}
      /\ \A q \in Queues : Elems(k'.waitq[q]) = Elems(k.waitq[q]) \ {u}
  BY DEF TimedOut, MailInv, QueuesLose
<1>2. MailCallsFit' /\ \A t \in Threads : call'[t].op = call[t].op
  BY DEF MailCallsKept, CallsKept, MailCallsFit
<1>3. MailWaits'
  <2>1. RecvList \in Queues /\ SendList \in Queues
    BY DEF MailboxAssumption
  <2>2. \A s \in Sides : \A t \in Elems(k'.waitq[ListOf(s)]) : call'[t].op = s
    BY <1>1, <1>2, SideMeans
  <2>3. Suspended(k') = Elems(k'.waitq[RecvList]) \cup Elems(k'.waitq[SendList])
    BY <1>1, <2>1 DEF MailInv, MailWaits
  <2>4. /\ wait' \in [Threads -> Timeouts \cup Nat] /\ mail' \in [Threads -> Mails \cup {NoMail}]
        /\ \A t \in Threads : call'[t].op = "send" => mail'[t] \in Mails
    BY <1>2 DEF MailInv, MailWaits
  <2> QED
    BY <2>2, <2>3, <2>4 DEF MailWaits, ListOf
<1>4. RingBooks'
  BY DEF MailInv, RingBooks
<1>5. NoLostWakeup'
  <2> SUFFICES ASSUME NEW s \in Sides PROVE Covered(s)'
    BY BothCovered
  <2>1. \A t \in Threads \ {u} : k'.error[t] = k.error[t]
    BY <1>1, SideMeans
  <2>2. Woken(s) \subseteq Woken(s)'
    BY <1>1, <1>2, <2>1, WokenIs
  <2>3. Stock(s)' = Stock(s)
    BY DEF Stock
  <2>4. k'.waitq[ListOf(s)] # <<>> => k.waitq[ListOf(s)] # <<>>
    <3>1. Sane(k) /\ ListOf(s) \in Queues
      BY SideMeans DEF MailInv
    <3>2. k.waitq[ListOf(s)] = <<>> => Elems(k.waitq[ListOf(s)]) = {}
      BY <3>1, NobodyOn
    <3>3. Elems(k'.waitq[ListOf(s)]) = {} => k'.waitq[ListOf(s)] = <<>>
      BY <1>1, <3>1, NobodyOn
    <3> QED
      BY <1>1, <3>1, <3>2, <3>3
  <2> QED
    BY <2>2, <2>3, <2>4, SideMeans, WokenStay
<1> QED
  BY <1>1, <1>2, <1>3, <1>4, <1>5 DEF MailInv
(* The last act of a call that has put something in or taken something     *)
(* out: the first of the other side is woken, if one waits.                *)
LEMMA WakeOneEffect ==
    ASSUME KernelAssumption, MailboxAssumption, MailInv, NEW t \in Threads, t = k.cur,
           t # IdleThread, call[t].pc \in {"user", "back"}, NEW s \in Sides, WakeOne(t, ListOf(s))
    PROVE  /\ Sane(k') /\ k'.nest = 0 /\ MailCallsFit' /\ call'[t].op = "none"
           /\ \A x \in Threads \ {t} : call'[x] = call[x]
           /\ t \notin Suspended(k)
           /\ \/ k' = k /\ k.waitq[ListOf(s)] = <<>>
              \/ \E u \in Elems(k.waitq[ListOf(s)]) :
                    /\ k'.error = [k.error EXCEPT ![u] = "EOK"]
                    /\ Suspended(k') = Suspended(k) \ {u}
                    /\ QueuesLose(k, k', u)
<1> DEFINE q == ListOf(s)
<1>1. Sane(k) /\ k.nest = 0 /\ MailCallsFit /\ q \in Queues
  BY SideMeans DEF MailInv
<1>2. CallsFit({"none", "send", "recv"}, {"none", "mb"}) /\ t \notin Suspended(k)
  BY <1>1 DEF MailCallsFit, CallsFit, Suspended
<1>3. CASE k.waitq[q] = <<>>
  <2>1. k' = k /\ EndsCall(t)
    BY <1>3 DEF WakeOne, EndsCall
  <2>2. /\ CallsFit({"none", "send", "recv"}, {"none", "mb"})' /\ call'[t].op = "none"
        /\ \A x \in Threads \ {t} : call'[x] = call[x]
    BY <1>2, <2>1, CallsEnd
  <2> QED
    BY <1>1, <1>2, <1>3, <2>1, <2>2 DEF MailCallsFit
<1>4. CASE k.waitq[q] # <<>>
  <2> DEFINE u == Head(k.waitq[q])
  <2>1. k' = ipc_list_resume(k, q) /\ ThenSchedule(t, "none", "none")
    BY <1>4 DEF WakeOne
  <2>2. u \in Elems(k.waitq[q]) /\ WokenWith(k, k', u, "EOK")
    BY <1>1, <1>4, <2>1, SaneIpcResume
  <2> HIDE DEF u
  <2>3. /\ Sane(k') /\ k'.error = [k.error EXCEPT ![u] = "EOK"] /\ k'.cur = k.cur /\ k'.nest = k.nest
        /\ Suspended(k') = Suspended(k) \ {u} /\ QueuesLose(k, k', u)
    BY <2>2 DEF WokenWith
  <2>4. /\ CallsFit({"none", "send", "recv"}, {"none", "mb"})' /\ call'[t].op = "none"
        /\ \A x \in Threads \ {t} : call'[x] = call[x]
    BY <1>2, <2>1, <2>3, CallsToSchedule
  <2> QED
    BY <1>1, <1>2, <2>2, <2>3, <2>4 DEF MailCallsFit
<1> QED
  BY <1>3, <1>4

(* A mail is put in (s = "recv") or taken out (s = "send"): there is one   *)
(* more of what side s is looking for and one less for the others, one of  *)
(* whom may have been t.                                                   *)
LEMMA PassKeeps ==
    ASSUME KernelAssumption, MailboxAssumption, MailInv, NEW t \in Threads, t = k.cur,
           t # IdleThread, call[t].pc \in {"user", "back"}, NEW s \in Sides, call[t].op # s,
           WakeOne(t, ListOf(s)), RingBooks', UNCHANGED wait,
           mail' \in [Threads -> Mails \cup {NoMail}], \A x \in Threads \ {t} : mail'[x] = mail[x],
           Stock(s)' = Stock(s) + 1, \A o \in Sides \ {s} : Stock(o)' = Stock(o) - 1
    PROVE  MailInv'
<1>1. /\ Sane(k') /\ k'.nest = 0 /\ MailCallsFit' /\ call'[t].op = "none"
      /\ \A x \in Threads \ {t} : call'[x] = call[x]
      /\ t \notin Suspended(k)
      /\ \/ k' = k /\ k.waitq[ListOf(s)] = <<>>
         \/ \E u \in Elems(k.waitq[ListOf(s)]) :
               /\ k'.error = [k.error EXCEPT ![u] = "EOK"]
               /\ Suspended(k') = Suspended(k) \ {u}
               /\ QueuesLose(k, k', u)
  BY WakeOneEffect
<1>2. RecvList \in Queues /\ SendList \in Queues
  BY DEF MailboxAssumption
<1>3. \A o \in Sides : Elems(k'.waitq[ListOf(o)]) \subseteq Elems(k.waitq[ListOf(o)])
  <2>1. \A o \in Sides : ListOf(o) \in Queues
    BY SideMeans
  <2>2. CASE k' = k
    BY <2>2
  <2>3. CASE \E u \in Elems(k.waitq[ListOf(s)]) : QueuesLose(k, k', u)
    BY <2>1, <2>3 DEF QueuesLose
  <2> QED
    BY <1>1, <2>2, <2>3
<1>4. MailWaits'
  <2>1. \A o \in Sides : \A x \in Elems(k'.waitq[ListOf(o)]) : call'[x].op = o
    BY <1>1, <1>3, SideMeans
  <2>2. Suspended(k') = Elems(k'.waitq[RecvList]) \cup Elems(k'.waitq[SendList])
    BY <1>1, <1>2 DEF MailInv, MailWaits, QueuesLose
  <2>3. wait' \in [Threads -> Timeouts \cup Nat]
    BY DEF MailInv, MailWaits
  <2>4. \A x \in Threads : call'[x].op = "send" => mail'[x] \in Mails
    BY <1>1 DEF MailInv, MailWaits
  <2> QED
    BY <2>1, <2>2, <2>3, <2>4 DEF MailWaits, ListOf
<1>5. Covered(s)'
  <2>1. CASE k' = k /\ k.waitq[ListOf(s)] = <<>>
    <3>1. k'.waitq[ListOf(s)] = <<>>
      BY <2>1
    <3> QED
      BY <3>1, NothingToLose
  <2>2. ASSUME NEW u \in Elems(k.waitq[ListOf(s)]), k'.error = [k.error EXCEPT ![u] = "EOK"],
               Suspended(k') = Suspended(k) \ {u}
        PROVE  Covered(s)'
    <3>1. u \in Threads /\ u \in Suspended(k) /\ call[u].op = s /\ u # t
      BY <1>1, SideMeans
    <3>2. call'[u].op = s /\ u \notin Suspended(k') /\ k'.error[u] = "EOK"
      BY <1>1, <2>2, <3>1, SideMeans
    <3>3. u \notin Woken(s) /\ t \notin Woken(s)
      BY <3>1, WokenIs
    <3>4. \A x \in Threads \ {u} : k'.error[x] = k.error[x]
      BY <2>2, SideMeans
    <3>5. \A x \in Woken(s) : x \in Threads \ {t, u} /\ call[x].op = s /\ x \notin Suspended(k)
                              /\ k.error[x] = "EOK"
      BY <3>3, WokenIs
    <3>6. \A x \in Woken(s) : call'[x].op = s /\ x \notin Suspended(k') /\ k'.error[x] = "EOK"
      BY <1>1, <2>2, <3>4, <3>5
    <3>7. Woken(s) \cup {u} \subseteq Woken(s)'
      BY <3>1, <3>2, <3>5, <3>6, WokenIs
    <3>8. k.waitq[ListOf(s)] # <<>>
      BY SideMeans, NobodyOn DEF MailInv
    <3> QED
      BY <3>1, <3>3, <3>7, <3>8, SideMeans, OneJoins
  <2> QED
    BY <1>1, <2>1, <2>2
<1>6. ASSUME NEW o \in Sides \ {s} PROVE Covered(o)'
  <2>1. k'.waitq[ListOf(o)] # <<>> => k.waitq[ListOf(o)] # <<>>
    <3>1. Sane(k) /\ ListOf(o) \in Queues
      BY SideMeans DEF MailInv
    <3>2. k.waitq[ListOf(o)] = <<>> => Elems(k.waitq[ListOf(o)]) = {}
      BY <3>1, NobodyOn
    <3>3. Elems(k'.waitq[ListOf(o)]) = {} => k'.waitq[ListOf(o)] = <<>>
      BY <1>1, <3>1, NobodyOn
    <3> QED
      BY <1>3, <3>2, <3>3
  <2>2. ASSUME NEW x \in Woken(o) \ {t} PROVE x \in Woken(o)'
    <3>1. x \in Threads \ {t} /\ call[x].op = o /\ x \notin Suspended(k) /\ k.error[x] = "EOK"
      BY WokenIs
    <3>2. call'[x].op = o
      BY <1>1, <3>1
    <3>3. x \notin Suspended(k') /\ k'.error[x] = "EOK"
      BY <1>1, <3>1, SideMeans
    <3> QED
      BY <3>1, <3>2, <3>3, WokenIs
  <2> QED
    BY <2>1, <2>2, SideMeans, OneLeaves
<1>7. NoLostWakeup'
  BY <1>5, <1>6, BothCovered
<1> QED
  BY <1>1, <1>4, <1>7 DEF MailInv

LEMMA PutKeeps ==
    ASSUME KernelAssumption, MailboxAssumption, MailInv, NEW t \in Threads, t = k.cur,
           t # IdleThread, call[t].pc \in {"user", "back"}, call[t].op # "recv",
           NEW v \in Mails, Put(t, v)
    PROVE  MailInv' /\ MailsIn(mb') = Append(MailsIn(mb), v)
<1>1. /\ mb.entry # Size
      /\ mb' = [mb EXCEPT !.pool[mb.in_offset] = v, !.in_offset = (@ + 1) % Size, !.entry = @ + 1]
      /\ mail' = [mail EXCEPT ![t] = NoMail]
      /\ WakeOne(t, RecvList) /\ UNCHANGED <<wait, got>>
  BY DEF Put, Full
<1>2. RingBooks /\ mb.entry \in 0..Size /\ Size \in Nat
  BY DEF MailInv, RingBooks, IsRing, MailboxAssumption
<1>3. IsRing(mb') /\ mb'.entry = mb.entry + 1 /\ MailsIn(mb') = Append(MailsIn(mb), v)
  <2>1. IsRing(mb)
    BY <1>2 DEF RingBooks
  <2> QED
    BY <1>1, <2>1, PutIsAppend
<1>4. RingBooks'
  BY <1>1, <1>2, <1>3 DEF RingBooks
<1>5. /\ mail' \in [Threads -> Mails \cup {NoMail}]
      /\ \A x \in Threads \ {t} : mail'[x] = mail[x]
  BY <1>1 DEF MailInv, MailWaits
<1>6. WakeOne(t, ListOf("recv")) /\ "recv" \in Sides
  BY <1>1 DEF ListOf, Sides
<1>7. Stock("recv")' = Stock("recv") + 1 /\ \A o \in Sides \ {"recv"} : Stock(o)' = Stock(o) - 1
  BY <1>2, <1>3 DEF Stock
<1> QED
  BY <1>1, <1>3, <1>4, <1>5, <1>6, <1>7, PassKeeps

LEMMA UrgentKeeps ==
    ASSUME KernelAssumption, MailboxAssumption, MailInv, NEW t \in Threads, NEW v \in Mails,
           MbUrgent(t, v)
    PROVE  MailInv' /\ MailsIn(mb') = <<v>> \o MailsIn(mb)
<1>1. /\ mb.entry # Size /\ Running(t)
      /\ LET at == IF mb.out_offset > 0 THEN mb.out_offset - 1 ELSE Size - 1
         IN mb' = [mb EXCEPT !.out_offset = at, !.pool[at] = v, !.entry = @ + 1]
      /\ WakeOne(t, RecvList) /\ UNCHANGED <<wait, mail, got>>
  BY DEF MbUrgent, Full
<1>2. RingBooks /\ mb.entry \in 0..Size /\ Size \in Nat
  BY DEF MailInv, RingBooks, IsRing, MailboxAssumption
<1>3. IsRing(mb') /\ mb'.entry = mb.entry + 1 /\ MailsIn(mb') = <<v>> \o MailsIn(mb)
  <2>1. IsRing(mb)
    BY <1>2 DEF RingBooks
  <2> QED
    BY <1>1, <2>1, UrgentIsFirst
<1>4. RingBooks'
  BY <1>1, <1>2, <1>3 DEF RingBooks
<1>5. /\ mail' \in [Threads -> Mails \cup {NoMail}]
      /\ \A x \in Threads \ {t} : mail'[x] = mail[x]
  BY <1>1 DEF MailInv, MailWaits
<1>6. WakeOne(t, ListOf("recv")) /\ "recv" \in Sides
  BY <1>1 DEF ListOf, Sides
<1>7. Stock("recv")' = Stock("recv") + 1 /\ \A o \in Sides \ {"recv"} : Stock(o)' = Stock(o) - 1
  BY <1>2, <1>3 DEF Stock
<1>8. t = k.cur /\ t # IdleThread /\ call[t].pc \in {"user", "back"} /\ call[t].op # "recv"
  BY <1>1 DEF Running, MailInv, MailCallsFit, CallsFit
<1> QED
  BY <1>1, <1>3, <1>4, <1>5, <1>6, <1>7, <1>8, PassKeeps

LEMMA GetKeeps ==
    ASSUME KernelAssumption, MailboxAssumption, MailInv, NEW t \in Threads, t = k.cur,
           t # IdleThread, call[t].pc \in {"user", "back"}, call[t].op # "send", Get(t)
    PROVE  /\ MailInv' /\ MailsIn(mb) # <<>>
           /\ MailsIn(mb') = Tail(MailsIn(mb)) /\ got' = Head(MailsIn(mb))
<1>1. /\ mb.entry # 0 /\ got' = mb.pool[mb.out_offset]
      /\ mb' = [mb EXCEPT !.out_offset = (@ + 1) % Size, !.entry = @ - 1]
      /\ WakeOne(t, SendList) /\ UNCHANGED <<wait, mail>>
  BY DEF Get, Empty
<1>2. RingBooks /\ mb.entry \in 0..Size /\ Size \in Nat
  BY DEF MailInv, RingBooks, IsRing, MailboxAssumption
<1>3. /\ IsRing(mb') /\ mb'.entry = mb.entry - 1
      /\ MailsIn(mb) # <<>> /\ MailsIn(mb') = Tail(MailsIn(mb))
      /\ got' = Head(MailsIn(mb)) /\ got' \in Mails \cup {NoMail}
  <2>1. IsRing(mb)
    BY <1>2 DEF RingBooks
  <2> QED
    BY <1>1, <2>1, GetIsTail
<1>4. RingBooks'
  BY <1>3 DEF RingBooks
<1>5. /\ mail' \in [Threads -> Mails \cup {NoMail}]
      /\ \A x \in Threads \ {t} : mail'[x] = mail[x]
  BY <1>1 DEF MailInv, MailWaits
<1>6. WakeOne(t, ListOf("send")) /\ "send" \in Sides
  BY <1>1 DEF ListOf, Sides
<1>7. Stock("send")' = Stock("send") + 1 /\ \A o \in Sides \ {"send"} : Stock(o)' = Stock(o) - 1
  BY <1>2, <1>3 DEF Stock, Sides
<1> QED
  BY <1>1, <1>3, <1>4, <1>5, <1>6, <1>7, PassKeeps
(* t waits, or waits once more, for what is not there. *)
LEMMA WaitKeeps ==
    ASSUME KernelAssumption, MailboxAssumption, MailInv, NEW t \in Threads, t = k.cur,
           t # IdleThread, call[t].pc \in {"user", "back"}, NEW s \in Sides,
           call[t].op \in {"none", s}, NEW n \in Timeouts \cup Nat, Wait(t, ListOf(s), s, n),
           Stock(s) = 0, UNCHANGED <<mb, got>>,
           mail' \in [Threads -> Mails \cup {NoMail}], \A x \in Threads \ {t} : mail'[x] = mail[x],
           s = "send" => mail'[t] \in Mails
    PROVE  MailInv'
<1> DEFINE q == ListOf(s)
           z == ipc_list_suspend([k EXCEPT !.error[t] = "EINTR"], q, t)
<1>1. /\ k' = (IF n > 0 THEN rt_timer_start(z, t, n) ELSE z)
      /\ wait' = [wait EXCEPT ![t] = n] /\ ThenSchedule(t, s, "mb")
  BY DEF Wait
<1>2. /\ Sane(k) /\ k.nest = 0 /\ q \in Queues /\ k.stat[t] # "suspend" /\ "EINTR" \in Errors
      /\ n \in Nat \cup {Forever} /\ CallsFit({"none", "send", "recv"}, {"none", "mb"})
      /\ k.error \in [Threads -> Errors]
  BY SideMeans DEF MailInv, MailCallsFit, CallsFit, Errors, KernelAssumption
<1>3. Blocked(k, k', q, t, "EINTR")
  <2>1. Blocked(k, IF n > 0 THEN rt_timer_start(z, t, n) ELSE z, q, t, "EINTR")
    BY <1>2, BlockedOnIpcList
  <2> QED
    BY <1>1, <2>1
<1> HIDE DEF z
<1>4. /\ Sane(k') /\ k'.cur = k.cur /\ k'.nest = 0 /\ k'.error = [k.error EXCEPT ![t] = "EINTR"]
      /\ Suspended(k') = Suspended(k) \cup {t}
      /\ Elems(k'.waitq[q]) = Elems(k.waitq[q]) \cup {t}
      /\ \A y \in Queues \ {q} : k'.waitq[y] = k.waitq[y]
  BY <1>2, <1>3 DEF Blocked
<1>5. /\ CallsFit({"none", "send", "recv"}, {"none", "mb"})' /\ call'[t].op = s
      /\ \A x \in Threads \ {t} : call'[x] = call[x]
  BY <1>1, <1>2, <1>4, CallsToSchedule DEF Sides
<1>6. t \notin Suspended(k)
  BY <1>2 DEF Suspended
<1>7. ASSUME NEW o \in Sides \ {s}
      PROVE  /\ ListOf(o) \in Queues \ {q} /\ k'.waitq[ListOf(o)] = k.waitq[ListOf(o)]
             /\ t \notin Woken(o)
  <2>1. ListOf(o) \in Queues \ {q}
    BY DEF ListOf, Sides, MailboxAssumption
  <2>2. call[t].op # o
    BY DEF Sides
  <2> QED
    BY <1>4, <2>1, <2>2, WokenIs
<1>8. MailWaits'
  <2>1. Elems(k'.waitq[q]) = Elems(k.waitq[q]) \cup {t}
        /\ \A o \in Sides \ {s} : Elems(k'.waitq[ListOf(o)]) = Elems(k.waitq[ListOf(o)])
    BY <1>4, <1>7
  <2>2. ASSUME NEW o \in Sides, NEW x \in Elems(k'.waitq[ListOf(o)]) PROVE call'[x].op = o
    <3>1. CASE x = t
      <4>1. o = s
        BY <1>6, <2>1, <3>1, SideMeans
      <4> QED
        BY <1>5, <3>1, <4>1
    <3>2. CASE x # t
      <4>1. x \in Elems(k.waitq[ListOf(o)])
        BY <2>1, <2>2, <3>2
      <4> QED
        BY <1>5, <3>2, <4>1, SideMeans
    <3> QED
      BY <3>1, <3>2
  <2>3. Suspended(k') = Elems(k'.waitq[RecvList]) \cup Elems(k'.waitq[SendList])
    <3>1. Suspended(k) = Elems(k.waitq[RecvList]) \cup Elems(k.waitq[SendList])
      BY DEF MailInv, MailWaits
    <3>2. CASE s = "recv"
      BY <1>4, <2>1, <3>1, <3>2 DEF ListOf, Sides
    <3>3. CASE s = "send"
      BY <1>4, <2>1, <3>1, <3>3 DEF ListOf, Sides
    <3> QED
      BY <3>2, <3>3 DEF Sides
  <2>4. wait' \in [Threads -> Timeouts \cup Nat]
    BY <1>1 DEF MailInv, MailWaits
  <2>5. \A x \in Threads : call'[x].op = "send" => mail'[x] \in Mails
    BY <1>5 DEF MailInv, MailWaits
  <2> QED
    BY <2>2, <2>3, <2>4, <2>5 DEF MailWaits, ListOf
<1>9. RingBooks' /\ \A o \in Sides : Stock(o)' = Stock(o)
  BY DEF MailInv, RingBooks, Stock
<1>10. Covered(s)'
  BY <1>9, NothingToLose
<1>11. ASSUME NEW o \in Sides \ {s} PROVE Covered(o)'
  <2>1. ASSUME NEW x \in Woken(o) PROVE x \in Woken(o)'
    <3>1. x \in Threads \ {t} /\ call[x].op = o /\ x \notin Suspended(k) /\ k.error[x] = "EOK"
      BY <1>7, WokenIs
    <3>2. call'[x].op = o /\ x \notin Suspended(k') /\ k'.error[x] = "EOK"
      BY <1>2, <1>4, <1>5, <3>1
    <3> QED
      BY <3>1, <3>2, WokenIs
  <2> QED
    BY <1>7, <1>9, <2>1, SideMeans, WokenStay
<1>12. NoLostWakeup'
  BY <1>10, <1>11, BothCovered
<1> QED
  BY <1>4, <1>5, <1>8, <1>9, <1>12 DEF MailInv, MailCallsFit

(* The call fails: there is nothing, or its thread was not woken for it. *)
LEMMA LeaveKeeps ==
    ASSUME KernelAssumption, MailboxAssumption, MailInv, NEW t \in Threads, t = k.cur,
           call[t].pc \in {"user", "back"}, NEW s \in Sides, call[t].op = s,
           NEW e \in Errors, Leave(t, e), Stock(s) = 0 \/ k.error[t] # "EOK"
    PROVE  MailInv'
<1>1. /\ k' = [k EXCEPT !.error[t] = e] /\ EndsCall(t)
      /\ UNCHANGED <<mb, wait, mail, got>> /\ Sane(k) /\ k.nest = 0
      /\ k.error \in [Threads -> Errors]
  BY DEF Leave, MailInv, EndsCall, Sane, KernelState
<1>2. /\ Sane(k') /\ k'.error = [k.error EXCEPT ![t] = e] /\ k'.cur = k.cur /\ k'.nest = 0
      /\ k'.stat = k.stat /\ k'.waitq = k.waitq
  BY <1>1, SaneError
<1>3. /\ CallsFit({"none", "send", "recv"}, {"none", "mb"})' /\ call'[t].op = "none"
      /\ k.stat[t] # "suspend" /\ \A x \in Threads \ {t} : call'[x] = call[x]
  <2>1. CallsFit({"none", "send", "recv"}, {"none", "mb"})
    BY DEF MailInv, MailCallsFit
  <2> QED
    BY <1>1, <1>2, <2>1, CallsEnd
<1>4. /\ Suspended(k') = Suspended(k) /\ t \notin Suspended(k)
      /\ \A x \in Threads \ {t} : k'.error[x] = k.error[x]
  BY <1>1, <1>2, <1>3 DEF Suspended
<1>5. MailWaits'
  <2>1. \A o \in Sides : \A x \in Elems(k.waitq[ListOf(o)]) : call'[x].op = o
    BY <1>3, <1>4, SideMeans
  <2>2. \A x \in Threads : call'[x].op = "send" => mail'[x] \in Mails
    BY <1>1, <1>3 DEF MailInv, MailWaits
  <2>3. Suspended(k') = Elems(k'.waitq[RecvList]) \cup Elems(k'.waitq[SendList])
    BY <1>2, <1>4 DEF MailInv, MailWaits
  <2>4. wait' \in [Threads -> Timeouts \cup Nat] /\ mail' \in [Threads -> Mails \cup {NoMail}]
    BY <1>1 DEF MailInv, MailWaits
  <2>5. \A o \in Sides : \A x \in Elems(k'.waitq[ListOf(o)]) : call'[x].op = o
    BY <1>2, <2>1
  <2> QED
    BY <2>2, <2>3, <2>4, <2>5 DEF MailWaits, ListOf
<1>6. RingBooks' /\ \A o \in Sides : Stock(o)' = Stock(o)
  BY <1>1 DEF MailInv, RingBooks, Stock
<1>7. ASSUME NEW o \in Sides PROVE Covered(o)'
  <2>1. CASE Stock(o) = 0
    BY <1>6, <2>1, NothingToLose
  <2>2. CASE Stock(o) # 0
    <3>1. t \notin Woken(o)
      BY <2>2, WokenIs
    <3>2. ASSUME NEW x \in Woken(o) PROVE x \in Woken(o)'
      <4>1. x \in Threads \ {t} /\ call[x].op = o /\ x \notin Suspended(k) /\ k.error[x] = "EOK"
        BY <3>1, WokenIs
      <4>2. call'[x].op = o /\ x \notin Suspended(k') /\ k'.error[x] = "EOK"
        BY <1>3, <1>4, <4>1
      <4> QED
        BY <4>1, <4>2, WokenIs
    <3> QED
      BY <1>2, <1>6, <3>2, SideMeans, WokenStay
  <2> QED
    BY <2>1, <2>2
<1>8. NoLostWakeup'
  BY <1>7, BothCovered
<1> QED
  BY <1>2, <1>3, <1>5, <1>6, <1>8 DEF MailInv, MailCallsFit

(* What the next steps do to the queue of mails. *)
SameQueue == mb'.entry = mb.entry /\ mb'.pool = mb.pool /\ mb'.out_offset = mb.out_offset
                 /\ UNCHANGED got

QueueStep ==
    \/ SameQueue
    \/ \E v \in Mails : MailsIn(mb') = Append(MailsIn(mb), v) /\ mb.entry # Size /\ UNCHANGED got
    \/ /\ "urgent" \in Ops /\ mb.entry # Size /\ UNCHANGED got
       /\ \E v \in Mails : MailsIn(mb') = <<v>> \o MailsIn(mb)
    \/ /\ MailsIn(mb) # <<>> /\ MailsIn(mb') = Tail(MailsIn(mb)) /\ got' = Head(MailsIn(mb))
    \/ mb'.entry = 0 /\ UNCHANGED got

LEMMA SendKeeps ==
    ASSUME KernelAssumption, MailboxAssumption, MailInv, NEW t \in Threads, NEW v \in Mails,
           NEW n \in Timeouts, MbSend(t, v, n)
    PROVE  MailInv' /\ QueueStep
<1>1. /\ t = k.cur /\ t # IdleThread /\ call[t].pc \in {"user", "back"} /\ call[t].op = "none"
      /\ Put(t, v) \/ SendWaits(t, v, n)
  BY DEF MbSend, Running, MailInv, MailCallsFit, CallsFit
<1>2. CASE Put(t, v)
  <2>1. MailInv' /\ MailsIn(mb') = Append(MailsIn(mb), v)
    BY <1>1, <1>2, PutKeeps
  <2>2. mb.entry # Size /\ UNCHANGED got
    BY <1>2 DEF Put, Full
  <2> QED
    BY <2>1, <2>2 DEF QueueStep
<1>3. CASE SendWaits(t, v, n)
  <2>1. /\ mb.entry = Size /\ Wait(t, SendList, "send", n) /\ mail' = [mail EXCEPT ![t] = v]
        /\ UNCHANGED <<mb, got>>
    BY <1>3 DEF SendWaits, Full
  <2>2. Stock("send") = 0 /\ ListOf("send") = SendList /\ "send" \in Sides
    BY <2>1 DEF Stock, ListOf, Sides, MailboxAssumption
  <2>3. /\ mail' \in [Threads -> Mails \cup {NoMail}] /\ mail'[t] \in Mails
        /\ \A x \in Threads \ {t} : mail'[x] = mail[x]
    BY <2>1 DEF MailInv, MailWaits
  <2>4. Wait(t, ListOf("send"), "send", n)
    BY <2>1, <2>2
  <2>5. MailInv'
    BY <1>1, <2>1, <2>2, <2>3, <2>4, WaitKeeps
  <2> QED
    BY <2>1, <2>5 DEF QueueStep, SameQueue
<1> QED
  BY <1>1, <1>2, <1>3
LEMMA SendBackKeeps ==
    ASSUME KernelAssumption, MailboxAssumption, MailInv, NEW t \in Threads, MbSendBack(t)
    PROVE  MailInv' /\ QueueStep
<1>1. /\ t = k.cur /\ t # IdleThread /\ call[t].pc \in {"user", "back"} /\ call[t].op = "send"
      /\ "send" \in Sides /\ mail[t] \in Mails /\ wait[t] \in Timeouts \cup Nat
      /\ k.error[t] \in Errors
  BY DEF MbSendBack, Returned, MailInv, MailCallsFit, CallsFit, MailWaits, Sides, Sane, KernelState
<1>2. CASE k.error[t] # "EOK" /\ Leave(t, k.error[t])
  <2> DEFINE e == k.error[t]
  <2>1. e \in Errors /\ Leave(t, e) /\ k.error[t] # "EOK"
    BY <1>1, <1>2
  <2> HIDE DEF e
  <2>2. MailInv'
    BY <1>1, <2>1, LeaveKeeps
  <2> QED
    BY <2>1, <2>2 DEF Leave, QueueStep, SameQueue
<1>3. CASE Put(t, mail[t])
  <2> DEFINE v == mail[t]
  <2>1. v \in Mails /\ Put(t, v)
    BY <1>1, <1>3
  <2> HIDE DEF v
  <2>2. MailInv' /\ MailsIn(mb') = Append(MailsIn(mb), v)
    BY <1>1, <2>1, PutKeeps
  <2>3. mb.entry # Size /\ UNCHANGED got
    BY <2>1 DEF Put, Full
  <2> QED
    BY <2>1, <2>2, <2>3 DEF QueueStep
<1>4. CASE SendWaits(t, mail[t], wait[t])
  <2> DEFINE n == wait[t]
  <2>1. /\ mb.entry = Size /\ Wait(t, SendList, "send", n) /\ mail' = [mail EXCEPT ![t] = mail[t]]
        /\ UNCHANGED <<mb, got>> /\ n \in Timeouts \cup Nat
    BY <1>1, <1>4 DEF SendWaits, Full
  <2> HIDE DEF n
  <2>2. Stock("send") = 0 /\ ListOf("send") = SendList
    BY <2>1 DEF Stock, ListOf, MailboxAssumption
  <2>3. /\ mail' \in [Threads -> Mails \cup {NoMail}] /\ mail'[t] \in Mails
        /\ \A x \in Threads \ {t} : mail'[x] = mail[x]
    BY <1>1, <2>1 DEF MailInv, MailWaits
  <2>4. Wait(t, ListOf("send"), "send", n)
    BY <2>1, <2>2
  <2>5. MailInv'
    BY <1>1, <2>1, <2>2, <2>3, <2>4, WaitKeeps
  <2> QED
    BY <2>1, <2>5 DEF QueueStep, SameQueue
<1>5. CASE Full /\ Leave(t, "EINTR")
  <2>1. Stock("send") = 0 /\ "EINTR" \in Errors
    BY <1>5 DEF Stock, Full, MailboxAssumption, Errors
  <2>2. MailInv'
    BY <1>1, <1>5, <2>1, LeaveKeeps
  <2> QED
    BY <1>5, <2>2 DEF Leave, QueueStep, SameQueue
<1> QED
  BY <1>2, <1>3, <1>4, <1>5 DEF MbSendBack

(* t receives the first mail. *)
LEMMA GetStep ==
    ASSUME KernelAssumption, MailboxAssumption, MailInv, NEW t \in Threads, t = k.cur,
           t # IdleThread, call[t].pc \in {"user", "back"}, call[t].op # "send", Get(t)
    PROVE  MailInv' /\ QueueStep
<1>1. /\ MailInv' /\ MailsIn(mb) # <<>>
      /\ MailsIn(mb') = Tail(MailsIn(mb)) /\ got' = Head(MailsIn(mb))
  BY GetKeeps
<1> QED
  BY <1>1 DEF QueueStep

(* t waits for a mail. *)
LEMMA RecvWaitsStep ==
    ASSUME KernelAssumption, MailboxAssumption, MailInv, NEW t \in Threads, t = k.cur,
           t # IdleThread, call[t].pc \in {"user", "back"}, call[t].op \in {"none", "recv"},
           NEW n \in Timeouts \cup Nat, RecvWaits(t, n)
    PROVE  MailInv' /\ QueueStep
<1>1. mb.entry = 0 /\ Wait(t, RecvList, "recv", n) /\ UNCHANGED <<mb, mail, got>>
  BY DEF RecvWaits, Empty
<1>2. Stock("recv") = 0 /\ Wait(t, ListOf("recv"), "recv", n) /\ "recv" \in Sides
  BY <1>1 DEF Stock, ListOf, Sides
<1>3. mail' \in [Threads -> Mails \cup {NoMail}] /\ \A x \in Threads \ {t} : mail'[x] = mail[x]
  BY <1>1 DEF MailInv, MailWaits
<1>4. MailInv'
  BY <1>1, <1>2, <1>3, WaitKeeps
<1> QED
  BY <1>1, <1>4 DEF QueueStep, SameQueue

LEMMA RecvKeeps ==
    ASSUME KernelAssumption, MailboxAssumption, MailInv, NEW t \in Threads, NEW n \in Timeouts,
           MbRecv(t, n)
    PROVE  MailInv' /\ QueueStep
<1>1. /\ t = k.cur /\ t # IdleThread /\ call[t].pc \in {"user", "back"} /\ call[t].op = "none"
      /\ Get(t) \/ RecvWaits(t, n)
  BY DEF MbRecv, Running, MailInv, MailCallsFit, CallsFit
<1>2. CASE Get(t)
  BY <1>1, <1>2, GetStep
<1>3. CASE RecvWaits(t, n)
  BY <1>1, <1>3, RecvWaitsStep
<1> QED
  BY <1>1, <1>2, <1>3

LEMMA RecvBackKeeps ==
    ASSUME KernelAssumption, MailboxAssumption, MailInv, NEW t \in Threads, MbRecvBack(t)
    PROVE  MailInv' /\ QueueStep
<1>1. /\ t = k.cur /\ t # IdleThread /\ call[t].pc \in {"user", "back"} /\ call[t].op = "recv"
      /\ "recv" \in Sides /\ wait[t] \in Timeouts \cup Nat /\ k.error[t] \in Errors
  BY DEF MbRecvBack, Returned, MailInv, MailCallsFit, CallsFit, MailWaits, Sides, Sane, KernelState
<1>2. CASE k.error[t] # "EOK" /\ Leave(t, k.error[t])
  <2> DEFINE e == k.error[t]
  <2>1. e \in Errors /\ Leave(t, e) /\ k.error[t] # "EOK"
    BY <1>1, <1>2
  <2> HIDE DEF e
  <2>2. MailInv'
    BY <1>1, <2>1, LeaveKeeps
  <2> QED
    BY <2>1, <2>2 DEF Leave, QueueStep, SameQueue
<1>3. CASE Get(t)
  BY <1>1, <1>3, GetStep
<1>4. CASE RecvWaits(t, wait[t])
  <2> DEFINE n == wait[t]
  <2>1. n \in Timeouts \cup Nat /\ RecvWaits(t, n)
    BY <1>1, <1>4
  <2> HIDE DEF n
  <2> QED
    BY <1>1, <2>1, RecvWaitsStep
<1>5. CASE Empty /\ Leave(t, "ETIMEOUT")
  <2>1. Stock("recv") = 0 /\ "ETIMEOUT" \in Errors
    BY <1>5 DEF Stock, Empty, Errors
  <2>2. MailInv'
    BY <1>1, <1>5, <2>1, LeaveKeeps
  <2> QED
    BY <1>5, <2>2 DEF Leave, QueueStep, SameQueue
<1> QED
  BY <1>2, <1>3, <1>4, <1>5 DEF MbRecvBack

(* Everybody on both lists is woken, and nobody waits any more. *)
LEMMA BothEmptied ==
    ASSUME KernelAssumption, MailboxAssumption, MailInv, k' = ResumeBoth
    PROVE  /\ Sane(k') /\ k'.nest = 0 /\ k'.cur = k.cur /\ Suspended(k') = {}
           /\ k'.waitq[RecvList] = <<>> /\ k'.waitq[SendList] = <<>>
           /\ k'.stat[k'.cur] = "running" \/ k'.stat[k'.cur] = k.stat[k.cur]
<1> DEFINE a == ipc_list_resume_all(k, RecvList)
<1>1. /\ RecvList \in Queues /\ SendList \in Queues /\ Sane(k) /\ k.nest = 0
      /\ Suspended(k) = Elems(k.waitq[RecvList]) \cup Elems(k.waitq[SendList])
  BY DEF MailboxAssumption, MailInv, MailWaits
<1>2. Emptied(k, a, RecvList)
  BY <1>1, AllWokenOf
<1>3. k' = ipc_list_resume_all(a, SendList)
  BY DEF ResumeBoth
<1> HIDE DEF a
<1>4. /\ Sane(a) /\ a.cur = k.cur /\ a.nest = 0 /\ Elems(a.waitq[RecvList]) = {}
      /\ Suspended(a) = Suspended(k) \ Elems(k.waitq[RecvList])
      /\ Elems(a.waitq[SendList]) = Elems(k.waitq[SendList]) \ Elems(k.waitq[RecvList])
      /\ a.stat[a.cur] = "running" \/ a.stat[a.cur] = k.stat[k.cur]
  BY <1>1, <1>2 DEF Emptied
<1>5. Emptied(a, k', SendList)
  BY <1>1, <1>3, <1>4, AllWokenOf
<1>6. /\ Sane(k') /\ k'.cur = k.cur /\ k'.nest = 0 /\ k'.waitq[SendList] = <<>>
      /\ Elems(k'.waitq[RecvList]) = {} /\ Suspended(k') = {}
      /\ k'.stat[k'.cur] = "running" \/ k'.stat[k'.cur] = a.stat[a.cur]
  BY <1>1, <1>4, <1>5 DEF Emptied
<1>7. k'.waitq[RecvList] = <<>>
  BY <1>1, <1>6, NobodyOn
<1> QED
  BY <1>4, <1>6, <1>7

LEMMA EmptiedKeeps ==
    ASSUME KernelAssumption, MailboxAssumption, MailInv, k' = ResumeBoth, MailCallsKept,
           IsRing(mb'), UNCHANGED <<wait, mail, got>>
    PROVE  MailInv'
<1>1. /\ Sane(k') /\ k'.nest = 0 /\ Suspended(k') = {}
      /\ k'.waitq[RecvList] = <<>> /\ k'.waitq[SendList] = <<>>
  BY BothEmptied
<1>2. MailCallsFit' /\ \A x \in Threads : call'[x].op = call[x].op
  BY DEF MailCallsKept, CallsKept, MailCallsFit
<1>3. MailWaits'
  <2>1. Elems(k'.waitq[RecvList]) = {} /\ Elems(k'.waitq[SendList]) = {}
    BY <1>1 DEF Elems
  <2>2. \A s \in Sides : Elems(k'.waitq[ListOf(s)]) = {}
    BY <2>1 DEF ListOf
  <2>3. /\ wait' \in [Threads -> Timeouts \cup Nat] /\ mail' \in [Threads -> Mails \cup {NoMail}]
        /\ \A x \in Threads : call'[x].op = "send" => mail'[x] \in Mails
    BY <1>2 DEF MailInv, MailWaits
  <2> QED
    BY <1>1, <2>1, <2>2, <2>3 DEF MailWaits, ListOf
<1>4. RingBooks'
  BY DEF MailInv, RingBooks
<1>5. NoLostWakeup'
  BY <1>1 DEF NoLostWakeup
<1> QED
  BY <1>1, <1>2, <1>3, <1>4, <1>5 DEF MailInv

LEMMA ResetKeeps ==
    ASSUME KernelAssumption, MailboxAssumption, MailInv, NEW t \in Threads, MbReset(t)
    PROVE  MailInv' /\ QueueStep
<1>1. /\ Running(t) /\ k' = ResumeBoth /\ ThenSchedule(t, "none", "none")
      /\ mb' = [mb EXCEPT !.entry = 0, !.in_offset = 0, !.out_offset = 0]
      /\ UNCHANGED <<wait, mail, got>>
  BY DEF MbReset
<1>2. MailCallsKept
  <2>1. k'.cur = k.cur
    BY <1>1, BothEmptied
  <2>2. CallsFit({"none", "send", "recv"}, {"none", "mb"})
    BY DEF MailInv, MailCallsFit
  <2> QED
    BY <1>1, <2>1, <2>2, CallsYield DEF MailCallsKept
<1>3. IsRing(mb') /\ mb'.entry = 0
  <2>1. /\ Size \in Nat \ {0} /\ 0 \in 0..(Size - 1) /\ 0 \in 0..Size
        /\ mb \in [pool : [0..(Size - 1) -> Mails \cup {NoMail}],
                   in_offset : 0..(Size - 1), out_offset : 0..(Size - 1),
                   entry : 0..Size, alive : BOOLEAN]
    BY DEF MailInv, RingBooks, IsRing, MailboxAssumption
  <2>2. /\ mb' \in [pool : [0..(Size - 1) -> Mails \cup {NoMail}],
                    in_offset : 0..(Size - 1), out_offset : 0..(Size - 1),
                    entry : 0..Size, alive : BOOLEAN]
        /\ mb'.in_offset = 0 /\ mb'.out_offset = 0 /\ mb'.entry = 0
    BY <1>1, <2>1
  <2>3. Slot(0, 0) = 0
    BY <2>1 DEF Slot
  <2> QED
    BY <2>2, <2>3 DEF IsRing
<1>4. MailInv'
  BY <1>1, <1>2, <1>3, EmptiedKeeps
<1> QED
  BY <1>1, <1>3, <1>4 DEF QueueStep

LEMMA DeleteKeeps ==
    ASSUME KernelAssumption, MailboxAssumption, MailInv, NEW t \in Threads, MbDelete(t)
    PROVE  MailInv' /\ QueueStep
<1>1. k' = ResumeBoth /\ mb' = [mb EXCEPT !.alive = FALSE] /\ UNCHANGED <<call, wait, mail, got>>
  BY DEF MbDelete
<1>2. MailCallsKept
  <2>1. (k'.cur = k.cur /\ k'.stat[k'.cur] = k.stat[k.cur]) \/ k'.stat[k'.cur] # "suspend"
    BY <1>1, BothEmptied
  <2>2. CallsFit({"none", "send", "recv"}, {"none", "mb"})
    BY DEF MailInv, MailCallsFit
  <2> QED
    BY <1>1, <2>1, <2>2, CallsSame DEF MailCallsKept
<1>3. /\ mb' \in [pool : [0..(Size - 1) -> Mails \cup {NoMail}],
                  in_offset : 0..(Size - 1), out_offset : 0..(Size - 1),
                  entry : 0..Size, alive : BOOLEAN]
      /\ mb'.in_offset = mb.in_offset /\ mb'.out_offset = mb.out_offset
      /\ mb'.entry = mb.entry /\ mb'.pool = mb.pool /\ mb.in_offset = Slot(mb.out_offset, mb.entry)
  BY <1>1 DEF MailInv, RingBooks, IsRing
<1>4. IsRing(mb')
  BY <1>3 DEF IsRing
<1>5. MailInv'
  BY <1>1, <1>2, <1>4, EmptiedKeeps
<1> QED
  BY <1>1, <1>3, <1>5 DEF QueueStep, SameQueue

(* The clock, the scheduler and the steps of no object. *)
LEMMA CommonKeeps ==
    ASSUME KernelAssumption, MailboxAssumption, MailInv, CommonStep, UNCHANGED <<mb, mail, got>>,
           wait' \in [Threads -> Timeouts \cup Nat], wait' = wait \/ TickIncrease
    PROVE  MailInv' /\ QueueStep
<1>1. Sane(k) /\ k.nest = 0 /\ CallsFit({"none", "send", "recv"}, {"none", "mb"})
  BY DEF MailInv, MailCallsFit
<1>2. /\ MailCallsKept
      /\ Quiet(k, k') \/ \E u \in Suspended(k) : TimedOut(k, k', u)
  BY <1>1, CommonStepEffect DEF MailCallsKept
<1>3. QueueStep
  BY DEF QueueStep, SameQueue
<1>4. CASE Quiet(k, k')
  BY <1>2, <1>3, <1>4, QuietKeeps
<1>5. CASE ~Quiet(k, k')
  <2>1. PICK u \in Suspended(k) : TimedOut(k, k', u)
    BY <1>2, <1>5
  <2>2. wait' = wait
    BY <1>1, <1>5, TickIncreaseStep
  <2>3. MailInv'
    BY <1>2, <2>1, <2>2, TimeoutKeeps
  <2> QED
    BY <1>3, <2>3
<1> QED
  BY <1>4, <1>5

(***************************************************************************)
(* The theorems                                                            *)
(***************************************************************************)
LEMMA MailInvInit ==
    ASSUME KernelAssumption, MailboxAssumption, Init
    PROVE  MailInv
<1>1. Sane(k) /\ k.nest = 0 /\ Suspended(k) = {}
  BY SaneInit DEF Init
<1>2. MailCallsFit
  BY CallsFitInit DEF Init, MailCallsFit
<1>3. /\ k.waitq[RecvList] = <<>> /\ k.waitq[SendList] = <<>>
      /\ call = [t \in Threads |-> UserCode] /\ wait = [t \in Threads |-> 0]
      /\ mail = [t \in Threads |-> NoMail] /\ got = NoMail
  BY DEF Init, KernelInit, MailboxAssumption
<1>4. MailWaits
  <2>1. Elems(k.waitq[RecvList]) = {} /\ Elems(k.waitq[SendList]) = {}
    BY <1>3 DEF Elems
  <2>2. \A s \in Sides : Elems(k.waitq[ListOf(s)]) = {}
    BY <2>1 DEF ListOf
  <2>3. \A t \in Threads : call[t].op = "none"
    BY <1>3 DEF UserCode
  <2> QED
    BY <1>1, <1>3, <2>1, <2>2, <2>3 DEF MailWaits
<1>5. RingBooks
  <2>1. /\ mb = [pool |-> [i \in 0..(Size - 1) |-> NoMail], in_offset |-> 0, out_offset |-> 0,
                 entry |-> 0, alive |-> TRUE]
        /\ Size \in Nat \ {0}
    BY DEF Init, MailboxAssumption
  <2>2. Slot(0, 0) = 0
    BY <2>1 DEF Slot
  <2> QED
    BY <1>3, <2>1, <2>2 DEF RingBooks, IsRing
<1>6. NoLostWakeup
  BY <1>3 DEF NoLostWakeup
<1> QED
  BY <1>1, <1>2, <1>4, <1>5, <1>6 DEF MailInv

LEMMA MailStep ==
    ASSUME KernelAssumption, MailboxAssumption, MailInv, [Next]_vars
    PROVE  MailInv' /\ QueueStep
<1>1. wait \in [Threads -> Timeouts \cup Nat] /\ Timeouts \subseteq Nat \cup {Forever}
  BY DEF MailInv, MailWaits, KernelAssumption
<1>2. CASE Tick
  <2>1. /\ TickIncrease /\ UNCHANGED <<mb, mail, got>>
        /\ wait' = [t \in Threads |-> IF wait[t] > 0 THEN wait[t] - 1 ELSE wait[t]]
    BY <1>2 DEF Tick
  <2>2. ASSUME NEW t \in Threads
        PROVE  (IF wait[t] > 0 THEN wait[t] - 1 ELSE wait[t]) \in Timeouts \cup Nat
    <3>1. wait[t] \in Timeouts \cup Nat /\ wait[t] \in Nat \cup {-1}
      BY <1>1 DEF Forever
    <3> QED
      BY <3>1
  <2>3. wait' \in [Threads -> Timeouts \cup Nat]
    BY <2>1, <2>2
  <2> QED
    BY <2>1, <2>3, CommonKeeps DEF CommonStep
<1>3. CASE KernelSteps
  <2>1. CommonStep /\ UNCHANGED <<mb, wait, mail, got>>
    BY <1>3 DEF KernelSteps, CommonStep
  <2> QED
    BY <1>1, <2>1, CommonKeeps
<1>4. ASSUME NEW t \in Threads, MbCalls(t) PROVE MailInv' /\ QueueStep
  <2>1. ASSUME NEW v \in Mails, MbUrgent(t, v) PROVE MailInv' /\ QueueStep
    <3>1. MailInv' /\ MailsIn(mb') = <<v>> \o MailsIn(mb)
      BY <2>1, UrgentKeeps
    <3>2. "urgent" \in Ops /\ mb.entry # Size /\ UNCHANGED got
      BY <2>1 DEF MbUrgent, Full
    <3> QED
      BY <3>1, <3>2 DEF QueueStep
  <2> QED
    BY <1>4, <2>1, SendKeeps, SendBackKeeps, RecvKeeps, RecvBackKeeps, ResetKeeps, DeleteKeeps
    DEF MbCalls
<1>5. CASE UNCHANGED vars
  <2>1. Woken("recv")' = Woken("recv") /\ Woken("send")' = Woken("send")
    BY <1>5 DEF vars, Woken
  <2>2. NoLostWakeup'
    BY <1>5, <2>1 DEF vars, MailInv, NoLostWakeup
  <2> QED
    BY <1>5, <2>2 DEF vars, MailInv, MailCallsFit, CallsFit, MailWaits, RingBooks, QueueStep, SameQueue
<1> QED
  BY <1>2, <1>3, <1>4, <1>5 DEF Next

LEMMA MailInvAlways ==
    ASSUME KernelAssumption, MailboxAssumption
    PROVE  Spec => []MailInv
<1>1. Init => MailInv
  BY MailInvInit
<1>2. MailInv /\ [Next]_vars => MailInv'
  BY MailStep
<1> QED
  BY <1>1, <1>2, PTL DEF Spec

(* The types of the kernel and of the ring: in_offset, out_offset and      *)
(* entry stay within the pool, and the two offsets are always entry places *)
(* apart.                                                                  *)
THEOREM MailboxTypes ==
    ASSUME KernelAssumption, MailboxAssumption
    PROVE  Spec => [](TypeOK /\ IsRing(mb))
<1>1. MailInv => TypeOK /\ IsRing(mb)
  <2> SUFFICES ASSUME MailInv PROVE TypeOK /\ IsRing(mb)
    OBVIOUS
  <2>1. KernelTypeOK
    BY KernelTypes DEF MailInv, MailCallsFit, CallsFit
  <2> QED
    BY <2>1 DEF MailInv, MailWaits, RingBooks, IsRing, TypeOK
<1> QED
  BY <1>1, MailInvAlways, PTL

(* No wakeup is lost on either side: while receivers wait every mail has a *)
(* woken receiver on its way to it, and while senders wait every free      *)
(* place a woken sender, however many threads come between the wakeup of a *)
(* thread and its second look.                                             *)
THEOREM MailboxNoLostWakeup ==
    ASSUME KernelAssumption, MailboxAssumption
    PROVE  Spec => []NoLostWakeup
<1>1. MailInv => NoLostWakeup
  BY DEF MailInv
<1> QED
  BY <1>1, MailInvAlways, PTL

(* Under a mailbox, too, the ready table is exact and a running timer      *)
(* belongs to a suspended thread.                                          *)
THEOREM MailboxReadyTable ==
    ASSUME KernelAssumption, MailboxAssumption
    PROVE  Spec => [](ReadyTableExact /\ TimerOfSuspended)
<1>1. MailInv => ReadyTableExact /\ TimerOfSuspended
  BY SaneWhole DEF MailInv, MailCallsFit, CallsFit
<1> QED
  BY <1>1, MailInvAlways, PTL

(***************************************************************************)
(* The refinement                                                          *)
(***************************************************************************)
mailed == [i \in 1..mb.entry |-> mb.pool[(mb.out_offset + i - 1) % Size]]

(* What a step may do to the queue. *)
LEMMA QueueStepIs ==
    ASSUME KernelAssumption, MailboxAssumption, MailInv, MailInv', QueueStep
    PROVE  \/ UNCHANGED <<mailed, got>>
           \/ mailed' = <<>> /\ UNCHANGED got
           \/ mailed # <<>> /\ mailed' = Tail(mailed) /\ got' = Head(mailed)
           \/ \E v \in Mails : Len(mailed) < Size /\ mailed' = Append(mailed, v) /\ UNCHANGED got
           \/ /\ "urgent" \in Ops
              /\ \E v \in Mails : Len(mailed) < Size /\ mailed' = <<v>> \o mailed /\ UNCHANGED got
<1>1. mailed = MailsIn(mb) /\ mailed' = MailsIn(mb')
  BY DEF mailed, MailsIn
<1>2. Len(mailed) = mb.entry /\ mb.entry \in 0..Size /\ Size \in Nat
  <2>1. IsRing(mb)
    BY DEF MailInv, RingBooks
  <2> QED
    BY <1>1, <2>1, RingIs
<1>3. mb.entry # Size => Len(mailed) < Size
  BY <1>2
<1>4. CASE SameQueue
  BY <1>4 DEF SameQueue, mailed
<1>5. mb'.entry = 0 => mailed' = <<>>
  BY DEF mailed
<1> QED
  BY <1>1, <1>3, <1>4, <1>5 DEF QueueStep

LEMMA FifoInit ==
    ASSUME KernelAssumption, MailboxAssumption, Init
    PROVE  Fifo!Init
<1>1. mb.entry = 0 /\ got = NoMail
  BY DEF Init
<1>2. mailed = <<>>
  BY <1>1 DEF mailed
<1> QED
  BY <1>1, <1>2 DEF Fifo!Init, mailed

LEMMA FifoStep ==
    ASSUME KernelAssumption, MailboxAssumption, MailInv, [Next]_vars
    PROVE  [Fifo!Next]_(Fifo!vars)
<1>1. MailInv' /\ QueueStep
  BY MailStep
<1>2. \/ UNCHANGED <<mailed, got>>
      \/ mailed' = <<>> /\ UNCHANGED got
      \/ mailed # <<>> /\ mailed' = Tail(mailed) /\ got' = Head(mailed)
      \/ \E v \in Mails : Len(mailed) < Size /\ mailed' = Append(mailed, v) /\ UNCHANGED got
      \/ /\ "urgent" \in Ops
         /\ \E v \in Mails : Len(mailed) < Size /\ mailed' = <<v>> \o mailed /\ UNCHANGED got
  BY <1>1, QueueStepIs
<1> QED
  BY <1>2 DEF mailed, Fifo!Next, Fifo!vars, Fifo!Send, Fifo!Urgent, Fifo!Recv, Fifo!Reset

(* The mailbox of ipc.c implements a bounded FIFO queue: every mail that   *)
(* is received was sent before and not received since, in the order of     *)
(* sending with urgent mails first, although the ring wraps around,        *)
(* senders wait for room and every woken thread has to look again.         *)
THEOREM MailboxImplementsFifo ==
    ASSUME KernelAssumption, MailboxAssumption
    PROVE  Spec => ImplementsFifo
<1>1. Init => Fifo!Init
  BY FifoInit
<1>2. MailInv /\ [Next]_vars => [Fifo!Next]_(Fifo!vars)
  BY FifoStep
<1> QED
  BY <1>1, <1>2, MailInvAlways, PTL DEF Spec, ImplementsFifo, Fifo!Spec
=============================================================================
