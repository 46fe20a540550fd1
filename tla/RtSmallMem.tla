----------------------------- MODULE RtSmallMem -----------------------------
(***************************************************************************)
(* The heap of mem.c: items in the order of their addresses, each with a   *)
(* header, linked by offsets in both directions.  rt_malloc and rt_free    *)
(* hold a mutex around each call, so a call is one step.  The statistic max *)
(* is left out.                                                            *)
(*                                                                         *)
(* A header exists where the code keeps one; the one at End is heap_end.   *)
(* Headers that plug_holes joins to another are gone: whoever followed a   *)
(* link to one would read what the application wrote there.                *)
(***************************************************************************)
EXTENDS Integers, FiniteSets, FiniteSetsExt, Functions

CONSTANTS AlignSize,    \* RT_ALIGN_SIZE
          Hdr,          \* SIZEOF_STRUCT_MEM
          MinSize,      \* MIN_SIZE
          MemSize,      \* mem_size_aligned
          Sizes         \* what the application asks for

VARIABLES h,      \* the items, lfree and used
          live    \* what the application holds: offset -> size asked for

vars == <<h, live>>

RT_ALIGN(n) == ((n + AlignSize - 1) \div AlignSize) * AlignSize
MinSizeAligned == RT_ALIGN(MinSize)
End == MemSize + Hdr

HeapAssumption ==
    /\ AlignSize \in Nat \ {0} /\ Hdr = RT_ALIGN(Hdr) /\ MemSize = RT_ALIGN(MemSize)
    /\ Hdr \in Nat \ {0} /\ MinSize \in Nat \ {0} /\ MemSize \in Nat /\ Sizes \subseteq Nat

NoItem == -1      \* RT_NULL

Item(used, next, prev) == [used |-> used, next |-> next, prev |-> prev]

(* rt_smem_init *)
Init ==
    /\ h = [item |-> [p \in {0, End} |-> IF p = 0 THEN Item(FALSE, End, 0) ELSE Item(TRUE, End, End)],
            lfree |-> 0, used |-> 0]
    /\ live = [p \in {} |-> 0]

Size(hh, p) == hh.item[p].next - p - Hdr

(* the items that are met on the way from p along next *)
Chain(hh, p) ==
    LET from[q \in DOMAIN hh.item] ==
            {q} \cup IF hh.item[q].next > q THEN from[hh.item[q].next] ELSE {}
    IN from[p]

(* item p keeps s bytes and the rest of it becomes a free item *)
Split(hh, p, s) ==
    LET q == p + Hdr + s
        n == hh.item[p].next
    IN [hh EXCEPT !.item = [r \in DOMAIN @ \cup {q} |->
            CASE r = q -> Item(FALSE, n, p)
              [] r = p -> [@[p] EXCEPT !.next = q]
              [] r = n /\ n # End -> [@[n] EXCEPT !.prev = q]
              [] OTHER -> @[r]]]

(* item n goes into item p, which is before it *)
Join(hh, p, n) ==
    LET after == hh.item[n].next
    IN [hh EXCEPT !.lfree = IF @ = n THEN p ELSE @,
                 !.item = [r \in DOMAIN @ \ {n} |->
                    CASE r = p -> [@[p] EXCEPT !.next = after]
                      [] r = after -> [@[after] EXCEPT !.prev = p]
                      [] OTHER -> @[r]]]

plug_holes(hh, p) ==
    LET n == hh.item[p].next
        forward == IF n # p /\ ~hh.item[n].used /\ n # End THEN Join(hh, p, n) ELSE hh
        before == forward.item[p].prev
    IN IF before # p /\ ~forward.item[before].used THEN Join(forward, before, p) ELSE forward

(***************************************************************************)
(* rt_smem_alloc: the first item from lfree on that is large enough        *)
(***************************************************************************)
AllocSize(n) == Max({RT_ALIGN(n), MinSizeAligned})

Fits(hh, s) ==
    {p \in Chain(hh, hh.lfree) : p <= MemSize - s /\ ~hh.item[p].used /\ Size(hh, p) >= s}

(* lfree moves on to the next free item if it was p *)
Lowest(hh, p) ==
    IF hh.lfree # p THEN hh
    ELSE [hh EXCEPT !.lfree = Min({q \in Chain(hh, p) : q = End \/ ~hh.item[q].used})]

(* item p is given away with s bytes *)
Give(hh, p, s) ==
    LET splits == Size(hh, p) >= s + Hdr + MinSizeAligned
        d == IF splits THEN Split(hh, p, s) ELSE hh
    IN Lowest([d EXCEPT !.item[p].used = TRUE, !.used = @ + d.item[p].next - p], p)

(* the heap after the call and the item, or NoItem *)
rt_smem_alloc(hh, n) ==
    LET s == AllocSize(n)
    IN IF s > MemSize \/ Fits(hh, s) = {} THEN [h |-> hh, at |-> NoItem]
       ELSE [h |-> Give(hh, Min(Fits(hh, s)), s), at |-> Min(Fits(hh, s))]

rt_smem_free(hh, p) ==
    plug_holes([hh EXCEPT !.item[p].used = FALSE, !.lfree = IF p < @ THEN p ELSE @,
                         !.used = @ - (hh.item[p].next - p)], p)

(* rt_smem_realloc of an item to a smaller size *)
Shrink(hh, p, s) ==
    LET q == p + Hdr + s
        d == Split([hh EXCEPT !.used = @ - (Size(hh, p) - s)], p, s)
    IN plug_holes([d EXCEPT !.lfree = IF q < @ THEN q ELSE @], q)
----------------------------------------------------------------------------
Forget(p) == Restrict(live, DOMAIN live \ {p})
Note(held, p, n) == [q \in DOMAIN held \cup {p} |-> IF q = p THEN n ELSE held[q]]

Malloc(n) ==
    /\ n > 0
    /\ LET r == rt_smem_alloc(h, n)
       IN h' = r.h /\ live' = IF r.at = NoItem THEN live ELSE Note(live, r.at, n)

Free(p) == h' = rt_smem_free(h, p) /\ live' = Forget(p)

(* a size of 0 frees; the same size changes nothing; less is split off; and  *)
(* for the rest a new item is asked for and the old one freed                *)
Realloc(p, n) ==
    LET s == RT_ALIGN(n)
        r == rt_smem_alloc(h, s)
    IN \/ s = 0 /\ Free(p)
       \/ s > MemSize /\ UNCHANGED vars
       \/ s = Size(h, p) /\ live' = Note(live, p, n) /\ UNCHANGED h
       \/ /\ s > 0 /\ s + Hdr + MinSize < Size(h, p)
          /\ h' = Shrink(h, p, s) /\ live' = Note(live, p, n)
       \/ /\ 0 < s /\ s <= MemSize /\ s # Size(h, p) /\ s + Hdr + MinSize >= Size(h, p)
          /\ IF r.at = NoItem THEN UNCHANGED vars
             ELSE h' = rt_smem_free(r.h, p) /\ live' = Note(Forget(p), r.at, n)

Next ==
    \/ \E n \in Sizes : Malloc(n)
    \/ \E p \in DOMAIN live : Free(p) \/ \E n \in Sizes : Realloc(p, n)

Spec == Init /\ [][Next]_vars
----------------------------------------------------------------------------
Successive(p, q) == q = h.item[p].next /\ q # p

(* After any calls the items tile the heap and are linked both ways, what  *)
(* the application holds lies within items that are in use and is as large *)
(* as it asked for, no two free items are neighbours, lfree is the lowest  *)
(* free one, and used is the sum of what is in use.                        *)
HeapExact ==
    /\ Chain(h, 0) = DOMAIN h.item
    /\ \A p \in DOMAIN h.item \ {End} :
          /\ Size(h, p) >= AlignSize
          /\ h.item[p].next # End => h.item[h.item[p].next].prev = p
          /\ ~h.item[p].used => h.item[h.item[p].next].used
          /\ h.item[p].used <=> p \in DOMAIN live
    /\ \A p \in DOMAIN live : live[p] <= Size(h, p)
    /\ h.lfree = Min({p \in DOMAIN h.item : ~h.item[p].used} \cup {End})
    /\ h.used = SumSet({h.item[p].next : p \in DOMAIN live}) - SumSet(DOMAIN live)
=============================================================================
