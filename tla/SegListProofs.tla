---------------------------- MODULE SegListProofs ----------------------------
(***************************************************************************)
(* The inductive proof of the segment list, in two parts.                  *)
(*                                                                         *)
(* The first is about the three edits of the list: Insert (add_entry),     *)
(* Unlink (remove_segment) and MoveTail (shrink_segment, expand_segment).  *)
(* Each has a View lemma, which gives the successor, tail, size and gap of *)
(* every segment after the edit and keeps the links consistent, and an     *)
(* Ordered lemma, which adds the address order and the gap accounting.     *)
(*                                                                         *)
(* The second shows that IInv holds initially (InitInv) and that every     *)
(* action preserves it (one lemma per action, NextInv); EditInv adds the   *)
(* arena, alignment, last_addr and the pending call to what an edit does.  *)
(***************************************************************************)
EXTENDS SegList, AllocDefsProofs

-----------------------------------------------------------------------------
(* The tail of a segment, the free bytes behind it, and its predecessor.   *)
TailOf(h)  == head[h].next_seg_tail
GapOf(h)   == tail[head[h].next_seg_tail].free_following
PrevHead(h) == tail[head[h].prev_seg_tail].prev_seg_head
SizeOf(h)  == head[h].seg_size
(* The first byte behind a segment. *)
EndOf(h)   == h + TotalSize(head[h].seg_size)

(* The fields of a live segment: its pointers name live structs, and its   *)
(* tail lies above its header.                                             *)
LEMMA FieldTypes ==
  ASSUME TypeOK, ListLinked, NEW h \in Live
  PROVE  /\ h \in Nat \ {0}
         /\ TailOf(h) \in Nat /\ TailOf(h) \in DOMAIN tail
         /\ GapOf(h) \in Nat /\ SizeOf(h) \in Nat
         /\ NextHead(h) \in Live /\ NextHead(h) \in Nat
         /\ EndOf(h) \in Nat /\ EndOf(h) = TailOf(h) + SEG_TAIL
         /\ EndOf(h) > TailOf(h) /\ TailOf(h) > h
<1>1. /\ h \in Nat \ {0} /\ head[h] \in SegHead
      /\ TailOf(h) \in DOMAIN tail /\ NextHead(h) \in Live
      /\ TailOf(h) = TailAt(h, SizeOf(h))
  BY DEF TypeOK, ListLinked, Live, TailOf, SizeOf, nullptr
<1>2. TailOf(h) \in Nat /\ SizeOf(h) \in Nat /\ tail[TailOf(h)] \in SegTail
      /\ NextHead(h) \in Nat
  BY <1>1 DEF TypeOK, SegHead, SegTail, Live, TailOf, SizeOf
<1>3. GapOf(h) \in Nat
  BY <1>2 DEF SegTail, GapOf, TailOf
<1>4. /\ round_up(SizeOf(h), ALIGNMENT) \in Nat
      /\ TotalSize(SizeOf(h)) = SEG_HEAD + round_up(SizeOf(h), ALIGNMENT) + SEG_TAIL
      /\ TotalSize(SizeOf(h)) \in Nat
  BY <1>2, RoundUp, TotalSizeFacts
<1>5. QED
  BY <1>1, <1>2, <1>3, <1>4, LayoutAssumption DEF TailAt, EndOf, SizeOf

(* The predecessor of a segment is the one that links forward to it, and no*)
(* two segments share a tail or a successor.                               *)
LEMMA Neighbours ==
  ASSUME TypeOK, ListLinked
  PROVE  /\ \A h \in Live : /\ PrevHead(h) \in Live
                            /\ NextHead(PrevHead(h)) = h
                            /\ TailOf(PrevHead(h)) = head[h].prev_seg_tail
                            /\ PrevHead(NextHead(h)) = h
                            /\ head[NextHead(h)].prev_seg_tail = TailOf(h)
         /\ \A h, k \in Live : TailOf(h) = TailOf(k) => h = k
         /\ \A h, k \in Live : NextHead(h) = NextHead(k) => h = k
         /\ \A t \in DOMAIN tail : /\ tail[t].prev_seg_head \in Live
                                   /\ TailOf(tail[t].prev_seg_head) = t
<1>1. \A t \in DOMAIN tail : /\ tail[t].prev_seg_head \in Live
                              /\ TailOf(tail[t].prev_seg_head) = t
  BY DEF ListLinked, TailOf
<1>2. \A h \in Live :
        /\ TailOf(h) \in DOMAIN tail /\ tail[TailOf(h)].prev_seg_head = h
        /\ NextHead(h) \in Live /\ head[NextHead(h)].prev_seg_tail = TailOf(h)
        /\ head[h].prev_seg_tail \in DOMAIN tail
        /\ tail[head[h].prev_seg_tail].next_seg_head = h
  BY DEF ListLinked, TailOf
<1>3. \A h \in Live : /\ PrevHead(h) \in Live
                       /\ TailOf(PrevHead(h)) = head[h].prev_seg_tail
  BY <1>1, <1>2 DEF PrevHead
<1>4. \A h \in Live : NextHead(PrevHead(h)) = h
  BY <1>2, <1>3 DEF NextHead, TailOf
<1>5. \A h \in Live : PrevHead(NextHead(h)) = h
  BY <1>2 DEF PrevHead
<1>6. QED
  BY <1>1, <1>2, <1>3, <1>4, <1>5

Ordered == TypeOK /\ ListLinked /\ FirstIsLowest /\ AddressOrder /\ GapAccounting

(* What the local invariants say of any two segments.                      *)
LEMMA Below ==
  ASSUME Ordered, NEW h \in Live, NEW k \in Live, h < k
  PROVE  /\ NextHead(h) > h /\ NextHead(h) <= k
         /\ EndOf(h) + GapOf(h) = NextHead(h)
<1>1. h \in Nat /\ k \in Nat /\ NextHead(h) \in Nat
  BY FieldTypes DEF Ordered
<1>2. NextHead(h) > h /\ NextHead(h) <= k
  BY <1>1 DEF Ordered, AddressOrder
<1>3. QED
  BY <1>2, FieldTypes DEF Ordered, GapAccounting, TailOf, GapOf

(* The predecessor of the first segment is the last one.                   *)
LEMMA LastSegment ==
  ASSUME Ordered, Live # {}
  PROVE  /\ first_seg \in Live /\ PrevHead(first_seg) \in Live
         /\ \A k \in Live : first_seg <= k /\ k <= PrevHead(first_seg)
         /\ LastTail = TailOf(PrevHead(first_seg))
         /\ EndOf(PrevHead(first_seg)) + GapOf(PrevHead(first_seg)) = end_addr
         /\ \A k \in Live : NextHead(k) = first_seg <=> k = PrevHead(first_seg)
<1> DEFINE q == PrevHead(first_seg)
<1>1. /\ first_seg \in Live /\ q \in Live /\ NextHead(q) = first_seg
      /\ LastTail = TailOf(q)
      /\ \A k \in Live : NextHead(k) = first_seg <=> k = q
      /\ \A k \in Live : first_seg <= k
  BY Neighbours DEF Ordered, FirstIsLowest, LastTail
<1>2. \A k \in Live : k \in Nat
  BY FieldTypes DEF Ordered
<1>3. ~(NextHead(q) > q) /\ \A k \in Live : k <= q
  BY <1>1, <1>2 DEF Ordered, AddressOrder
<1>4. EndOf(q) + GapOf(q) = end_addr
  BY <1>1, <1>3, FieldTypes DEF Ordered, GapAccounting, TailOf, GapOf
<1>5. QED
  BY <1>1, <1>3, <1>4

(* A segment and the gap behind it end before every later segment and      *)
(* before the end of the arena.                                            *)
LEMMA Geometry ==
  ASSUME Ordered, NEW h \in Live
  PROVE  /\ \A k \in Live : h < k => EndOf(h) + GapOf(h) <= k
         /\ EndOf(h) + GapOf(h) <= end_addr
         /\ Base <= first_seg /\ first_seg <= h
<1>1. \A k \in Live : h < k => EndOf(h) + GapOf(h) <= k
  BY Below, FieldTypes DEF Ordered
<1>2. EndOf(h) + GapOf(h) <= end_addr
  <2> DEFINE q == PrevHead(first_seg)
  <2>1. q \in Live /\ h <= q /\ EndOf(q) + GapOf(q) = end_addr
    BY LastSegment
  <2>2. CASE h = q
    BY <2>1, <2>2, FieldTypes DEF Ordered, TypeOK
  <2>3. CASE h # q
    <3>1. h < q
      BY <2>1, <2>3, FieldTypes DEF Ordered
    <3> HIDE DEF q
    <3>2. EndOf(h) + GapOf(h) <= q
      BY <1>1, <2>1, <3>1
    <3>3. /\ EndOf(h) \in Nat /\ GapOf(h) \in Nat
          /\ EndOf(q) \in Nat /\ GapOf(q) \in Nat /\ q \in Nat /\ EndOf(q) > q
      BY <2>1, FieldTypes DEF Ordered
    <3>4. QED
      BY <2>1, <3>2, <3>3
  <2>4. QED
    BY <2>2, <2>3
<1>3. QED
  BY <1>1, <1>2 DEF Ordered, FirstIsLowest

-----------------------------------------------------------------------------
(* Moving a tail inside its gap.                                           *)
LEMMA MoveTailView ==
  ASSUME TypeOK, ListLinked, NEW h \in Live, NEW n \in Nat, MoveTail(h, n),
         TailAt(h, n) <= TailOf(h) + GapOf(h),
         TailAt(h, n) # TailOf(h) => TailAt(h, n) \notin DOMAIN tail
  PROVE  /\ Live' = Live
         /\ DOMAIN tail' = (DOMAIN tail \ {TailOf(h)}) \cup {TailAt(h, n)}
         /\ head' \in [Live -> SegHead] /\ tail' \in [DOMAIN tail' -> SegTail]
         /\ TailAt(h, n) \in Nat \ {0}
         /\ \A k \in Live :
              /\ NextHead(k)' = NextHead(k)
              /\ TailOf(k)' = IF k = h THEN TailAt(h, n) ELSE TailOf(k)
              /\ SizeOf(k)' = IF k = h THEN n ELSE SizeOf(k)
              /\ GapOf(k)' = IF k = h THEN (GapOf(h) + TailOf(h)) - TailAt(h, n)
                             ELSE GapOf(k)
         /\ ListLinked'
<1> DEFINE t    == TailOf(h)
           next == NextHead(h)
           new  == TailAt(h, n)
<1>1. /\ t \in Nat /\ t \in DOMAIN tail /\ next \in Live /\ GapOf(h) \in Nat
      /\ next \in Nat /\ h \in Nat \ {0}
  BY FieldTypes
<1>2. new \in Nat \ {0}
  BY <1>1, RoundUp, LayoutAssumption DEF TailAt
<1>3. /\ head \in [Live -> SegHead] /\ tail \in [DOMAIN tail -> SegTail]
  BY DEF TypeOK
<1>4. /\ head' = [head EXCEPT ![h].next_seg_tail = new, ![h].seg_size = n,
                              ![next].prev_seg_tail = new]
      /\ tail' = Put(Drop(tail, t), new,
                     [next_seg_head |-> next, prev_seg_head |-> h,
                      free_following |-> (tail[t].free_following + t) - new])
  BY DEF MoveTail, TailOf, NextHead
<1> HIDE DEF t, next, new
<1>5. /\ Live' = Live /\ head' \in [Live -> SegHead]
      /\ \A k \in Live :
           /\ head'[k].next_seg_tail = IF k = h THEN new ELSE head[k].next_seg_tail
           /\ head'[k].seg_size = IF k = h THEN n ELSE head[k].seg_size
           /\ head'[k].prev_seg_tail = IF k = next THEN new ELSE head[k].prev_seg_tail
  BY <1>1, <1>2, <1>3, <1>4 DEF SegHead, Live
<1>6. /\ DOMAIN tail' = (DOMAIN tail \ {t}) \cup {new}
      /\ tail'[new] = [next_seg_head |-> next, prev_seg_head |-> h,
                       free_following |-> (tail[t].free_following + t) - new]
      /\ \A u \in DOMAIN tail : u # t /\ u # new => tail'[u] = tail[u]
  BY <1>4 DEF Put, Drop
<1>7. tail' \in [DOMAIN tail' -> SegTail]
  BY <1>1, <1>2, <1>3, <1>4, <1>6 DEF SegTail, Put, Drop, GapOf, TailOf, t, new
<1>8. \A k \in Live : k # h =>
        TailOf(k) # t /\ TailOf(k) # new /\ TailOf(k) \in DOMAIN tail
  BY Neighbours, FieldTypes DEF t, new
<1>9. \A k \in Live :
        /\ TailOf(k)' = IF k = h THEN new ELSE TailOf(k)
        /\ SizeOf(k)' = IF k = h THEN n ELSE SizeOf(k)
  BY <1>5 DEF TailOf, SizeOf
<1>10. \A k \in Live :
        /\ NextHead(k)' = NextHead(k)
        /\ GapOf(k)' = IF k = h THEN (GapOf(h) + t) - new ELSE GapOf(k)
        /\ tail'[TailOf(k)'].prev_seg_head = k
  BY <1>6, <1>8, <1>9, Neighbours, FieldTypes DEF NextHead, GapOf, TailOf, ListLinked, t, next
<1>11. ListLinked'
  <2>1. ASSUME NEW k \in Live
        PROVE  /\ TailOf(k)' = TailAt(k, SizeOf(k)')
               /\ TailOf(k)' \in DOMAIN tail' /\ tail'[TailOf(k)'].prev_seg_head = k
               /\ NextHead(k)' \in Live
               /\ head'[NextHead(k)'].prev_seg_tail = TailOf(k)'
    <3>1. TailOf(k) = TailAt(k, SizeOf(k)) /\ NextHead(k) \in Live
      BY DEF ListLinked, TailOf, SizeOf
    <3>2. head[NextHead(k)].prev_seg_tail = TailOf(k) /\ (NextHead(k) = next <=> k = h)
      BY Neighbours DEF next
    <3>3. QED
      BY <1>5, <1>6, <1>8, <1>9, <1>10, <3>1, <3>2 DEF new
  <2>2. ASSUME NEW k \in Live
        PROVE  /\ head'[k].prev_seg_tail \in DOMAIN tail'
               /\ tail'[head'[k].prev_seg_tail].next_seg_head = k
    <3>1. PICK q \in Live : /\ NextHead(q) = k
                            /\ TailOf(q) = head[k].prev_seg_tail
                            /\ (k = next <=> q = h)
      BY Neighbours DEF next
    <3>2. head'[k].prev_seg_tail = TailOf(q)'
      BY <1>5, <1>9, <3>1
    <3>3. NextHead(q)' = k
      BY <1>10, <3>1
    <3>4. QED
      BY <2>1, <3>1, <3>2, <3>3 DEF NextHead, TailOf
  <2>3. ASSUME NEW u \in DOMAIN tail'
        PROVE  tail'[u].prev_seg_head \in Live
               /\ head'[tail'[u].prev_seg_head].next_seg_tail = u
    <3>1. CASE u = new
      BY <1>5, <1>6, <3>1
    <3>2. CASE u # new
      <4>1. u \in DOMAIN tail /\ u # t /\ tail'[u] = tail[u]
        BY <1>6, <3>2
      <4>2. tail[u].prev_seg_head \in Live /\ TailOf(tail[u].prev_seg_head) = u
        BY <4>1, Neighbours
      <4>3. QED
        BY <4>1, <4>2, <1>5 DEF t, TailOf
    <3>3. QED
      BY <3>1, <3>2
  <2>4. QED
    BY <2>1, <2>2, <2>3, <1>5 DEF ListLinked, TailOf, SizeOf, NextHead, TailAt
<1>12. QED
  BY <1>2, <1>5, <1>6, <1>7, <1>9, <1>10, <1>11 DEF t, new

(* Linking a new segment at a behind the segment q.                        *)
LEMMA InsertView ==
  ASSUME TypeOK, ListLinked, NEW q \in Live, NEW a \in Nat \ {0}, NEW u \in Nat \ {0},
         NEW before \in Nat, NEW after \in Nat,
         Insert(TailOf(q), before, after),
         a = call.new_a, u = NewTail, call.size \in Nat,
         a \notin Live, u \notin DOMAIN tail
  PROVE  /\ Live' = Live \cup {a}
         /\ DOMAIN tail' = DOMAIN tail \cup {u}
         /\ head' \in [Live' -> SegHead] /\ tail' \in [DOMAIN tail' -> SegTail]
         /\ \A k \in Live :
              /\ NextHead(k)' = IF k = q THEN a ELSE NextHead(k)
              /\ TailOf(k)' = TailOf(k)
              /\ SizeOf(k)' = SizeOf(k)
              /\ GapOf(k)' = IF k = q THEN before ELSE GapOf(k)
         /\ NextHead(a)' = NextHead(q)
         /\ TailOf(a)' = u /\ SizeOf(a)' = call.size /\ GapOf(a)' = after
         /\ ListLinked'
<1> DEFINE p    == TailOf(q)
           next == NextHead(q)
<1>1. /\ p \in Nat /\ p \in DOMAIN tail /\ next \in Live /\ next \in Nat /\ q \in Nat
      /\ next # a /\ p # u
  BY FieldTypes
<1>2. /\ head \in [Live -> SegHead] /\ tail \in [DOMAIN tail -> SegTail]
  BY DEF TypeOK
<1>3. /\ head' = Put([head EXCEPT ![next].prev_seg_tail = u], a,
                     [next_seg_tail |-> u, prev_seg_tail |-> p, seg_size |-> call.size])
      /\ tail' = Put([tail EXCEPT ![p].next_seg_head = a, ![p].free_following = before], u,
                     [next_seg_head |-> next, prev_seg_head |-> a,
                      free_following |-> after])
  BY DEF Insert, NewHeader, NewTrailer, TailOf, NextHead
<1> HIDE DEF p, next
<1> DEFINE heads == [head EXCEPT ![next].prev_seg_tail = u]
           tails == [tail EXCEPT ![p].next_seg_head = a, ![p].free_following = before]
<1>4. /\ heads \in [Live -> SegHead]
      /\ \A k \in Live :
           /\ heads[k].next_seg_tail = head[k].next_seg_tail
           /\ heads[k].seg_size = head[k].seg_size
           /\ heads[k].prev_seg_tail = IF k = next THEN u ELSE head[k].prev_seg_tail
  BY <1>1, <1>2 DEF SegHead
<1>5. /\ tails \in [DOMAIN tail -> SegTail]
      /\ \A v \in DOMAIN tail :
           /\ tails[v].prev_seg_head = tail[v].prev_seg_head
           /\ tails[v].next_seg_head = IF v = p THEN a ELSE tail[v].next_seg_head
           /\ tails[v].free_following = IF v = p THEN before ELSE tail[v].free_following
  BY <1>1, <1>2 DEF SegTail
<1>6. head' = Put(heads, a,
                [next_seg_tail |-> u, prev_seg_tail |-> p, seg_size |-> call.size])
      /\ tail' = Put(tails, u, [next_seg_head |-> next, prev_seg_head |-> a,
                                free_following |-> after])
  BY <1>3
<1> HIDE DEF heads, tails
<1>7. /\ Live' = Live \cup {a} /\ head' \in [Live' -> SegHead]
      /\ \A k \in Live : head'[k] = heads[k]
      /\ head'[a] = [next_seg_tail |-> u, prev_seg_tail |-> p, seg_size |-> call.size]
  BY <1>1, <1>4, <1>6 DEF Put, Live, SegHead
<1>8. /\ DOMAIN tail' = DOMAIN tail \cup {u} /\ tail' \in [DOMAIN tail' -> SegTail]
      /\ \A v \in DOMAIN tail : tail'[v] = tails[v]
      /\ tail'[u] = [next_seg_head |-> next, prev_seg_head |-> a, free_following |-> after]
  BY <1>1, <1>5, <1>6 DEF Put, SegTail
<1>9. \A k \in Live :
        /\ TailOf(k) \in DOMAIN tail /\ (TailOf(k) = p <=> k = q)
        /\ tail[TailOf(k)].prev_seg_head = k
        /\ TailOf(k)' = TailOf(k)
        /\ SizeOf(k)' = SizeOf(k)
  BY <1>4, <1>7, Neighbours, FieldTypes DEF TailOf, SizeOf, p, ListLinked
<1>10. \A k \in Live :
        /\ NextHead(k)' = IF k = q THEN a ELSE NextHead(k)
        /\ GapOf(k)' = IF k = q THEN before ELSE GapOf(k)
        /\ tail'[TailOf(k)'].prev_seg_head = k
  BY <1>5, <1>8, <1>9 DEF NextHead, GapOf, TailOf
<1>11. /\ NextHead(a)' = next /\ TailOf(a)' = u /\ SizeOf(a)' = call.size
       /\ GapOf(a)' = after /\ tail'[u].prev_seg_head = a
  BY <1>7, <1>8 DEF NextHead, TailOf, SizeOf, GapOf
<1>12. ListLinked'
  <2>1. \A k \in Live :
          /\ TailOf(k) = TailAt(k, SizeOf(k)) /\ NextHead(k) \in Live
          /\ head[NextHead(k)].prev_seg_tail = TailOf(k)
          /\ (NextHead(k) = next <=> k = q)
    BY Neighbours DEF ListLinked, TailOf, SizeOf, next
  <2>2. ASSUME NEW k \in Live'
        PROVE  /\ TailOf(k)' = TailAt(k, SizeOf(k)')
               /\ TailOf(k)' \in DOMAIN tail' /\ tail'[TailOf(k)'].prev_seg_head = k
               /\ NextHead(k)' \in Live'
               /\ head'[NextHead(k)'].prev_seg_tail = TailOf(k)'
    <3>1. CASE k = a
      BY <1>1, <1>4, <1>7, <1>8, <1>11, <3>1 DEF NewTail, TailAt
    <3>2. CASE k = q
      BY <1>7, <1>8, <1>9, <1>10, <2>1, <3>2 DEF p
    <3>3. CASE k # a /\ k # q
      BY <1>4, <1>7, <1>8, <1>9, <1>10, <2>1, <3>3
    <3>4. QED
      BY <3>1, <3>2, <3>3
  <2>3. ASSUME NEW k \in Live'
        PROVE  /\ head'[k].prev_seg_tail \in DOMAIN tail'
               /\ tail'[head'[k].prev_seg_tail].next_seg_head = k
    <3>1. CASE k = a
      BY <1>1, <1>5, <1>7, <1>8, <3>1
    <3>2. CASE k = next
      BY <1>1, <1>4, <1>7, <1>8, <3>2
    <3>3. CASE k # a /\ k # next
      <4>1. PICK m \in Live : /\ NextHead(m) = k /\ m # q
                              /\ TailOf(m) = head[k].prev_seg_tail
        BY <1>7, <3>3, Neighbours DEF next
      <4>2. head'[k].prev_seg_tail = TailOf(m)'
        BY <1>4, <1>7, <1>9, <3>3, <4>1
      <4>3. QED
        BY <1>8, <1>9, <1>10, <4>1, <4>2 DEF NextHead, TailOf
    <3>4. QED
      BY <3>1, <3>2, <3>3
  <2>4. ASSUME NEW v \in DOMAIN tail'
        PROVE  /\ tail'[v].prev_seg_head \in Live'
               /\ head'[tail'[v].prev_seg_head].next_seg_tail = v
    <3>1. CASE v = u
      BY <1>7, <1>8, <3>1
    <3>2. CASE v # u
      <4>1. v \in DOMAIN tail /\ tail'[v].prev_seg_head = tail[v].prev_seg_head
        BY <1>5, <1>8, <3>2
      <4>2. tail[v].prev_seg_head \in Live /\ TailOf(tail[v].prev_seg_head) = v
        BY <4>1, Neighbours
      <4>3. QED
        BY <4>1, <4>2, <1>4, <1>7 DEF TailOf
    <3>3. QED
      BY <3>1, <3>2
  <2>5. QED
    BY <2>2, <2>3, <2>4 DEF ListLinked, TailOf, SizeOf, NextHead, TailAt
<1>13. QED
  BY <1>7, <1>8, <1>9, <1>10, <1>11, <1>12 DEF p, next

(* Unlinking the segment h, whose predecessor q is another one.            *)
LEMMA UnlinkView ==
  ASSUME TypeOK, ListLinked, NEW h \in Live, NEW q \in Live, NEW gap \in Nat,
         Unlink(h, gap), q = PrevHead(h), q # h
  PROVE  /\ Live' = Live \ {h}
         /\ DOMAIN tail' = DOMAIN tail \ {TailOf(h)}
         /\ head' \in [Live' -> SegHead] /\ tail' \in [DOMAIN tail' -> SegTail]
         /\ NextHead(h) \in Live'
         /\ \A k \in Live' :
              /\ NextHead(k)' = IF k = q THEN NextHead(h) ELSE NextHead(k)
              /\ TailOf(k)' = TailOf(k)
              /\ SizeOf(k)' = SizeOf(k)
              /\ GapOf(k)' = IF k = q THEN gap ELSE GapOf(k)
         /\ ListLinked'
<1> DEFINE t    == TailOf(h)
           p    == TailOf(q)
           next == NextHead(h)
<1>1. /\ t \in DOMAIN tail /\ p \in DOMAIN tail /\ next \in Live /\ next \in Nat
      /\ next # h /\ p # t
  BY FieldTypes, Neighbours
<1>2. /\ head \in [Live -> SegHead] /\ tail \in [DOMAIN tail -> SegTail]
      /\ p \in Nat
  BY FieldTypes DEF TypeOK
<1>3. /\ head' = Drop([head EXCEPT ![next].prev_seg_tail = p], h)
      /\ tail' = Drop([tail EXCEPT ![p].next_seg_head = next, ![p].free_following = gap], t)
  BY Neighbours DEF Unlink, TailOf, NextHead
<1> HIDE DEF p, t, next
<1> DEFINE heads == [head EXCEPT ![next].prev_seg_tail = p]
           tails == [tail EXCEPT ![p].next_seg_head = next, ![p].free_following = gap]
<1>4. /\ heads \in [Live -> SegHead]
      /\ \A k \in Live :
           /\ heads[k].next_seg_tail = head[k].next_seg_tail
           /\ heads[k].seg_size = head[k].seg_size
           /\ heads[k].prev_seg_tail = IF k = next THEN p ELSE head[k].prev_seg_tail
  BY <1>1, <1>2 DEF SegHead
<1>5. /\ tails \in [DOMAIN tail -> SegTail]
      /\ \A v \in DOMAIN tail :
           /\ tails[v].prev_seg_head = tail[v].prev_seg_head
           /\ tails[v].next_seg_head = IF v = p THEN next ELSE tail[v].next_seg_head
           /\ tails[v].free_following = IF v = p THEN gap ELSE tail[v].free_following
  BY <1>1, <1>2 DEF SegTail
<1>6. head' = Drop(heads, h) /\ tail' = Drop(tails, t)
  BY <1>3
<1> HIDE DEF heads, tails
<1>7. /\ Live' = Live \ {h} /\ head' \in [Live' -> SegHead]
      /\ \A k \in Live' : head'[k] = heads[k]
  BY <1>4, <1>6 DEF Drop, Live
<1>8. /\ DOMAIN tail' = DOMAIN tail \ {t} /\ tail' \in [DOMAIN tail' -> SegTail]
      /\ \A v \in DOMAIN tail' : tail'[v] = tails[v]
  BY <1>5, <1>6 DEF Drop
<1>9. \A k \in Live' :
        /\ k \in Live /\ TailOf(k) \in DOMAIN tail' /\ (TailOf(k) = p <=> k = q)
        /\ tail[TailOf(k)].prev_seg_head = k
        /\ TailOf(k)' = TailOf(k)
        /\ SizeOf(k)' = SizeOf(k)
  <2>1. \A k \in Live : /\ TailOf(k) \in DOMAIN tail
                         /\ (TailOf(k) = p <=> k = q) /\ (TailOf(k) = t <=> k = h)
                         /\ tail[TailOf(k)].prev_seg_head = k
    BY Neighbours, FieldTypes DEF p, t, ListLinked, TailOf
  <2>2. QED
    BY <2>1, <1>4, <1>7, <1>8 DEF TailOf, SizeOf
<1>10. \A k \in Live' :
        /\ NextHead(k)' = IF k = q THEN next ELSE NextHead(k)
        /\ GapOf(k)' = IF k = q THEN gap ELSE GapOf(k)
        /\ tail'[TailOf(k)'].prev_seg_head = k
  BY <1>5, <1>8, <1>9 DEF NextHead, GapOf, TailOf
<1>11. ListLinked'
  <2>1. \A k \in Live :
          /\ TailOf(k) = TailAt(k, SizeOf(k)) /\ NextHead(k) \in Live
          /\ head[NextHead(k)].prev_seg_tail = TailOf(k)
          /\ (NextHead(k) = next <=> k = h)
          /\ (NextHead(k) = h <=> k = q)
    BY Neighbours DEF ListLinked, TailOf, SizeOf, next
  <2>2. ASSUME NEW k \in Live'
        PROVE  /\ TailOf(k)' = TailAt(k, SizeOf(k)')
               /\ TailOf(k)' \in DOMAIN tail' /\ tail'[TailOf(k)'].prev_seg_head = k
               /\ NextHead(k)' \in Live'
               /\ head'[NextHead(k)'].prev_seg_tail = TailOf(k)'
    <3>1. CASE k = q
      BY <1>1, <1>4, <1>7, <1>8, <1>9, <1>10, <2>1, <3>1 DEF p
    <3>2. CASE k # q
      BY <1>4, <1>7, <1>8, <1>9, <1>10, <2>1, <3>2
    <3>3. QED
      BY <3>1, <3>2
  <2>3. ASSUME NEW k \in Live'
        PROVE  /\ head'[k].prev_seg_tail \in DOMAIN tail'
               /\ tail'[head'[k].prev_seg_tail].next_seg_head = k
    <3>1. CASE k = next
      BY <1>1, <1>4, <1>5, <1>7, <1>8, <3>1
    <3>2. CASE k # next
      <4>1. PICK m \in Live : /\ NextHead(m) = k /\ m # h /\ m # q
                              /\ TailOf(m) = head[k].prev_seg_tail
        BY <1>7, <2>1, <3>2, Neighbours
      <4>2. head'[k].prev_seg_tail = TailOf(m)' /\ m \in Live'
        BY <1>4, <1>7, <1>9, <3>2, <4>1
      <4>3. QED
        BY <1>8, <1>9, <1>10, <4>1, <4>2 DEF NextHead, TailOf
    <3>3. QED
      BY <3>1, <3>2
  <2>4. ASSUME NEW v \in DOMAIN tail'
        PROVE  /\ tail'[v].prev_seg_head \in Live'
               /\ head'[tail'[v].prev_seg_head].next_seg_tail = v
    <3>1. v \in DOMAIN tail /\ v # t /\ tail'[v].prev_seg_head = tail[v].prev_seg_head
      BY <1>5, <1>8
    <3>2. tail[v].prev_seg_head \in Live /\ TailOf(tail[v].prev_seg_head) = v
      BY <3>1, Neighbours
    <3>3. QED
      BY <3>1, <3>2, <1>4, <1>7 DEF TailOf, t
  <2>5. QED
    BY <2>2, <2>3, <2>4 DEF ListLinked, TailOf, SizeOf, NextHead, TailAt
<1>12. QED
  BY <1>1, <1>7, <1>8, <1>9, <1>10, <1>11 DEF t, next

-----------------------------------------------------------------------------
(* What each of the three edits does to the order of the list.             *)

(* A moved tail stays clear of every other tail.                           *)
LEMMA MoveTailClear ==
  ASSUME Ordered, NEW h \in Live, NEW n \in Nat,
         TailAt(h, n) <= TailOf(h) + GapOf(h),
         TailAt(h, n) # TailOf(h)
  PROVE  TailAt(h, n) \notin DOMAIN tail
<1> SUFFICES ASSUME NEW k \in Live, TailAt(h, n) = TailOf(k)
             PROVE  FALSE
  BY Neighbours DEF Ordered
<1>1. /\ h \in Nat /\ k \in Nat /\ TailOf(h) \in Nat /\ TailOf(k) \in Nat
      /\ GapOf(h) \in Nat /\ GapOf(k) \in Nat
      /\ EndOf(h) = TailOf(h) + SEG_TAIL /\ EndOf(k) = TailOf(k) + SEG_TAIL
      /\ TailOf(k) > k /\ SEG_TAIL \in Nat
  BY FieldTypes, LayoutAssumption DEF Ordered
<1>2. TailAt(h, n) \in Nat /\ TailAt(h, n) >= h
  BY <1>1, RoundUp, LayoutAssumption DEF TailAt
<1>3. CASE k < h
  <2>1. EndOf(k) + GapOf(k) <= h
    BY <1>3, Geometry
  <2>2. SEG_TAIL > 0
    BY LayoutAssumption
  <2>3. QED
    BY <2>1, <2>2, <1>1, <1>2
<1>4. CASE h < k
  <2>1. EndOf(h) + GapOf(h) <= k
    BY <1>4, Geometry
  <2>2. QED
    BY <2>1, <1>1, <1>2
<1>5. QED
  BY <1>1, <1>3, <1>4

(* A tail moved within its own gap leaves the list linked, sorted and      *)
(* exactly counted, and changes no other segment.                          *)
LEMMA MoveTailOrdered ==
  ASSUME Ordered, NEW h \in Live, NEW n \in Nat, MoveTail(h, n),
         TailAt(h, n) <= TailOf(h) + GapOf(h),
         UNCHANGED arena
  PROVE  /\ ListLinked' /\ FirstIsLowest' /\ AddressOrder' /\ GapAccounting'
         /\ Live' = Live
         /\ head' \in [Live' -> SegHead] /\ tail' \in [DOMAIN tail' -> SegTail]
         /\ DOMAIN tail' = (DOMAIN tail \ {TailOf(h)}) \cup {TailAt(h, n)}
         /\ TailAt(h, n) \in Nat \ {0}
         /\ \A k \in Live :
              /\ TailOf(k)' = IF k = h THEN TailAt(h, n) ELSE TailOf(k)
              /\ GapOf(k)' = IF k = h THEN (GapOf(h) + TailOf(h)) - TailAt(h, n)
                             ELSE GapOf(k)
<1> DEFINE new == TailAt(h, n)
<1>1. /\ Live' = Live /\ head' \in [Live -> SegHead] /\ tail' \in [DOMAIN tail' -> SegTail]
      /\ DOMAIN tail' = (DOMAIN tail \ {TailOf(h)}) \cup {new}
      /\ new \in Nat \ {0}
      /\ \A k \in Live :
           /\ NextHead(k)' = NextHead(k)
           /\ TailOf(k)' = IF k = h THEN new ELSE TailOf(k)
           /\ GapOf(k)' = IF k = h THEN (GapOf(h) + TailOf(h)) - new ELSE GapOf(k)
      /\ ListLinked'
  BY MoveTailView, MoveTailClear DEF Ordered
<1>2. first_seg' = first_seg /\ Base' = Base /\ end_addr' = end_addr
  BY DEF arena, Base
<1>3. FirstIsLowest' /\ AddressOrder'
  BY <1>1, <1>2 DEF Ordered, FirstIsLowest, AddressOrder
<1>4. GapAccounting'
  <2>1. \A k \in Live : /\ TailOf(k) \in Nat /\ GapOf(k) \in Nat /\ k \in Nat
                         /\ TailOf(k) + SEG_TAIL + GapOf(k)
                              = IF NextHead(k) > k THEN NextHead(k) ELSE end_addr
    BY FieldTypes DEF Ordered, GapAccounting, TailOf, GapOf
  <2> HIDE DEF new
  <2>2. \A k \in Live : TailOf(k)' + SEG_TAIL + GapOf(k)' = TailOf(k) + SEG_TAIL + GapOf(k)
    BY <1>1, <2>1, LayoutAssumption
  <2>3. QED
    BY <1>1, <1>2, <2>1, <2>2 DEF GapAccounting, TailOf, GapOf
<1>5. QED
  BY <1>1, <1>3, <1>4

(* Where a new tail lands.                                                 *)
LEMMA NewTailFacts ==
  ASSUME call.new_a \in Nat, call.size \in Nat
  PROVE  /\ NewTail \in Nat \ {0} /\ NewTail > call.new_a
         /\ NewTail + SEG_TAIL = call.new_a + TotalSize(call.size)
         /\ TotalSize(call.size) \in Nat \ {0}
<1>1. /\ round_up(call.size, ALIGNMENT) \in Nat /\ SEG_HEAD \in Nat \ {0}
      /\ SEG_TAIL \in Nat \ {0}
  BY RoundUp, LayoutAssumption
<1>2. QED
  BY <1>1 DEF NewTail, TailAt, TotalSize

(* A new segment right behind q, in the gap that follows it.               *)
LEMMA InsertAfterOrdered ==
  ASSUME Ordered, NEW q \in Live, NEW a \in Nat \ {0}, NEW u \in Nat \ {0},
         NEW after \in Nat,
         Insert(TailOf(q), 0, after), first_seg' = first_seg,
         start' = start, end_addr' = end_addr,
         a = call.new_a, u = NewTail, call.size \in Nat,
         a = EndOf(q), a + TotalSize(call.size) + after = a + GapOf(q)
  PROVE  /\ ListLinked' /\ FirstIsLowest' /\ AddressOrder' /\ GapAccounting'
         /\ Live' = Live \cup {a} /\ DOMAIN tail' = DOMAIN tail \cup {u}
         /\ head' \in [Live' -> SegHead] /\ tail' \in [DOMAIN tail' -> SegTail]
         /\ \A k \in Live : GapOf(k)' = IF k = q THEN 0 ELSE GapOf(k)
         /\ \A k \in Live : TailOf(k)' = TailOf(k)
         /\ GapOf(a)' = after /\ TailOf(a)' = u
<1>1. \A k \in Live :
        /\ k \in Nat /\ TailOf(k) \in Nat /\ GapOf(k) \in Nat /\ EndOf(k) \in Nat
        /\ TailOf(k) > k /\ EndOf(k) = TailOf(k) + SEG_TAIL /\ EndOf(k) > TailOf(k)
        /\ NextHead(k) \in Live /\ NextHead(k) \in Nat
        /\ TailOf(k) + SEG_TAIL + GapOf(k)
             = IF NextHead(k) > k THEN NextHead(k) ELSE end_addr
  BY FieldTypes DEF Ordered, GapAccounting, TailOf, GapOf
<1>2. q \in Nat /\ EndOf(q) > q
  BY <1>1
<1>3. /\ TotalSize(call.size) \in Nat /\ u + SEG_TAIL = a + TotalSize(call.size)
      /\ u > a /\ SEG_TAIL \in Nat \ {0} /\ TotalSize(call.size) > 0
      /\ GapOf(q) = TotalSize(call.size) + after
  <2>1. /\ TotalSize(call.size) \in Nat /\ u + SEG_TAIL = a + TotalSize(call.size)
        /\ u > a /\ SEG_TAIL \in Nat \ {0} /\ TotalSize(call.size) > 0
    BY NewTailFacts, LayoutAssumption
  <2>2. QED
    BY <2>1, <1>1
<1>4. ASSUME NEW k \in Live
      PROVE  /\ k # a /\ u # TailOf(k)
             /\ k <= q => k < a
             /\ k > q => k > a
  <2>1. CASE k < q
    <3>1. EndOf(k) + GapOf(k) <= q
      BY <2>1, Geometry
    <3>2. QED
      BY <2>1, <3>1, <1>1, <1>2, <1>3
  <2>2. CASE k = q
    BY <2>2, <1>1, <1>3
  <2>3. CASE q < k
    <3>1. EndOf(q) + GapOf(q) <= k
      BY <2>3, Geometry
    <3>2. a + TotalSize(call.size) + after <= k
      BY <3>1, <1>1, <1>3
    <3>3. QED
      BY <2>3, <3>2, <1>1, <1>3
  <2>4. QED
    BY <2>1, <2>2, <2>3, <1>1
<1>5. a \notin Live /\ u \notin DOMAIN tail
  BY <1>4, Neighbours DEF Ordered
<1>6. /\ Live' = Live \cup {a} /\ DOMAIN tail' = DOMAIN tail \cup {u}
      /\ head' \in [Live' -> SegHead] /\ tail' \in [DOMAIN tail' -> SegTail]
      /\ \A k \in Live :
           /\ NextHead(k)' = IF k = q THEN a ELSE NextHead(k)
           /\ TailOf(k)' = TailOf(k)
           /\ GapOf(k)' = IF k = q THEN 0 ELSE GapOf(k)
      /\ NextHead(a)' = NextHead(q) /\ TailOf(a)' = u /\ GapOf(a)' = after
      /\ ListLinked'
  BY InsertView, <1>5 DEF Ordered
<1>7. first_seg' = first_seg /\ Base' = Base /\ end_addr' = end_addr
  BY DEF Base
<1>8. FirstIsLowest'
  BY <1>1, <1>6, <1>7 DEF Ordered, FirstIsLowest
<1>9. /\ first_seg \in Nat /\ first_seg <= q /\ Live # {}
      /\ \A k \in Live : \/ NextHead(k) > k /\ \A m \in Live : m <= k \/ m >= NextHead(k)
                         \/ NextHead(k) = first_seg /\ \A m \in Live : m <= k
  BY <1>1 DEF Ordered, AddressOrder, FirstIsLowest
<1>10. \A k \in Live : k < a <=> k <= q
  BY <1>1, <1>4
<1>11. \A k \in Live : k > q => k > a
  BY <1>4
<1>12. AddressOrder'
  <2> SUFFICES ASSUME NEW k \in Live'
               PROVE  \/ NextHead(k)' > k /\ \A m \in Live' : m <= k \/ m >= NextHead(k)'
                      \/ NextHead(k)' = first_seg' /\ \A m \in Live' : m <= k
    BY DEF AddressOrder
  <2>1. CASE k = q
    BY <2>1, <1>1, <1>6, <1>10, <1>11
  <2>2. CASE k = a
    BY <2>2, <1>1, <1>6, <1>7, <1>9, <1>10, <1>11
  <2>3. CASE k \in Live /\ k # q
    BY <2>3, <1>1, <1>6, <1>7, <1>9, <1>10, <1>11
  <2>4. QED
    BY <2>1, <2>2, <2>3, <1>6
<1>13. GapAccounting'
  <2> SUFFICES ASSUME NEW k \in Live'
               PROVE  TailOf(k)' + SEG_TAIL + GapOf(k)'
                        = IF NextHead(k)' > k THEN NextHead(k)' ELSE end_addr'
    BY DEF GapAccounting, TailOf, GapOf
  <2>1. CASE k = q
    BY <2>1, <1>1, <1>3, <1>6, <1>10
  <2>2. CASE k = a
    <3>1. NextHead(q) > q <=> NextHead(q) > a
      BY <1>1, <1>10, <1>11
    <3>2. QED
      BY <2>2, <3>1, <1>1, <1>3, <1>6, <1>7
  <2>3. CASE k \in Live /\ k # q
    BY <2>3, <1>1, <1>6, <1>7
  <2>4. QED
    BY <2>1, <2>2, <2>3, <1>6
<1>14. QED
  BY <1>6, <1>8, <1>12, <1>13

(* A new segment before the first one.                                     *)
LEMMA InsertFirstOrdered ==
  ASSUME Ordered, Live # {}, NEW q \in Live, NEW a \in Nat \ {0}, NEW u \in Nat \ {0},
         NEW after \in Nat,
         q = PrevHead(first_seg),
         Insert(TailOf(q), GapOf(q), after), first_seg' = a,
         start' = start, end_addr' = end_addr,
         a = call.new_a, u = NewTail, call.size \in Nat,
         a = Base, a + TotalSize(call.size) + after = first_seg
  PROVE  /\ ListLinked' /\ FirstIsLowest' /\ AddressOrder' /\ GapAccounting'
         /\ Live' = Live \cup {a} /\ DOMAIN tail' = DOMAIN tail \cup {u}
         /\ head' \in [Live' -> SegHead] /\ tail' \in [DOMAIN tail' -> SegTail]
         /\ \A k \in Live : GapOf(k)' = GapOf(k)
         /\ \A k \in Live : TailOf(k)' = TailOf(k)
         /\ GapOf(a)' = after /\ TailOf(a)' = u
<1>1. \A k \in Live :
        /\ k \in Nat /\ TailOf(k) \in Nat /\ GapOf(k) \in Nat
        /\ TailOf(k) > k
        /\ NextHead(k) \in Live /\ NextHead(k) \in Nat
        /\ TailOf(k) + SEG_TAIL + GapOf(k)
             = IF NextHead(k) > k THEN NextHead(k) ELSE end_addr
  BY FieldTypes DEF Ordered, GapAccounting, TailOf, GapOf
<1>2. /\ first_seg \in Live /\ NextHead(q) = first_seg
      /\ \A k \in Live : first_seg <= k /\ k <= q
      /\ \A k \in Live : NextHead(k) = first_seg <=> k = q
  BY LastSegment
<1>3. /\ TotalSize(call.size) \in Nat /\ u + SEG_TAIL = a + TotalSize(call.size)
      /\ u > a /\ SEG_TAIL \in Nat \ {0}
  BY NewTailFacts, LayoutAssumption
<1>4. ASSUME NEW k \in Live
      PROVE  a < k /\ u < k /\ u # TailOf(k)
  BY <1>1, <1>2, <1>3
<1>5. a \notin Live /\ u \notin DOMAIN tail
  BY <1>1, <1>4, Neighbours DEF Ordered
<1>6. /\ Live' = Live \cup {a} /\ DOMAIN tail' = DOMAIN tail \cup {u}
      /\ head' \in [Live' -> SegHead] /\ tail' \in [DOMAIN tail' -> SegTail]
      /\ \A k \in Live :
           /\ NextHead(k)' = IF k = q THEN a ELSE NextHead(k)
           /\ TailOf(k)' = TailOf(k)
           /\ GapOf(k)' = GapOf(k)
      /\ NextHead(a)' = first_seg /\ TailOf(a)' = u /\ GapOf(a)' = after
      /\ ListLinked'
  <2>1. /\ TypeOK /\ ListLinked /\ GapOf(q) \in Nat /\ after \in Nat /\ q \in Live
        /\ Insert(TailOf(q), GapOf(q), after) /\ a \notin Live /\ u \notin DOMAIN tail
        /\ a \in Nat \ {0} /\ u \in Nat \ {0}
        /\ a = call.new_a /\ u = NewTail /\ call.size \in Nat
    BY <1>1, <1>5 DEF Ordered
  <2>2. /\ Live' = Live \cup {a} /\ DOMAIN tail' = DOMAIN tail \cup {u}
        /\ head' \in [Live' -> SegHead] /\ tail' \in [DOMAIN tail' -> SegTail]
        /\ \A k \in Live :
             /\ NextHead(k)' = IF k = q THEN a ELSE NextHead(k)
             /\ TailOf(k)' = TailOf(k)
             /\ GapOf(k)' = IF k = q THEN GapOf(q) ELSE GapOf(k)
        /\ NextHead(a)' = NextHead(q) /\ TailOf(a)' = u /\ GapOf(a)' = after
        /\ ListLinked'
    BY ONLY <2>1, InsertView
  <2>3. QED
    BY <2>2, <1>2
<1>7. first_seg' = a /\ Base' = Base /\ end_addr' = end_addr
  BY DEF Base
<1>8. FirstIsLowest'
  <2>1. \A k \in Live' : a <= k
    BY <1>1, <1>4, <1>6
  <2>2. a \in Live' /\ Base' <= first_seg'
    BY <1>6, <1>7
  <2>3. QED
    BY <2>1, <2>2, <1>7 DEF FirstIsLowest
<1>9. \A k \in Live : \/ NextHead(k) > k /\ \A m \in Live : m <= k \/ m >= NextHead(k)
                      \/ NextHead(k) = first_seg /\ \A m \in Live : m <= k
  BY DEF Ordered, AddressOrder
<1>10. AddressOrder'
  <2> SUFFICES ASSUME NEW k \in Live'
               PROVE  \/ NextHead(k)' > k /\ \A m \in Live' : m <= k \/ m >= NextHead(k)'
                      \/ NextHead(k)' = first_seg' /\ \A m \in Live' : m <= k
    BY DEF AddressOrder
  <2>1. CASE k = q
    BY <2>1, <1>1, <1>2, <1>4, <1>6, <1>7
  <2>2. CASE k = a
    BY <2>2, <1>1, <1>2, <1>4, <1>6
  <2>3. CASE k \in Live /\ k # q
    BY <2>3, <1>1, <1>2, <1>4, <1>6, <1>9
  <2>4. QED
    BY <2>1, <2>2, <2>3, <1>6
<1>11. GapAccounting'
  <2> SUFFICES ASSUME NEW k \in Live'
               PROVE  TailOf(k)' + SEG_TAIL + GapOf(k)'
                        = IF NextHead(k)' > k THEN NextHead(k)' ELSE end_addr'
    BY DEF GapAccounting, TailOf, GapOf
  <2>1. CASE k = q
    BY <2>1, <1>1, <1>2, <1>4, <1>6, <1>7
  <2>2. CASE k = a
    BY <2>2, <1>2, <1>3, <1>4, <1>6
  <2>3. CASE k \in Live /\ k # q
    BY <2>3, <1>1, <1>6, <1>7
  <2>4. QED
    BY <2>1, <2>2, <2>3, <1>6
<1>12. QED
  BY <1>6, <1>8, <1>10, <1>11

(* A segment that is not the first leaves; the arena may shrink when it    *)
(* was the last.                                                           *)
LEMMA UnlinkInnerOrdered ==
  ASSUME Ordered, NEW h \in Live, NEW q \in Live, NEW gap \in Nat,
         Unlink(h, gap), q = PrevHead(h), h # first_seg,
         start' = start, first_seg' = first_seg, end_addr' \in Nat,
         TailOf(q) + SEG_TAIL + gap
           = IF NextHead(h) = first_seg THEN end_addr' ELSE NextHead(h),
         NextHead(h) # first_seg => end_addr' = end_addr
  PROVE  /\ ListLinked' /\ FirstIsLowest' /\ AddressOrder' /\ GapAccounting'
         /\ q # h
         /\ Live' = Live \ {h} /\ DOMAIN tail' = DOMAIN tail \ {TailOf(h)}
         /\ head' \in [Live' -> SegHead] /\ tail' \in [DOMAIN tail' -> SegTail]
         /\ \A k \in Live' : GapOf(k)' = IF k = q THEN gap ELSE GapOf(k)
         /\ \A k \in Live' : TailOf(k)' = TailOf(k)
<1>1. \A k \in Live :
        /\ k \in Nat /\ TailOf(k) \in Nat /\ GapOf(k) \in Nat
        /\ TailOf(k) > k
        /\ NextHead(k) \in Live /\ NextHead(k) \in Nat
        /\ TailOf(k) + SEG_TAIL + GapOf(k)
             = IF NextHead(k) > k THEN NextHead(k) ELSE end_addr
  BY FieldTypes DEF Ordered, GapAccounting, TailOf, GapOf
<1>2. NextHead(q) = h /\ \A k \in Live : NextHead(k) = h => k = q
  BY Neighbours DEF Ordered
<1>3. \A k \in Live : \/ NextHead(k) > k /\ \A m \in Live : m <= k \/ m >= NextHead(k)
                      \/ NextHead(k) = first_seg /\ \A m \in Live : m <= k
  BY DEF Ordered, AddressOrder
<1>4. /\ first_seg \in Live /\ first_seg < h /\ first_seg \in Nat
      /\ \A k \in Live : first_seg <= k
  BY <1>1, LastSegment
<1>5. q < h /\ \A m \in Live : m <= q \/ m >= h
  BY <1>1, <1>2, <1>3, <1>4
<1>6. /\ Live' = Live \ {h} /\ DOMAIN tail' = DOMAIN tail \ {TailOf(h)}
      /\ head' \in [Live' -> SegHead] /\ tail' \in [DOMAIN tail' -> SegTail]
      /\ NextHead(h) \in Live'
      /\ \A k \in Live' :
           /\ NextHead(k)' = IF k = q THEN NextHead(h) ELSE NextHead(k)
           /\ TailOf(k)' = TailOf(k)
           /\ GapOf(k)' = IF k = q THEN gap ELSE GapOf(k)
      /\ ListLinked'
  <2>1. /\ TypeOK /\ ListLinked /\ h \in Live /\ q \in Live /\ gap \in Nat
        /\ Unlink(h, gap) /\ q = PrevHead(h) /\ q # h
    BY <1>1, <1>5 DEF Ordered
  <2>2. QED
    BY ONLY <2>1, UnlinkView
<1>7. first_seg' = first_seg /\ Base' = Base
  BY DEF Base
<1>8. FirstIsLowest'
  BY <1>4, <1>6, <1>7 DEF Ordered, FirstIsLowest
<1>9. \/ NextHead(h) > h /\ NextHead(h) > q /\ NextHead(h) # first_seg
      \/ NextHead(h) = first_seg /\ NextHead(h) <= q
  BY <1>1, <1>3, <1>4, <1>5
<1>10. AddressOrder'
  <2> SUFFICES ASSUME NEW k \in Live'
               PROVE  \/ NextHead(k)' > k /\ \A m \in Live' : m <= k \/ m >= NextHead(k)'
                      \/ NextHead(k)' = first_seg' /\ \A m \in Live' : m <= k
    BY DEF AddressOrder
  <2>1. CASE k = q
    BY <2>1, <1>1, <1>3, <1>5, <1>6, <1>7, <1>9
  <2>2. CASE k # q
    BY <2>2, <1>3, <1>6, <1>7
  <2>3. QED
    BY <2>1, <2>2
<1>11. GapAccounting'
  <2> SUFFICES ASSUME NEW k \in Live'
               PROVE  TailOf(k)' + SEG_TAIL + GapOf(k)'
                        = IF NextHead(k)' > k THEN NextHead(k)' ELSE end_addr'
    BY DEF GapAccounting, TailOf, GapOf
  <2>1. CASE k = q
    BY <2>1, <1>1, <1>5, <1>6, <1>9
  <2>2. CASE k # q
    <3>1. end_addr' = end_addr \/ NextHead(k) > k
      BY <2>2, <1>1, <1>3, <1>4, <1>6, <1>9
    <3>2. QED
      BY <3>1, <2>2, <1>1, <1>6
  <2>3. QED
    BY <2>1, <2>2
<1>12. QED
  BY <1>1, <1>5, <1>6, <1>8, <1>10, <1>11

(* The first of several segments leaves.                                   *)
LEMMA UnlinkFirstOrdered ==
  ASSUME Ordered, NEW h \in Live, NEW q \in Live,
         Unlink(h, GapOf(q)), q = PrevHead(h), h = first_seg, q # h,
         start' = start, first_seg' = NextHead(h), end_addr' = end_addr
  PROVE  /\ ListLinked' /\ FirstIsLowest' /\ AddressOrder' /\ GapAccounting'
         /\ Live' = Live \ {h} /\ DOMAIN tail' = DOMAIN tail \ {TailOf(h)}
         /\ head' \in [Live' -> SegHead] /\ tail' \in [DOMAIN tail' -> SegTail]
         /\ \A k \in Live' : GapOf(k)' = GapOf(k)
         /\ \A k \in Live' : TailOf(k)' = TailOf(k)
<1>1. \A k \in Live :
        /\ k \in Nat /\ TailOf(k) \in Nat /\ GapOf(k) \in Nat
        /\ NextHead(k) \in Live /\ NextHead(k) \in Nat
        /\ TailOf(k) + SEG_TAIL + GapOf(k)
             = IF NextHead(k) > k THEN NextHead(k) ELSE end_addr
  BY FieldTypes DEF Ordered, GapAccounting, TailOf, GapOf
<1>2. /\ NextHead(q) = h /\ \A k \in Live : NextHead(k) = h => k = q
      /\ \A k \in Live : h <= k /\ k <= q
      /\ Base <= h /\ Base \in Nat
  BY Neighbours, LastSegment, Geometry, LayoutAssumption DEF Ordered, TypeOK, Base
<1>3. \A k \in Live : \/ NextHead(k) > k /\ \A m \in Live : m <= k \/ m >= NextHead(k)
                      \/ NextHead(k) = first_seg /\ \A m \in Live : m <= k
  BY DEF Ordered, AddressOrder
<1>4. NextHead(h) > h /\ \A m \in Live : m <= h \/ m >= NextHead(h)
  BY <1>1, <1>2, <1>3
<1>5. /\ Live' = Live \ {h} /\ DOMAIN tail' = DOMAIN tail \ {TailOf(h)}
      /\ head' \in [Live' -> SegHead] /\ tail' \in [DOMAIN tail' -> SegTail]
      /\ NextHead(h) \in Live'
      /\ \A k \in Live' :
           /\ NextHead(k)' = IF k = q THEN NextHead(h) ELSE NextHead(k)
           /\ TailOf(k)' = TailOf(k)
           /\ GapOf(k)' = GapOf(k)
      /\ ListLinked'
  BY <1>1, UnlinkView DEF Ordered
<1>6. first_seg' = NextHead(h) /\ Base' = Base /\ end_addr' = end_addr
  BY DEF Base
<1>7. FirstIsLowest'
  BY <1>1, <1>2, <1>4, <1>5, <1>6 DEF FirstIsLowest
<1>8. AddressOrder'
  <2> SUFFICES ASSUME NEW k \in Live'
               PROVE  \/ NextHead(k)' > k /\ \A m \in Live' : m <= k \/ m >= NextHead(k)'
                      \/ NextHead(k)' = first_seg' /\ \A m \in Live' : m <= k
    BY DEF AddressOrder
  <2>1. CASE k = q
    BY <2>1, <1>2, <1>5, <1>6
  <2>2. CASE k # q
    BY <2>2, <1>2, <1>3, <1>5, <1>6
  <2>3. QED
    BY <2>1, <2>2
<1>9. GapAccounting'
  <2> SUFFICES ASSUME NEW k \in Live'
               PROVE  TailOf(k)' + SEG_TAIL + GapOf(k)'
                        = IF NextHead(k)' > k THEN NextHead(k)' ELSE end_addr'
    BY DEF GapAccounting, TailOf, GapOf
  <2>1. CASE k = q
    BY <2>1, <1>1, <1>2, <1>5, <1>6
  <2>2. CASE k # q
    BY <2>2, <1>1, <1>5, <1>6
  <2>3. QED
    BY <2>1, <2>2
<1>10. QED
  BY <1>5, <1>7, <1>8, <1>9

-----------------------------------------------------------------------------
(***************************************************************************)
(* The inductive invariant.                                                *)
(***************************************************************************)

(* Sums and differences of aligned numbers are aligned.                    *)
LEMMA AlignedSum ==
  ASSUME NEW x \in Int, NEW y \in Int, Aligned(x), Aligned(y)
  PROVE  Aligned(x + y) /\ Aligned(x - y)
  BY ModSum, ModDiff, LayoutAssumption DEF Aligned

(* The three structs of types.h are whole numbers of alignment units.      *)
LEMMA AlignedSizes ==
  /\ Aligned(LIST_HEAD) /\ Aligned(SEG_HEAD) /\ Aligned(SEG_TAIL) /\ Aligned(0)
  /\ LIST_HEAD \in Nat \ {0} /\ SEG_HEAD \in Nat \ {0} /\ SEG_TAIL \in Nat \ {0}
  BY LayoutAssumption DEF Aligned

(* The tail of an aligned header is aligned, whatever the user size.       *)
LEMMA AlignedTail ==
  ASSUME NEW h \in Nat, NEW n \in Nat, Aligned(h)
  PROVE  Aligned(TailAt(h, n)) /\ TailAt(h, n) \in Nat
<1>1. round_up(n, ALIGNMENT) \in Nat /\ Aligned(round_up(n, ALIGNMENT))
  BY RoundUp
<1>2. Aligned(h + SEG_HEAD) /\ h + SEG_HEAD \in Int
  BY AlignedSum, AlignedSizes
<1>3. Aligned((h + SEG_HEAD) + round_up(n, ALIGNMENT))
  BY <1>1, <1>2, AlignedSum
<1>4. QED
  BY <1>1, <1>3, AlignedSizes DEF TailAt

(* What the steps below use of the inductive invariant.                    *)
LEMMA IInvFacts ==
  ASSUME IInv
  PROVE  /\ Ordered /\ Base \in Nat \ {0} /\ end_addr \in Nat /\ brk \in Nat
         /\ start \in Nat /\ first_seg \in Nat
         /\ call.new_a \in Nat /\ call.size \in Nat
         /\ Aligned(Base)
         /\ Live # {} => start # nullptr
<1>1. Ordered /\ start \in Nat /\ first_seg \in Nat /\ end_addr \in Nat /\ brk \in Nat
  BY DEF IInv, Ordered, TypeOK
<1>2. call.new_a \in Nat /\ call.size \in Nat
  BY ClientAssumption DEF IInv, TypeOK
<1>3. Base \in Nat \ {0} /\ Aligned(Base)
  BY <1>1, AlignedSum, AlignedSizes DEF Base, IInv, AllAligned
<1>4. QED
  BY <1>1, <1>2, <1>3 DEF IInv, Unstarted

(* The parts of the invariant that only the arena and the list decide.     *)
ListInv ==
  /\ FirstIsLowest /\ ListLinked /\ AddressOrder /\ GapAccounting
  /\ ArenaBacked /\ ArenaInPages

(* A step that touches neither the structs nor the arena keeps the list.   *)
LEMMA ListUnchanged ==
  ASSUME ListInv, UNCHANGED <<arena, head, tail>>
  PROVE  ListInv'
<1>1. /\ Live' = Live /\ Base' = Base /\ first_seg' = first_seg /\ end_addr' = end_addr
      /\ brk' = brk /\ start' = start /\ head' = head /\ tail' = tail
      /\ \A k \in Live : NextHead(k)' = NextHead(k)
  BY DEF arena, Live, Base, NextHead
<1>2. FirstIsLowest' /\ ArenaBacked' /\ ArenaInPages'
  BY <1>1 DEF ListInv, FirstIsLowest, ArenaBacked, ArenaInPages
<1>3. ListLinked'
  BY <1>1 DEF ListInv, ListLinked, TailAt
<1>4. AddressOrder' /\ GapAccounting'
  BY <1>1 DEF ListInv, AddressOrder, GapAccounting
<1>5. QED
  BY <1>2, <1>3, <1>4 DEF ListInv

(* The initial states.                                                     *)
LEMMA InitInv == Init => IInv
<1> SUFFICES ASSUME Init PROVE IInv
  OBVIOUS
<1>1. /\ Live = {} /\ DOMAIN tail = {} /\ start = 0 /\ first_seg = 0 /\ end_addr = 0
      /\ last_addr = 0 /\ call = NoCall /\ call.new_a = 0 /\ call.size = 0
      /\ status = "running" /\ brk \in Nat \ {0} /\ head = Empty /\ tail = Empty
  BY ClientAssumption DEF Init, Live, Empty, nullptr, NoCall
<1>2. TypeOK
  BY <1>1 DEF TypeOK, NoCall, Live, nullptr, Empty
<1>3. Unstarted /\ FirstIsLowest /\ AddressOrder /\ GapAccounting /\ ListLinked
  BY <1>1 DEF Unstarted, FirstIsLowest, AddressOrder, GapAccounting, ListLinked, nullptr
<1>4. ArenaBacked /\ ArenaInPages /\ LastAddrLive /\ CallFits /\ NoAbort
  BY <1>1 DEF ArenaBacked, ArenaInPages, LastAddrLive, CallFits, NoAbort, nullptr
<1>5. AllAligned
  BY <1>1, AlignedSizes DEF AllAligned
<1>6. QED
  BY <1>2, <1>3, <1>4, <1>5 DEF IInv

-----------------------------------------------------------------------------
(* find_free_seg.                                                          *)

(* find_free_seg finds a gap: only the pending call changes.               *)
LEMMA FindGapInv ==
  ASSUME IInv, Idle, NEW size \in Sizes, FindGap(size)
  PROVE  IInv'
<1>1. PICK addr \in FittingGaps(size) : Found(addr, size)
  BY DEF FindGap
<1>2. /\ UNCHANGED <<arena, head, tail>> /\ start # nullptr
      /\ last_addr' = last_addr /\ status' = status
      /\ call' = [new_a |-> addr, size |-> size]
  BY <1>1 DEF FindGap, Found
<1>3. Ordered /\ Base \in Nat /\ Aligned(Base) /\ size \in Nat
  BY IInvFacts, ClientAssumption
<1>4. addr \in Nat /\ Aligned(addr)
  <2>1. CASE addr = Base
    BY <2>1, <1>3
  <2>2. CASE addr # Base
    <3>1. PICK t \in DOMAIN tail : addr = t + SEG_TAIL
      BY <1>1, <2>2 DEF FittingGaps
    <3>2. t \in Nat /\ Aligned(t)
      BY <3>1 DEF IInv, AllAligned, TypeOK
    <3>3. t \in Int /\ SEG_TAIL \in Int /\ t + SEG_TAIL \in Nat /\ Aligned(SEG_TAIL)
      BY <3>2, AlignedSizes
    <3>4. Aligned(t + SEG_TAIL)
      BY ONLY <3>2, <3>3, AlignedSum
    <3>5. QED
      BY <3>1, <3>3, <3>4
  <2>3. QED
    BY <2>1, <2>2
<1>5. ListInv'
  BY <1>2, ListUnchanged DEF IInv, ListInv
<1>6. TypeOK'
  BY <1>2, <1>4 DEF IInv, TypeOK, arena, Live
<1>7. Unstarted' /\ LastAddrLive' /\ NoAbort'
  BY <1>2 DEF IInv, Unstarted, LastAddrLive, NoAbort, arena
<1>8. AllAligned'
  BY <1>2, <1>4 DEF IInv, AllAligned, arena, Live
<1>9. CallFits'
  BY <1>1, <1>2 DEF CallFits, FittingGaps, StartGap, Base, arena
<1>10. QED
  BY <1>5, <1>6, <1>7, <1>8, <1>9 DEF IInv, ListInv

(* The first call sets up the list header, aligned, and an arena of whole  *)
(* pages that the request fits in.                                         *)
LEMMA CreateListInv ==
  ASSUME IInv, Idle, NEW size \in Sizes, CreateList(size)
  PROVE  IInv'
<1> DEFINE list == round_up(brk, ALIGNMENT)
           grow == PageCeil(TotalSize(size))
<1>1. /\ start = nullptr /\ start' = list /\ first_seg' = nullptr
      /\ end_addr' = list + LIST_HEAD + grow
      /\ brk' = brk + (LIST_HEAD + ALIGNMENT + grow)
      /\ call' = [new_a |-> list + LIST_HEAD, size |-> size]
      /\ head' = head /\ tail' = tail /\ last_addr' = last_addr /\ status' = status
  BY DEF CreateList, sbrk, Found
<1>2. size \in Nat \ {0} /\ TotalSize(size) \in Nat /\ brk \in Nat
  BY IInvFacts, ClientAssumption, TotalSizeFacts
<1>3. /\ list \in Nat /\ list >= brk /\ list < brk + ALIGNMENT /\ Aligned(list)
      /\ ALIGNMENT \in Nat
  BY <1>2, RoundUp, LayoutAssumption
<1>4. /\ grow \in Nat /\ grow >= TotalSize(size) /\ grow % PAGE_SIZE = 0 /\ Aligned(grow)
  BY <1>2, PageCeilFacts
<1> HIDE DEF list, grow
<1>5. Live = {} /\ DOMAIN tail = {}
  BY <1>1 DEF IInv, Unstarted, ListLinked
<1>6. /\ Base' = list + LIST_HEAD /\ Base' \in Nat \ {0}
      /\ Aligned(list + LIST_HEAD) /\ Aligned(list + LIST_HEAD + grow)
  BY <1>1, <1>3, <1>4, AlignedSum, AlignedSizes DEF Base
<1>7. TypeOK'
  BY <1>1, <1>2, <1>3, <1>4, <1>6, AlignedSizes DEF IInv, TypeOK, Live, nullptr
<1>8. start' # nullptr
  BY <1>1, <1>2, <1>3 DEF IInv, Unstarted, nullptr
<1>9. Live' = {} /\ DOMAIN tail' = {}
  BY <1>1, <1>5 DEF Live
<1>10. Unstarted' /\ FirstIsLowest' /\ ListLinked' /\ AddressOrder' /\ GapAccounting'
  BY <1>1, <1>8, <1>9 DEF Unstarted, FirstIsLowest, ListLinked, AddressOrder, GapAccounting
<1>11. ArenaBacked'
  BY <1>1, <1>2, <1>3, <1>4, AlignedSizes DEF ArenaBacked
<1>12. ArenaInPages'
  BY <1>1, <1>4, <1>6 DEF ArenaInPages
<1>13. AllAligned'
  BY <1>1, <1>3, <1>6, <1>9 DEF AllAligned
<1>14. CallFits'
  BY <1>1, <1>2, <1>4, <1>6, <1>8 DEF CallFits, FittingGaps, StartGap, nullptr
<1>15. LastAddrLive' /\ NoAbort'
  BY <1>1 DEF IInv, LastAddrLive, NoAbort
<1>16. QED
  BY <1>7, <1>10, <1>11, <1>12, <1>13, <1>14, <1>15 DEF IInv

(* Growing the arena of an empty list.                                     *)
LEMMA ExpandEmptyListInv ==
  ASSUME IInv, Idle, NEW size \in Sizes, start # nullptr, FittingGaps(size) = {},
         ExpandEmptyList(size)
  PROVE  IInv'
<1> DEFINE to_expand == TotalSize(size) - (end_addr - Base)
           grow      == PageCeil(to_expand)
<1>1. /\ size \in Nat \ {0} /\ TotalSize(size) \in Nat /\ Base \in Nat /\ Aligned(Base)
      /\ end_addr \in Nat /\ brk \in Nat
  BY IInvFacts, ClientAssumption, TotalSizeFacts
<1>2. start # nullptr /\ FittingGaps(size) = {} /\ first_seg = nullptr
  BY DEF ExpandEmptyList
<1>3. to_expand \in Nat \ {0}
  BY <1>1, <1>2 DEF FittingGaps, StartGap
<1>4. /\ start' = start /\ first_seg' = first_seg /\ end_addr' = end_addr + grow
      /\ brk' = brk + grow /\ call' = [new_a |-> Base, size |-> size]
      /\ head' = head /\ tail' = tail /\ last_addr' = last_addr /\ status' = status
  BY <1>3 DEF ExpandEmptyList, ASSERT, sbrk, Found
<1>5. /\ grow \in Nat /\ grow >= to_expand /\ grow % PAGE_SIZE = 0 /\ Aligned(grow)
  BY <1>3, PageCeilFacts
<1> HIDE DEF grow
<1>6. Live = {} /\ DOMAIN tail = {} /\ Base' = Base /\ Live' = {}
  BY <1>2, <1>4, IInvFacts DEF IInv, FirstIsLowest, ListLinked, Base, Live, TypeOK
<1>7. TypeOK' /\ Unstarted' /\ LastAddrLive' /\ NoAbort'
  BY <1>1, <1>2, <1>4, <1>5, <1>6 DEF IInv, TypeOK, Unstarted, LastAddrLive, NoAbort, Live
<1>8. FirstIsLowest' /\ ListLinked' /\ AddressOrder' /\ GapAccounting'
  BY <1>2, <1>4, <1>6 DEF FirstIsLowest, ListLinked, AddressOrder, GapAccounting
<1>9. ArenaBacked'
  BY <1>1, <1>2, <1>4, <1>5, LayoutAssumption DEF IInv, ArenaBacked
<1>10. ArenaInPages'
  <2>1. /\ Base <= end_addr /\ end_addr - Base \in Int
        /\ (end_addr - Base) % PAGE_SIZE = 0 /\ PAGE_SIZE \in Nat \ {0}
    BY <1>1, <1>2, LayoutAssumption DEF IInv, ArenaInPages
  <2>2. ((end_addr - Base) + grow) % PAGE_SIZE = 0
    BY <2>1, <1>5, ModSum
  <2>3. end_addr' - Base' = (end_addr - Base) + grow /\ Base' <= end_addr'
    BY <2>1, <1>1, <1>4, <1>5, <1>6
  <2>4. QED
    BY <2>2, <2>3 DEF ArenaInPages
<1>11. AllAligned'
  <2>1. end_addr \in Int /\ grow \in Int /\ Aligned(end_addr) /\ Aligned(grow)
    BY <1>1, <1>5 DEF IInv, AllAligned
  <2>2. Aligned(end_addr + grow)
    BY ONLY <2>1, AlignedSum
  <2>3. QED
    BY <2>2, <1>1, <1>4, <1>6 DEF IInv, AllAligned
<1>12. CallFits'
  BY <1>1, <1>2, <1>4, <1>5, <1>6 DEF CallFits, FittingGaps, StartGap
<1>13. QED
  BY <1>7, <1>8, <1>9, <1>10, <1>11, <1>12 DEF IInv

(* exit() leaves everything as it is.                                      *)
LEMMA ExpandFailsInv ==
  ASSUME IInv, ExpandFails
  PROVE  IInv'
<1>1. /\ UNCHANGED <<arena, head, tail>> /\ last_addr' = last_addr /\ call' = call
      /\ status' = "exited"
  BY DEF ExpandFails
<1>2. ListInv'
  BY <1>1, ListUnchanged DEF IInv, ListInv
<1>3. TypeOK' /\ Unstarted' /\ LastAddrLive' /\ NoAbort' /\ AllAligned'
  BY <1>1 DEF IInv, TypeOK, Unstarted, LastAddrLive, NoAbort, AllAligned, arena, Live
<1>4. CallFits'
  BY <1>1 DEF IInv, CallFits, FittingGaps, StartGap, Base, arena
<1>5. QED
  BY <1>2, <1>3, <1>4 DEF IInv, ListInv

(* Growing the arena behind the last segment.                              *)
LEMMA ExpandAfterLastInv ==
  ASSUME IInv, Idle, NEW size \in Sizes, start # nullptr, FittingGaps(size) = {},
         ExpandAfterLast(size)
  PROVE  IInv'
<1> DEFINE to_expand == TotalSize(size) - tail[LastTail].free_following
           grow      == PageCeil(to_expand)
<1>1. /\ size \in Nat \ {0} /\ TotalSize(size) \in Nat /\ Base \in Nat /\ Aligned(Base)
      /\ end_addr \in Nat /\ brk \in Nat /\ Ordered
  BY IInvFacts, ClientAssumption, TotalSizeFacts
<1>2. start # nullptr /\ FittingGaps(size) = {} /\ Live # {}
  BY DEF ExpandAfterLast, IInv, FirstIsLowest
<1>3. PICK q \in Live :
        /\ LastTail = TailOf(q) /\ EndOf(q) + GapOf(q) = end_addr
        /\ NextHead(q) = first_seg /\ first_seg <= q
        /\ \A k \in Live : NextHead(k) = first_seg => k = q
  BY <1>1, <1>2, LastSegment
<1>4. \A k \in Live :
        /\ k \in Nat /\ TailOf(k) \in Nat /\ TailOf(k) \in DOMAIN tail
        /\ GapOf(k) \in Nat /\ EndOf(k) = TailOf(k) + SEG_TAIL
        /\ NextHead(k) \in Live /\ NextHead(k) \in Nat
  BY <1>1, FieldTypes DEF Ordered
<1>5. tail[LastTail].free_following = GapOf(q) /\ LastTail \in DOMAIN tail
  BY <1>3, <1>4 DEF GapOf, TailOf
<1>6. GapOf(q) < TotalSize(size)
  <2>1. ~ (tail[LastTail].free_following >= TotalSize(size))
    BY <1>2, <1>5 DEF FittingGaps
  <2>2. QED
    BY <2>1, <1>1, <1>4, <1>5
<1>7. to_expand \in Nat /\ grow \in Nat /\ grow >= to_expand
      /\ grow % PAGE_SIZE = 0 /\ Aligned(grow) /\ GapOf(q) + to_expand = TotalSize(size)
  <2>1. to_expand \in Nat /\ GapOf(q) + to_expand = TotalSize(size)
    BY <1>1, <1>4, <1>5, <1>6
  <2>2. QED
    BY <2>1, PageCeilFacts
<1>8. LastTailChecks /\ tail[LastTail].free_following < TotalSize(size)
  BY <1>1, <1>3, <1>4, <1>5, <1>6, AlignedSizes DEF LastTailChecks
<1>9. /\ start' = start /\ first_seg' = first_seg /\ end_addr' = end_addr + grow
      /\ brk' = brk + grow /\ call' = [new_a |-> LastTail + SEG_TAIL, size |-> size]
      /\ head' = head /\ last_addr' = last_addr /\ status' = status
      /\ tail' = [tail EXCEPT ![LastTail].free_following = @ + grow]
  BY <1>8 DEF ExpandAfterLast, ASSERT, sbrk, Found
<1> HIDE DEF grow, to_expand
<1>10. /\ tail' \in [DOMAIN tail -> SegTail] /\ DOMAIN tail' = DOMAIN tail
       /\ \A u \in DOMAIN tail :
            /\ tail'[u].next_seg_head = tail[u].next_seg_head
            /\ tail'[u].prev_seg_head = tail[u].prev_seg_head
            /\ u # LastTail => tail'[u].free_following = tail[u].free_following
       /\ tail'[LastTail].free_following = GapOf(q) + grow
  <2>1. tail \in [DOMAIN tail -> SegTail]
    BY DEF IInv, TypeOK
  <2>2. tail'[LastTail].free_following = GapOf(q) + grow
    BY <2>1, <1>5, <1>9 DEF SegTail
  <2>3. tail' \in [DOMAIN tail -> SegTail]
    BY <2>1, <1>4, <1>5, <1>7, <1>9 DEF SegTail
  <2>4. QED
    BY <2>1, <2>2, <2>3, <1>5, <1>9 DEF SegTail
<1>11. /\ Live' = Live /\ Base' = Base
       /\ \A k \in Live : /\ NextHead(k)' = NextHead(k) /\ TailOf(k)' = TailOf(k)
                          /\ GapOf(k)' = IF k = q THEN GapOf(q) + grow ELSE GapOf(k)
  <2>1. \A k \in Live : TailOf(k) = LastTail => k = q
    BY <1>1, <1>3, Neighbours DEF Ordered
  <2>2. QED
    BY <2>1, <1>3, <1>4, <1>9, <1>10 DEF Live, Base, NextHead, TailOf, GapOf
<1>12. ListLinked'
  <2>1. /\ ListLinked /\ head' = head /\ Live' = Live /\ DOMAIN tail' = DOMAIN tail
        /\ \A u \in DOMAIN tail : /\ tail'[u].next_seg_head = tail[u].next_seg_head
                                 /\ tail'[u].prev_seg_head = tail[u].prev_seg_head
        /\ \A k \in Live : NextHead(k)' = NextHead(k)
    BY <1>9, <1>10, <1>11 DEF IInv
  <2>2. \A h \in Live : head[h].prev_seg_tail \in DOMAIN tail
                        /\ tail'[head[h].prev_seg_tail].next_seg_head = h
    BY <2>1 DEF ListLinked
  <2>3. \A h \in Live : tail'[head[h].next_seg_tail].prev_seg_head = h
    BY <2>1 DEF ListLinked
  <2>4. QED
    BY <2>1, <2>2, <2>3 DEF ListLinked, TailAt
<1>13. FirstIsLowest' /\ AddressOrder'
  BY <1>9, <1>11 DEF IInv, FirstIsLowest, AddressOrder
<1>14. GapAccounting'
  <2> SUFFICES ASSUME NEW k \in Live
               PROVE  TailOf(k)' + SEG_TAIL + GapOf(k)'
                        = IF NextHead(k)' > k THEN NextHead(k)' ELSE end_addr'
    BY <1>11 DEF GapAccounting, TailOf, GapOf
  <2>1. TailOf(k) + SEG_TAIL + GapOf(k) = IF NextHead(k) > k THEN NextHead(k) ELSE end_addr
    BY DEF IInv, GapAccounting, TailOf, GapOf
  <2>2. CASE k = q
    BY <2>1, <2>2, <1>1, <1>3, <1>4, <1>7, <1>9, <1>11, AlignedSizes
  <2>3. CASE k # q
    <3>1. NextHead(k) > k
      BY <2>3, <1>3 DEF IInv, AddressOrder
    <3>2. QED
      BY <3>1, <2>1, <2>3, <1>11
  <2>4. QED
    BY <2>2, <2>3
<1>15. ArenaBacked'
  BY <1>1, <1>2, <1>7, <1>9, LayoutAssumption DEF IInv, ArenaBacked
<1>16. ArenaInPages'
  <2>1. /\ Base <= end_addr /\ end_addr - Base \in Int /\ grow \in Int
        /\ (end_addr - Base) % PAGE_SIZE = 0 /\ PAGE_SIZE \in Nat \ {0}
        /\ grow % PAGE_SIZE = 0
    BY <1>1, <1>2, <1>7, LayoutAssumption DEF IInv, ArenaInPages
  <2>2. ((end_addr - Base) + grow) % PAGE_SIZE = 0
    BY ONLY <2>1, ModSum
  <2>3. end_addr' - Base' = (end_addr - Base) + grow /\ Base' <= end_addr'
    BY <2>1, <1>1, <1>7, <1>9, <1>11
  <2>4. QED
    BY <2>2, <2>3 DEF ArenaInPages
<1>17. AllAligned'
  <2>1. /\ end_addr \in Int /\ grow \in Int /\ Aligned(end_addr) /\ Aligned(grow)
        /\ LastTail \in Int /\ Aligned(LastTail) /\ SEG_TAIL \in Int /\ Aligned(SEG_TAIL)
        /\ GapOf(q) \in Int /\ Aligned(GapOf(q))
    BY <1>1, <1>3, <1>4, <1>5, <1>7, AlignedSizes DEF IInv, AllAligned
  <2>2. Aligned(end_addr + grow) /\ Aligned(LastTail + SEG_TAIL) /\ Aligned(GapOf(q) + grow)
    BY ONLY <2>1, AlignedSum
  <2>3. \A u \in DOMAIN tail' : Aligned(u) /\ Aligned(tail'[u].free_following)
    BY <2>2, <1>10 DEF IInv, AllAligned
  <2>4. QED
    BY <2>2, <2>3, <1>9, <1>11 DEF IInv, AllAligned
<1>18. TypeOK'
  BY <1>1, <1>3, <1>4, <1>5, <1>7, <1>9, <1>10, <1>11, AlignedSizes DEF IInv, TypeOK, Live
<1>19. CallFits'
  <2>1. LastTail + SEG_TAIL \in FittingGaps(size)'
    BY <1>1, <1>4, <1>5, <1>7, <1>10 DEF FittingGaps
  <2>2. QED
    BY <2>1, <1>2, <1>9 DEF CallFits, FittingGaps
<1>20. Unstarted' /\ LastAddrLive' /\ NoAbort'
  BY <1>2, <1>9, <1>10 DEF IInv, Unstarted, LastAddrLive, NoAbort
<1>21. QED
  BY <1>12, <1>13, <1>14, <1>15, <1>16, <1>17, <1>18, <1>19, <1>20 DEF IInv

-----------------------------------------------------------------------------
(* add_entry.                                                              *)

(* Where the address find_free_seg chose lies, and that every assertion of *)
(* add_entry holds there.                                                  *)
LEMMA AddPlace ==
  ASSUME IInv, call # NoCall
  PROVE  /\ AddChecks /\ GapChecks /\ start # nullptr
         /\ \/ /\ first_seg = nullptr /\ Live = {} /\ call.new_a = Base
               /\ end_addr - call.new_a >= TotalSize(call.size)
            \/ /\ first_seg # nullptr /\ Live # {} /\ call.new_a = Base
               /\ call.new_a + TotalSize(call.size) <= first_seg
               /\ get_prev_reference(call.new_a) = start
            \/ /\ first_seg # nullptr
               /\ \E q \in Live : /\ get_prev_reference(call.new_a) = q /\ q # start
                                 /\ call.new_a = EndOf(q)
                                 /\ GapOf(q) >= TotalSize(call.size)
<1> DEFINE a     == call.new_a
           total == TotalSize(call.size)
<1>1. /\ Ordered /\ Base \in Nat \ {0} /\ end_addr \in Nat /\ first_seg \in Nat
      /\ start \in Nat /\ a \in Nat /\ total \in Nat \ {0}
      /\ Base = start + LIST_HEAD /\ LIST_HEAD \in Nat \ {0} /\ SEG_TAIL \in Nat \ {0}
  BY IInvFacts, NewTailFacts, AlignedSizes DEF Base
<1>2. start # nullptr /\ a \in FittingGaps(call.size)
  BY DEF IInv, CallFits
<1>3. \A k \in Live :
        /\ k \in Nat \ {0} /\ TailOf(k) \in Nat /\ TailOf(k) \in DOMAIN tail
        /\ GapOf(k) \in Nat /\ EndOf(k) \in Nat /\ EndOf(k) = TailOf(k) + SEG_TAIL
        /\ EndOf(k) > TailOf(k) /\ TailOf(k) > k
        /\ tail[TailOf(k)].prev_seg_head = k
        /\ EndOf(k) + GapOf(k) <= end_addr
        /\ Base <= first_seg /\ first_seg <= k
  BY <1>1, FieldTypes, Geometry DEF Ordered, ListLinked, TailOf
<1> HIDE DEF a, total
<1>4. CASE a = Base /\ StartGap >= total
  <2>1. CASE first_seg = nullptr
    <3>1. Live = {}
      BY <2>1, <1>3 DEF IInv, FirstIsLowest, nullptr
    <3>2. end_addr - a >= total
      BY <1>4, <2>1 DEF StartGap
    <3>3. AddChecks /\ GapChecks
      BY <3>2, <2>1, <1>1, <1>4 DEF AddChecks, GapChecks, a, total
    <3>4. QED
      BY <3>1, <3>2, <3>3, <2>1, <1>2, <1>4 DEF a, total
  <2>2. CASE first_seg # nullptr
    <3>1. Live # {} /\ first_seg \in Live
      BY <2>2 DEF IInv, FirstIsLowest
    <3>2. a + total <= first_seg
      BY <1>1, <1>4, <2>2 DEF StartGap
    <3>3. first_seg <= end_addr /\ first_seg > a
      BY <3>1, <3>2, <1>1, <1>3
    <3>4. get_prev_reference(a) = start
      BY <3>3 DEF get_prev_reference
    <3>5. AddChecks
      BY <3>2, <3>3, <1>1, <1>4 DEF AddChecks, a, total
    <3>6. GapChecks
      BY <3>2, <3>4, <1>1, <2>2 DEF GapChecks, a, total
    <3>7. QED
      BY <3>1, <3>2, <3>4, <3>5, <3>6, <2>2, <1>2, <1>4 DEF a, total
  <2>3. QED
    BY <2>1, <2>2
<1>5. CASE ~(a = Base /\ StartGap >= total)
  <2>1. PICK t \in DOMAIN tail : a = t + SEG_TAIL /\ tail[t].free_following >= total
    BY <1>2, <1>5 DEF FittingGaps, total
  <2>2. PICK q \in Live : t = TailOf(q) /\ tail[t].prev_seg_head = q
    BY <2>1, Neighbours DEF IInv
  <2>3. a = EndOf(q) /\ GapOf(q) >= total
    BY <2>1, <2>2, <1>3 DEF GapOf, TailOf
  <2>4. first_seg # nullptr /\ first_seg <= q /\ q < a /\ Base <= a /\ q # start
        /\ a + total <= end_addr
    BY <2>3, <1>1, <1>3 DEF nullptr
  <2>5. a - SEG_TAIL = t
    BY <2>2, <2>3, <1>1, <1>3
  <2>6. get_prev_reference(a) = q
    <3>1. ~(first_seg > a) /\ first_seg # nullptr
      BY <2>4, <1>1, <1>3
    <3>2. QED
      BY <3>1, <2>2, <2>5 DEF get_prev_reference
  <2>7. AddChecks
    BY <2>4, <1>1 DEF AddChecks, a, total
  <2>8. GapChecks
    <3>1. /\ a - (TailOf(q) + SEG_TAIL) = 0
          /\ GapOf(q) - 0 >= total
          /\ TailOf(q) + SEG_TAIL + GapOf(q) <= end_addr
      BY <2>3, <1>1, <1>3
    <3>2. QED
      BY <3>1, <2>4, <2>6 DEF GapChecks, TailOf, GapOf, a, total
  <2>9. QED
    BY <1>2, <2>3, <2>4, <2>6, <2>7, <2>8 DEF a, total
<1>6. QED
  BY <1>4, <1>5

(* What is left to show of a step that edits the list outside a malloc.    *)
LEMMA EditInv ==
  ASSUME IInv, start # nullptr, start' = start, status' = status, call' = NoCall,
         ListLinked', FirstIsLowest', AddressOrder', GapAccounting',
         head' \in [Live' -> SegHead], tail' \in [DOMAIN tail' -> SegTail],
         Live' \subseteq Nat \ {0}, DOMAIN tail' \subseteq Nat \ {0},
         first_seg' \in Nat, last_addr' \in DOMAIN tail' \cup {nullptr},
         \A k \in Live' : Aligned(k) /\ Aligned(GapOf(k)'),
         NEW shrink \in Nat, end_addr' = end_addr - shrink, brk' = brk - shrink,
         shrink % PAGE_SIZE = 0, Aligned(shrink), Base <= end_addr - shrink
  PROVE  IInv'
<1>1. /\ Base \in Nat /\ end_addr \in Nat /\ brk \in Nat /\ start \in Nat
      /\ end_addr <= brk /\ brk <= end_addr + ALIGNMENT
      /\ (end_addr - Base) % PAGE_SIZE = 0 /\ Aligned(end_addr) /\ Aligned(start)
      /\ ALIGNMENT \in Nat /\ PAGE_SIZE \in Nat \ {0}
  BY IInvFacts, LayoutAssumption DEF IInv, ArenaBacked, ArenaInPages, AllAligned
<1>2. end_addr' \in Nat /\ brk' \in Nat /\ Base' = Base
  BY <1>1 DEF Base
<1>3. TypeOK'
  <2>1. call' \in [new_a : Nat, size : Sizes \cup {0}]
    BY DEF NoCall, nullptr
  <2>2. last_addr' \in Nat
    BY DEF nullptr
  <2>3. QED
    BY <1>1, <1>2, <2>1, <2>2 DEF IInv, TypeOK, Live, nullptr
<1>4. ArenaBacked'
  BY <1>1, <1>2 DEF ArenaBacked
<1>5. ArenaInPages'
  <2>1. /\ end_addr - Base \in Int /\ shrink \in Int /\ PAGE_SIZE \in Nat \ {0}
        /\ (end_addr - Base) % PAGE_SIZE = 0 /\ shrink % PAGE_SIZE = 0
    BY <1>1
  <2>2. ((end_addr - Base) - shrink) % PAGE_SIZE = 0
    BY ONLY <2>1, ModDiff
  <2>3. end_addr' - Base' = (end_addr - Base) - shrink
    BY <1>1, <1>2
  <2>4. QED
    BY <2>2, <2>3, <1>2 DEF ArenaInPages
<1>6. AllAligned'
  <2>1. end_addr \in Int /\ shrink \in Int /\ Aligned(end_addr) /\ Aligned(shrink)
    BY <1>1
  <2>2. Aligned(end_addr - shrink)
    BY ONLY <2>1, AlignedSum
  <2>3. ASSUME NEW u \in DOMAIN tail'
        PROVE  Aligned(u) /\ Aligned(tail'[u].free_following)
    <3>1. PICK k \in Live' : u = head'[k].next_seg_tail
      BY DEF ListLinked
    <3>2. u = TailAt(k, head'[k].seg_size) /\ Aligned(GapOf(k)') /\ Aligned(k)
      BY <3>1 DEF ListLinked, TailAt
    <3>3. k \in Nat /\ head'[k].seg_size \in Nat
      BY DEF SegHead
    <3>4. Aligned(TailAt(k, head'[k].seg_size))
      BY ONLY <3>2, <3>3, AlignedTail
    <3>5. QED
      BY <3>1, <3>2, <3>4 DEF GapOf
  <2>4. QED
    BY <2>2, <2>3, <1>1, AlignedSizes DEF AllAligned, NoCall, nullptr
<1>7. Unstarted' /\ LastAddrLive' /\ CallFits' /\ NoAbort'
  BY DEF IInv, Unstarted, LastAddrLive, CallFits, NoAbort, NoCall, nullptr
<1>8. QED
  BY <1>3, <1>4, <1>5, <1>6, <1>7 DEF IInv

(* add_entry, in the empty list, before the first segment or behind one.   *)
LEMMA AddEntryInv ==
  ASSUME IInv, AddEntry
  PROVE  IInv'
<1>1. /\ call # NoCall /\ AddChecks /\ GapChecks /\ start # nullptr
      /\ AddToEmptyList \/ AddBeforeFirst \/ AddAfterSegment
      /\ last_addr' = NewTail /\ call' = NoCall /\ status' = status
      /\ brk' = brk /\ start' = start /\ end_addr' = end_addr
  BY AddPlace DEF AddEntry, ASSERT
<1>2. PICK a \in Nat, u \in Nat \ {0}, n \in Nat, total \in Nat \ {0} :
        /\ a = call.new_a /\ u = NewTail /\ n = call.size /\ total = TotalSize(n)
        /\ u > a /\ u + SEG_TAIL = a + total
  BY IInvFacts, NewTailFacts
<1>3. /\ Ordered /\ Base \in Nat \ {0} /\ end_addr \in Nat /\ first_seg \in Nat
      /\ Aligned(Base) /\ Aligned(a) /\ Aligned(total) /\ Aligned(end_addr)
      /\ Base <= end_addr /\ SEG_TAIL \in Nat \ {0}
  BY <1>1, <1>2, IInvFacts, TotalSizeFacts, AlignedSizes
     DEF IInv, AllAligned, ArenaInPages
<1>4. \A k \in Live : /\ k \in Nat \ {0} /\ TailOf(k) \in Nat \ {0} /\ GapOf(k) \in Nat
                       /\ EndOf(k) \in Nat /\ EndOf(k) > k
                       /\ Aligned(k) /\ Aligned(GapOf(k))
  BY <1>3, FieldTypes DEF Ordered, IInv, AllAligned, TailOf, GapOf
<1>5. 0 % PAGE_SIZE = 0 /\ Aligned(0) /\ 0 \in Nat
  BY AlignedSizes, LayoutAssumption
<1>6. Live \subseteq Nat \ {0} /\ DOMAIN tail \subseteq Nat \ {0}
  BY DEF IInv, TypeOK, nullptr
<1>7. CASE first_seg = nullptr
  <2>1. /\ Live = {} /\ a = Base /\ end_addr - a >= total
    BY <1>2, <1>7, <1>1, AddPlace
  <2>2. PICK after \in Nat : after = end_addr - (a + total)
    BY <2>1, <1>3, <1>2
  <2>3. /\ head' = Put(Empty, a, [next_seg_tail |-> u, prev_seg_tail |-> u, seg_size |-> n])
        /\ tail' = Put(Empty, u, [next_seg_head |-> a, prev_seg_head |-> a,
                                  free_following |-> after])
        /\ first_seg' = a
    <3>1. ~AddBeforeFirst /\ ~AddAfterSegment
      BY <1>7 DEF AddBeforeFirst, AddAfterSegment
    <3>2. QED
      BY <3>1, <2>2, <1>1, <1>2 DEF AddToEmptyList, NewHeader, NewTrailer
  <2>4. /\ Live' = {a} /\ DOMAIN tail' = {u}
        /\ head'[a] = [next_seg_tail |-> u, prev_seg_tail |-> u, seg_size |-> n]
        /\ tail'[u] = [next_seg_head |-> a, prev_seg_head |-> a, free_following |-> after]
        /\ head' \in [Live' -> SegHead] /\ tail' \in [DOMAIN tail' -> SegTail]
    BY <2>3 DEF Put, Empty, Live, SegHead, SegTail
  <2>5. NextHead(a)' = a /\ GapOf(a)' = after /\ Base' = Base
    BY <2>4, <1>1 DEF NextHead, GapOf, Base
  <2>6. ListLinked'
    BY <2>4, <2>5, <1>2 DEF ListLinked, NewTail
  <2>7. FirstIsLowest' /\ AddressOrder'
    BY <2>1, <2>3, <2>4, <2>5 DEF FirstIsLowest, AddressOrder
  <2>8. GapAccounting'
    BY <2>1, <2>2, <2>4, <2>5, <1>1, <1>2, <1>3 DEF GapAccounting
  <2>9. Aligned(after)
    <3>1. end_addr \in Int /\ a \in Int /\ total \in Int /\ a + total \in Int
          /\ Aligned(a) /\ Aligned(total) /\ Aligned(end_addr)
      BY <1>2, <1>3
    <3>2. Aligned(a + total)
      BY ONLY <3>1, AlignedSum
    <3>3. Aligned(end_addr - (a + total))
      BY ONLY <3>1, <3>2, AlignedSum
    <3>4. QED
      BY <3>3, <2>2
  <2>10. Live' \subseteq Nat \ {0} /\ DOMAIN tail' \subseteq Nat \ {0}
    BY <2>1, <2>4, <1>3
  <2>11. \A k \in Live' : Aligned(k) /\ Aligned(GapOf(k)')
    BY <2>4, <2>5, <2>9, <1>3
  <2>12. /\ end_addr' = end_addr - 0 /\ brk' = brk - 0 /\ Base <= end_addr - 0
         /\ first_seg' \in Nat /\ last_addr' \in DOMAIN tail' \cup {nullptr}
    BY <2>3, <2>4, <1>1, <1>2, <1>3 DEF IInv, TypeOK
  <2>13. QED
    BY <2>4, <2>6, <2>7, <2>8, <2>10, <2>11, <2>12, <1>1, <1>5, EditInv
<1>8. CASE first_seg # nullptr /\ get_prev_reference(a) = start
  <2>1. /\ Live # {} /\ a = Base /\ a + total <= first_seg
    BY <1>2, <1>4, <1>8, <1>1, AddPlace
  <2>2. PICK q \in Live : q = PrevHead(first_seg) /\ LastTail = TailOf(q)
    BY <2>1, <1>3, LastSegment
  <2>3. PICK after \in Nat : a + total + after = first_seg
    <3>1. first_seg - (a + total) \in Nat /\ a + total + (first_seg - (a + total)) = first_seg
      BY <2>1, <1>2, <1>3
    <3>2. QED
      BY <3>1
  <2>4. Insert(TailOf(q), GapOf(q), after) /\ first_seg' = a
    <3>1. AddBeforeFirst
      BY <1>1, <1>2, <1>8 DEF AddToEmptyList, AddAfterSegment
    <3>2. ((first_seg - Base) - (a - Base)) - total = after
      BY <2>3, <1>2, <1>3
    <3>3. tail[LastTail].free_following = GapOf(q)
      BY <2>2 DEF GapOf, TailOf
    <3>4. QED
      BY <3>1, <3>2, <3>3, <2>2, <1>2 DEF AddBeforeFirst
  <2>5. a \in Nat \ {0} /\ call.size \in Nat /\ a + TotalSize(call.size) + after = first_seg
    BY <2>1, <2>3, <1>2, <1>3
  <2>6. /\ ListLinked' /\ FirstIsLowest' /\ AddressOrder' /\ GapAccounting'
        /\ Live' = Live \cup {a} /\ DOMAIN tail' = DOMAIN tail \cup {u}
        /\ head' \in [Live' -> SegHead] /\ tail' \in [DOMAIN tail' -> SegTail]
        /\ \A k \in Live : GapOf(k)' = GapOf(k)
        /\ GapOf(a)' = after
    <3>1. /\ Ordered /\ Live # {} /\ q \in Live /\ a \in Nat \ {0} /\ u \in Nat \ {0}
          /\ after \in Nat /\ q = PrevHead(first_seg)
          /\ Insert(TailOf(q), GapOf(q), after) /\ first_seg' = a
          /\ start' = start /\ end_addr' = end_addr
          /\ a = call.new_a /\ u = NewTail /\ call.size \in Nat
          /\ a = Base /\ a + TotalSize(call.size) + after = first_seg
      BY <1>1, <1>2, <1>3, <2>1, <2>2, <2>3, <2>4, <2>5
    <3>2. QED
      BY ONLY <3>1, InsertFirstOrdered
  <2>7. Aligned(after)
    <3>1. first_seg \in Int /\ a \in Int /\ total \in Int /\ a + total \in Int
          /\ Aligned(a) /\ Aligned(total) /\ Aligned(first_seg)
      BY <1>2, <1>3, <1>4, <2>1 DEF IInv, FirstIsLowest
    <3>2. Aligned(a + total)
      BY ONLY <3>1, AlignedSum
    <3>3. Aligned(first_seg - (a + total))
      BY ONLY <3>1, <3>2, AlignedSum
    <3>4. first_seg - (a + total) = after
      BY <2>3, <1>2, <1>3
    <3>5. QED
      BY <3>3, <3>4
  <2>8. Live' \subseteq Nat \ {0} /\ DOMAIN tail' \subseteq Nat \ {0}
    BY <2>5, <2>6, <1>6
  <2>9. \A k \in Live' : Aligned(k) /\ Aligned(GapOf(k)')
    BY <2>6, <2>7, <1>3, <1>4
  <2>10. /\ end_addr' = end_addr - 0 /\ brk' = brk - 0 /\ Base <= end_addr - 0
         /\ first_seg' \in Nat /\ last_addr' \in DOMAIN tail' \cup {nullptr}
    BY <2>4, <2>6, <1>1, <1>2, <1>3 DEF IInv, TypeOK
  <2>11. QED
    BY <2>6, <2>8, <2>9, <2>10, <1>1, <1>5, EditInv
<1>9. CASE first_seg # nullptr /\ get_prev_reference(a) # start
  <2>1. PICK q \in Live : /\ get_prev_reference(a) = q /\ a = EndOf(q)
                          /\ GapOf(q) >= total
    BY <1>2, <1>9, <1>1, AddPlace
  <2>2. /\ TailOf(q) \in Nat /\ GapOf(q) \in Nat /\ EndOf(q) = TailOf(q) + SEG_TAIL
        /\ Aligned(GapOf(q))
    BY <1>3, <1>4, FieldTypes DEF Ordered
  <2>3. PICK after \in Nat : after = GapOf(q) - total
    BY <2>1, <2>2, <1>2
  <2>4. Insert(TailOf(q), 0, after) /\ first_seg' = first_seg
    <3>1. AddAfterSegment
      BY <1>1, <1>2, <1>9 DEF AddToEmptyList, AddBeforeFirst
    <3>2. a - (TailOf(q) + SEG_TAIL) = 0 /\ GapOf(q) - (0 + total) = after
      BY <2>1, <2>2, <2>3, <1>2, <1>3
    <3>3. QED
      BY <3>1, <3>2, <2>1, <1>2 DEF AddAfterSegment, TailOf, GapOf
  <2>5. /\ a \in Nat \ {0} /\ call.size \in Nat
        /\ a + TotalSize(call.size) + after = a + GapOf(q)
    BY <2>1, <2>2, <2>3, <1>2, <1>4
  <2>6. /\ ListLinked' /\ FirstIsLowest' /\ AddressOrder' /\ GapAccounting'
        /\ Live' = Live \cup {a} /\ DOMAIN tail' = DOMAIN tail \cup {u}
        /\ head' \in [Live' -> SegHead] /\ tail' \in [DOMAIN tail' -> SegTail]
        /\ \A k \in Live : GapOf(k)' = IF k = q THEN 0 ELSE GapOf(k)
        /\ GapOf(a)' = after
    <3>1. /\ Ordered /\ q \in Live /\ a \in Nat \ {0} /\ u \in Nat \ {0}
          /\ after \in Nat /\ Insert(TailOf(q), 0, after) /\ first_seg' = first_seg
          /\ start' = start /\ end_addr' = end_addr
          /\ a = call.new_a /\ u = NewTail /\ call.size \in Nat
          /\ a = EndOf(q) /\ a + TotalSize(call.size) + after = a + GapOf(q)
      BY <1>1, <1>2, <1>3, <2>1, <2>4, <2>5
    <3>2. QED
      BY ONLY <3>1, InsertAfterOrdered
  <2>7. Aligned(after)
    <3>1. GapOf(q) \in Int /\ total \in Int /\ Aligned(GapOf(q)) /\ Aligned(total)
      BY <2>2, <1>2, <1>3
    <3>2. Aligned(GapOf(q) - total)
      BY ONLY <3>1, AlignedSum
    <3>3. QED
      BY <3>2, <2>3
  <2>8. Live' \subseteq Nat \ {0} /\ DOMAIN tail' \subseteq Nat \ {0}
    BY <2>5, <2>6, <1>6
  <2>9. \A k \in Live' : Aligned(k) /\ Aligned(GapOf(k)')
    BY <2>6, <2>7, <1>3, <1>4, <1>5
  <2>10. /\ end_addr' = end_addr - 0 /\ brk' = brk - 0 /\ Base <= end_addr - 0
         /\ first_seg' \in Nat /\ last_addr' \in DOMAIN tail' \cup {nullptr}
    BY <2>4, <2>6, <1>1, <1>2, <1>3 DEF IInv, TypeOK
  <2>11. QED
    BY <2>6, <2>8, <2>9, <2>10, <1>1, <1>5, EditInv
<1>10. QED
  BY <1>7, <1>8, <1>9

-----------------------------------------------------------------------------
(* remove_segment.                                                         *)

(* Facts about the segment to remove and its predecessor.                  *)
LEMMA RemoveContext ==
  ASSUME IInv, NEW h \in Live
  PROVE  \E q \in Live :
           /\ q = PrevHead(h) /\ NextHead(q) = h /\ head[h].prev_seg_tail = TailOf(q)
           /\ h \in Nat \ {0} /\ q \in Nat \ {0} /\ GapOf(h) \in Nat /\ GapOf(q) \in Nat
           /\ TotalSize(SizeOf(h)) \in Nat
           /\ EndOf(h) = h + TotalSize(SizeOf(h)) /\ EndOf(h) \in Nat
           /\ EndOf(q) \in Nat /\ EndOf(q) = TailOf(q) + SEG_TAIL /\ EndOf(q) > q
           /\ EndOf(h) = TailOf(h) + SEG_TAIL
           /\ TailOf(h) \in Nat /\ TailOf(q) \in Nat
           /\ TailOf(h) \in DOMAIN tail /\ TailOf(q) \in DOMAIN tail
           /\ TailOf(h) # TailOf(q) \/ h = q
           /\ Base <= h /\ Base <= q /\ h + SEG_HEAD < end_addr /\ start # nullptr
           /\ EndOf(h) + GapOf(h) <= end_addr
           /\ MergedGap(h) = GapOf(q) + TotalSize(SizeOf(h)) + GapOf(h)
<1>1. Ordered /\ Base \in Nat /\ end_addr \in Nat /\ start # nullptr /\ first_seg \in Nat
  BY IInvFacts
<1>2. PICK q \in Live : /\ q = PrevHead(h) /\ NextHead(q) = h
                        /\ head[h].prev_seg_tail = TailOf(q)
                        /\ TailOf(h) # TailOf(q) \/ h = q
  BY <1>1, Neighbours DEF Ordered
<1>3. \A k \in Live :
        /\ k \in Nat \ {0} /\ GapOf(k) \in Nat /\ SizeOf(k) \in Nat
        /\ EndOf(k) \in Nat /\ EndOf(k) = TailOf(k) + SEG_TAIL /\ TailOf(k) > k
        /\ EndOf(k) > TailOf(k)
        /\ TailOf(k) \in Nat /\ TailOf(k) \in DOMAIN tail
        /\ TailOf(k) = TailAt(k, SizeOf(k))
        /\ EndOf(k) + GapOf(k) <= end_addr /\ Base <= k
  <2>1. \A k \in Live : TailOf(k) = TailAt(k, SizeOf(k))
    BY DEF IInv, ListLinked, TailOf, SizeOf
  <2>2. \A k \in Live : EndOf(k) + GapOf(k) <= end_addr /\ Base <= first_seg /\ first_seg <= k
                        /\ k \in Nat
    BY <1>1, Geometry, FieldTypes DEF Ordered
  <2>3. QED
    BY <2>1, <2>2, <1>1, FieldTypes DEF Ordered
<1>4. TotalSize(SizeOf(h)) \in Nat /\ EndOf(h) = h + TotalSize(SizeOf(h))
  BY <1>3, TotalSizeFacts DEF EndOf, SizeOf
<1>5. h + SEG_HEAD < end_addr
  <2>1. /\ round_up(SizeOf(h), ALIGNMENT) \in Nat /\ SEG_HEAD \in Nat \ {0}
        /\ SEG_TAIL \in Nat \ {0}
    BY <1>3, RoundUp, AlignedSizes
  <2>2. TailOf(h) >= h + SEG_HEAD
    BY <1>3, <2>1 DEF TailAt
  <2>3. QED
    BY <2>1, <2>2, <1>1, <1>3
<1>6. MergedGap(h) = GapOf(q) + TotalSize(SizeOf(h)) + GapOf(h)
  BY <1>2 DEF MergedGap, GapOf, SizeOf, TailOf
<1>7. EndOf(q) > q
  BY <1>3
<1>8. QED
  BY <1>1, <1>2, <1>3, <1>4, <1>5, <1>6, <1>7

(* last_addr follows a tail that disappears to one that stays.             *)
LEMMA LastAddrMoves ==
  ASSUME IInv, NEW t \in DOMAIN tail, NEW new,
         last_addr' = LastAddr(t, new), new \in DOMAIN tail' \cup {nullptr},
         DOMAIN tail \ {t} \subseteq DOMAIN tail'
  PROVE  last_addr' \in DOMAIN tail' \cup {nullptr}
  BY DEF IInv, LastAddrLive, LastAddr

(* remove_segment gives back whole pages, never more than the gap has.     *)
LEMMA ContractionFacts ==
  ASSUME NEW gap \in Nat
  PROVE  /\ Contraction(gap) \in Nat /\ Contraction(gap) <= gap
         /\ Contraction(gap) % PAGE_SIZE = 0 /\ Aligned(Contraction(gap))
<1>1. 0 % PAGE_SIZE = 0 /\ Aligned(0)
  BY LayoutAssumption, AlignedSizes
<1>2. QED
  BY <1>1, PageFloorFacts DEF Contraction

(* A segment that is not the first leaves, and the arena may contract.     *)
LEMMA RemoveInnerInv ==
  ASSUME IInv, Idle, NEW h \in Live, RemoveInner(h)
  PROVE  IInv'
<1>1. PICK q \in Live :
           /\ q = PrevHead(h) /\ NextHead(q) = h /\ head[h].prev_seg_tail = TailOf(q)
           /\ h \in Nat \ {0} /\ q \in Nat \ {0} /\ GapOf(h) \in Nat /\ GapOf(q) \in Nat
           /\ TotalSize(SizeOf(h)) \in Nat
           /\ EndOf(h) = h + TotalSize(SizeOf(h)) /\ EndOf(h) \in Nat
           /\ EndOf(q) \in Nat /\ EndOf(q) = TailOf(q) + SEG_TAIL /\ EndOf(q) > q
           /\ TailOf(q) \in Nat
           /\ TailOf(h) \in DOMAIN tail /\ TailOf(q) \in DOMAIN tail
           /\ TailOf(h) # TailOf(q) \/ h = q
           /\ Base <= h /\ Base <= q /\ h + SEG_HEAD < end_addr /\ start # nullptr
           /\ EndOf(h) + GapOf(h) <= end_addr
           /\ MergedGap(h) = GapOf(q) + TotalSize(SizeOf(h)) + GapOf(h)
  BY RemoveContext
<1>2. Ordered /\ Base \in Nat /\ end_addr \in Nat /\ h # first_seg /\ call = NoCall
  BY IInvFacts DEF RemoveInner, Idle
<1>3. PICK last \in Live :
        /\ last = PrevHead(first_seg) /\ LastTail = TailOf(last)
        /\ EndOf(last) + GapOf(last) = end_addr
        /\ \A k \in Live : k <= last
        /\ \A k \in Live : NextHead(k) = first_seg <=> k = last
  BY <1>2, LastSegment
<1>4. q < h /\ EndOf(q) + GapOf(q) = h
  <2>1. q # last
    BY <1>1, <1>2, <1>3
  <2>2. q < last
    BY <2>1, <1>2, <1>3, FieldTypes DEF Ordered
  <2>3. QED
    BY <2>2, <1>1, <1>2, Below
<1>5. TailOf(q) # LastTail
  <2>1. SUFFICES ASSUME TailOf(q) = TailOf(last) PROVE FALSE
    BY <1>3
  <2>2. q = last
    BY <2>1, <1>2, Neighbours DEF Ordered
  <2>3. h <= q
    BY <2>2, <1>3
  <2>4. QED
    BY <2>3, <1>1, <1>4
<1> DEFINE merged == MergedGap(h)
           shrunk == IF NextHead(h) = first_seg THEN Contraction(merged) ELSE 0
<1>6. /\ merged \in Nat /\ merged = GapOf(q) + TotalSize(SizeOf(h)) + GapOf(h)
      /\ TailOf(q) + SEG_TAIL + merged = EndOf(h) + GapOf(h)
  BY <1>1, <1>4, AlignedSizes
<1>7. /\ shrunk \in Nat /\ shrunk <= merged /\ shrunk % PAGE_SIZE = 0 /\ Aligned(shrunk)
  BY <1>6, ContractionFacts, AlignedSizes, LayoutAssumption
<1>8. NextHead(h) = first_seg => TailOf(q) + SEG_TAIL + merged = end_addr
  BY <1>3, <1>6
<1>9. /\ Unlink(h, merged - shrunk) /\ brk' = brk - shrunk /\ end_addr' = end_addr - shrunk
      /\ start' = start /\ first_seg' = first_seg /\ call' = call /\ status' = status
  <2>1. RemoveChecks(h)
    BY <1>1, <1>2 DEF RemoveChecks
  <2>2. /\ TailOf(q) + SEG_TAIL + merged <= end_addr
        /\ shrunk > 0 => TailOf(q) + SEG_TAIL + merged = end_addr
    BY <1>1, <1>6, <1>8
  <2>3. QED
    BY <2>1, <2>2, <1>1, <1>5, <1>7 DEF RemoveInner, ASSERT
<1> HIDE DEF merged, shrunk
<1>10. PICK gap \in Nat : gap = merged - shrunk /\ gap + shrunk = merged
  <2>1. merged - shrunk \in Nat /\ (merged - shrunk) + shrunk = merged
    BY <1>6, <1>7
  <2>2. QED
    BY <2>1
<1>11. /\ ListLinked' /\ FirstIsLowest' /\ AddressOrder' /\ GapAccounting'
       /\ Live' = Live \ {h} /\ DOMAIN tail' = DOMAIN tail \ {TailOf(h)}
       /\ head' \in [Live' -> SegHead] /\ tail' \in [DOMAIN tail' -> SegTail]
       /\ \A k \in Live' : GapOf(k)' = IF k = q THEN gap ELSE GapOf(k)
       /\ \A k \in Live' : TailOf(k)' = TailOf(k)
  <2>1. CASE NextHead(h) = first_seg
    <3>1. /\ end_addr' = end_addr - shrunk /\ end_addr' \in Nat
          /\ TailOf(q) + SEG_TAIL + gap = end_addr'
      BY <2>1, <1>1, <1>2, <1>6, <1>7, <1>8, <1>9, <1>10, AlignedSizes
    <3>2. /\ Ordered /\ h \in Live /\ q \in Live /\ gap \in Nat
          /\ Unlink(h, gap) /\ q = PrevHead(h) /\ h # first_seg
          /\ start' = start /\ first_seg' = first_seg /\ end_addr' \in Nat
          /\ TailOf(q) + SEG_TAIL + gap
               = IF NextHead(h) = first_seg THEN end_addr' ELSE NextHead(h)
          /\ NextHead(h) # first_seg => end_addr' = end_addr
      BY <2>1, <3>1, <1>1, <1>2, <1>9, <1>10
    <3>3. QED
      BY ONLY <3>2, UnlinkInnerOrdered
  <2>2. CASE NextHead(h) # first_seg
    <3>1. end_addr' = end_addr /\ gap = merged
      BY <2>2, <1>2, <1>6, <1>9, <1>10 DEF shrunk
    <3>2. EndOf(h) + GapOf(h) = NextHead(h)
      <4>1. h # last /\ h < last
        BY <2>2, <1>1, <1>2, <1>3, FieldTypes DEF Ordered
      <4>2. QED
        BY <4>1, <1>2, Below
    <3>3. /\ Ordered /\ h \in Live /\ q \in Live /\ gap \in Nat
          /\ Unlink(h, gap) /\ q = PrevHead(h) /\ h # first_seg
          /\ start' = start /\ first_seg' = first_seg /\ end_addr' \in Nat
          /\ TailOf(q) + SEG_TAIL + gap
               = IF NextHead(h) = first_seg THEN end_addr' ELSE NextHead(h)
          /\ NextHead(h) # first_seg => end_addr' = end_addr
      BY <2>2, <3>1, <3>2, <1>1, <1>2, <1>6, <1>9, <1>10
    <3>4. QED
      BY ONLY <3>3, UnlinkInnerOrdered
  <2>3. QED
    BY <2>1, <2>2
<1>12. Aligned(gap)
  <2>1. /\ GapOf(q) \in Int /\ TotalSize(SizeOf(h)) \in Int /\ GapOf(h) \in Int
        /\ GapOf(q) + TotalSize(SizeOf(h)) \in Int /\ merged \in Int /\ shrunk \in Int
        /\ Aligned(GapOf(q)) /\ Aligned(GapOf(h)) /\ Aligned(shrunk)
    BY <1>1, <1>6, <1>7 DEF IInv, AllAligned, GapOf, TailOf
  <2>2. Aligned(TotalSize(SizeOf(h)))
    BY FieldTypes, TotalSizeFacts DEF IInv
  <2>3. Aligned(GapOf(q) + TotalSize(SizeOf(h)))
    BY ONLY <2>1, <2>2, AlignedSum
  <2>4. Aligned((GapOf(q) + TotalSize(SizeOf(h))) + GapOf(h))
    BY ONLY <2>1, <2>3, AlignedSum
  <2>5. Aligned(merged)
    BY <2>4, <1>6
  <2>6. Aligned(merged - shrunk)
    BY ONLY <2>1, <2>5, AlignedSum
  <2>7. QED
    BY <2>6, <1>10
<1>13. \A k \in Live' : Aligned(k) /\ Aligned(GapOf(k)')
  <2>1. \A k \in Live : Aligned(k) /\ Aligned(GapOf(k))
    BY FieldTypes DEF IInv, AllAligned, GapOf, TailOf
  <2>2. QED
    BY <2>1, <1>11, <1>12
<1>14. last_addr' \in DOMAIN tail' \cup {nullptr}
  <2>1. last_addr' = LastAddr(TailOf(h), TailOf(q)) /\ h # q
    BY <1>1, <1>4, <1>9 DEF Unlink, TailOf
  <2>2. TailOf(q) \in DOMAIN tail' \cup {nullptr} /\ DOMAIN tail \ {TailOf(h)} \subseteq DOMAIN tail'
    BY <2>1, <1>1, <1>11
  <2>3. QED
    BY <2>1, <2>2, <1>1, LastAddrMoves
<1>15. Base <= end_addr - shrunk
  <2>1. CASE NextHead(h) = first_seg
    BY <2>1, <1>1, <1>2, <1>6, <1>7, <1>8, AlignedSizes
  <2>2. CASE NextHead(h) # first_seg
    BY <2>2, <1>2, <1>1 DEF IInv, ArenaInPages, shrunk
  <2>3. QED
    BY <2>1, <2>2
<1>16. /\ Live' \subseteq Nat \ {0} /\ DOMAIN tail' \subseteq Nat \ {0} /\ first_seg' \in Nat
       /\ call' = NoCall
  BY <1>2, <1>9, <1>11 DEF IInv, TypeOK, nullptr
<1>17. QED
  BY <1>1, <1>7, <1>9, <1>11, <1>13, <1>14, <1>15, <1>16, EditInv

(* An arena emptied down to its list header.                               *)
LEMMA EmptyInv ==
  ASSUME IInv, start # nullptr, start' = start, status' = status, call' = NoCall,
         Live' = {}, DOMAIN tail' = {},
         head' \in [Live' -> SegHead], tail' \in [DOMAIN tail' -> SegTail],
         first_seg' = nullptr, end_addr' = Base, brk' = Base, last_addr' = nullptr
  PROVE  IInv'
<1>1. /\ Base \in Nat \ {0} /\ Aligned(Base) /\ Base' = Base /\ start \in Nat
  BY IInvFacts DEF Base
<1>2. TypeOK'
  BY <1>1 DEF IInv, TypeOK, Live, NoCall, nullptr
<1>3. Unstarted' /\ FirstIsLowest' /\ ListLinked' /\ AddressOrder' /\ GapAccounting'
  BY DEF Unstarted, FirstIsLowest, ListLinked, AddressOrder, GapAccounting
<1>4. ArenaBacked' /\ ArenaInPages'
  BY <1>1, LayoutAssumption DEF ArenaBacked, ArenaInPages
<1>5. AllAligned'
  BY <1>1, AlignedSizes DEF IInv, AllAligned, NoCall, nullptr
<1>6. LastAddrLive' /\ CallFits' /\ NoAbort'
  BY DEF IInv, LastAddrLive, CallFits, NoAbort
<1>7. QED
  BY <1>2, <1>3, <1>4, <1>5, <1>6 DEF IInv

(* The only segment leaves, and the arena is emptied.                      *)
LEMMA RemoveOnlyInv ==
  ASSUME IInv, Idle, NEW h \in Live, RemoveOnly(h)
  PROVE  IInv'
<1> DEFINE t == head[h].next_seg_tail
<1>1. PICK q \in Live :
        /\ q = PrevHead(h) /\ NextHead(q) = h /\ head[h].prev_seg_tail = TailOf(q)
        /\ TailOf(h) # TailOf(q) \/ h = q
        /\ Base <= h /\ h + SEG_HEAD < end_addr /\ start # nullptr
  BY RemoveContext
<1>2. Ordered /\ call = NoCall /\ h = first_seg /\ q = h
  BY <1>1, IInvFacts DEF RemoveOnly, Idle, TailOf
<1>3. Live = {h}
  BY <1>1, <1>2, LastSegment DEF Ordered, TypeOK
<1>4. DOMAIN tail = {t}
  BY <1>2, <1>3 DEF Ordered, ListLinked
<1>5. /\ head' = Drop(head, h) /\ tail' = Drop(tail, t)
      /\ first_seg' = nullptr /\ end_addr' = Base /\ brk' = Base
      /\ last_addr' = LastAddr(t, nullptr) /\ start' = start /\ call' = call
      /\ status' = status
  BY <1>1 DEF RemoveOnly, RemoveChecks, ASSERT
<1>6. Live' = {} /\ DOMAIN tail' = {} /\ head' \in [Live' -> SegHead]
      /\ tail' \in [DOMAIN tail' -> SegTail]
  BY <1>3, <1>4, <1>5 DEF Drop, Live
<1>7. last_addr' = nullptr
  BY <1>4, <1>5 DEF IInv, LastAddrLive, LastAddr
<1>8. QED
  BY <1>1, <1>2, <1>5, <1>6, <1>7, EmptyInv

(* The first of several segments leaves.                                   *)
LEMMA RemoveFirstInv ==
  ASSUME IInv, Idle, NEW h \in Live, RemoveFirst(h)
  PROVE  IInv'
<1>1. PICK q \in Live :
        /\ q = PrevHead(h) /\ NextHead(q) = h /\ head[h].prev_seg_tail = TailOf(q)
        /\ GapOf(q) \in Nat /\ TailOf(q) \in Nat /\ EndOf(q) = TailOf(q) + SEG_TAIL
        /\ EndOf(h) = h + TotalSize(SizeOf(h))
        /\ TailOf(h) \in DOMAIN tail /\ TailOf(q) \in DOMAIN tail
        /\ TailOf(h) # TailOf(q) \/ h = q
        /\ Base <= h /\ h + SEG_HEAD < end_addr /\ start # nullptr
  BY RemoveContext
<1>2. /\ Ordered /\ call = NoCall /\ h = first_seg /\ LastTail = TailOf(q) /\ q # h
      /\ end_addr \in Nat /\ Base \in Nat
  BY <1>1, IInvFacts DEF RemoveFirst, Idle, TailOf, LastTail
<1>3. \A k \in Live : h <= k /\ k \in Nat
  BY <1>2, LastSegment DEF Ordered, TypeOK
<1>4. EndOf(h) + GapOf(h) = NextHead(h)
  <2>1. h < q
    BY <1>2, <1>3
  <2>2. QED
    BY <2>1, <1>2, Below
<1>5. EndOf(q) + GapOf(q) = end_addr /\ tail[LastTail].free_following = GapOf(q)
  BY <1>1, <1>2, LastSegment DEF GapOf, TailOf
<1>6. /\ Unlink(h, GapOf(q)) /\ first_seg' = NextHead(h)
      /\ brk' = brk /\ start' = start /\ end_addr' = end_addr /\ call' = call
      /\ status' = status
  <2>1. RemoveChecks(h) /\ LastTailChecks
    <3>1. /\ h >= Base /\ h \in Nat /\ SEG_TAIL \in Nat
          /\ LastTail + SEG_TAIL + tail[LastTail].free_following = end_addr
      BY <1>1, <1>2, <1>3, <1>5, AlignedSizes
    <3>2. LastTail + SEG_TAIL <= end_addr
      BY <3>1, <1>1, <1>2, <1>5
    <3>3. QED
      BY <3>1, <3>2, <1>1 DEF RemoveChecks, LastTailChecks
  <2>2. NextHead(h) = h + TotalSize(head[h].seg_size)
                        + tail[head[h].next_seg_tail].free_following
    BY <1>1, <1>4 DEF SizeOf, GapOf
  <2>3. QED
    BY <2>1, <2>2, <1>5 DEF RemoveFirst, ASSERT
<1>7. /\ ListLinked' /\ FirstIsLowest' /\ AddressOrder' /\ GapAccounting'
      /\ Live' = Live \ {h} /\ DOMAIN tail' = DOMAIN tail \ {TailOf(h)}
      /\ head' \in [Live' -> SegHead] /\ tail' \in [DOMAIN tail' -> SegTail]
      /\ \A k \in Live' : GapOf(k)' = GapOf(k)
  <2>1. /\ Ordered /\ h \in Live /\ q \in Live /\ Unlink(h, GapOf(q)) /\ q = PrevHead(h)
        /\ h = first_seg /\ q # h /\ start' = start /\ first_seg' = NextHead(h)
        /\ end_addr' = end_addr
    BY <1>1, <1>2, <1>6
  <2>2. QED
    BY ONLY <2>1, UnlinkFirstOrdered
<1>8. \A k \in Live' : Aligned(k) /\ Aligned(GapOf(k)')
  <2>1. \A k \in Live : Aligned(k) /\ Aligned(GapOf(k))
    BY FieldTypes DEF IInv, AllAligned, GapOf, TailOf
  <2>2. QED
    BY <2>1, <1>7
<1>9. last_addr' \in DOMAIN tail' \cup {nullptr}
  <2>1. last_addr' = LastAddr(TailOf(h), TailOf(q))
    BY <1>1, <1>6 DEF Unlink, TailOf
  <2>2. TailOf(q) \in DOMAIN tail' \cup {nullptr} /\ DOMAIN tail \ {TailOf(h)} \subseteq DOMAIN tail'
    BY <1>1, <1>2, <1>7
  <2>3. QED
    BY <2>1, <2>2, <1>1, LastAddrMoves
<1>10. /\ Live' \subseteq Nat \ {0} /\ DOMAIN tail' \subseteq Nat \ {0}
       /\ first_seg' \in Nat /\ call' = NoCall /\ brk \in Nat
  BY <1>2, <1>6, <1>7, FieldTypes DEF IInv, TypeOK, nullptr
<1>11. /\ end_addr' = end_addr - 0 /\ brk' = brk - 0 /\ Base <= end_addr - 0
       /\ 0 % PAGE_SIZE = 0 /\ Aligned(0) /\ 0 \in Nat
  BY <1>1, <1>2, <1>6, <1>10, AlignedSizes, LayoutAssumption DEF IInv, ArenaInPages
<1>12. QED
  BY <1>1, <1>6, <1>7, <1>8, <1>9, <1>10, <1>11, EditInv

-----------------------------------------------------------------------------
(* shrink_segment and expand_segment.                                      *)

(* A tail that moves within its gap, to either side, keeps the invariant.  *)
LEMMA MoveTailInv ==
  ASSUME IInv, Idle, NEW h \in Live, NEW n \in Nat, MoveTail(h, n),
         TailAt(h, n) <= TailOf(h) + GapOf(h),
         UNCHANGED <<arena, call, status>>
  PROVE  IInv'
<1> DEFINE new == TailAt(h, n)
<1>1. /\ Ordered /\ Base \in Nat /\ end_addr \in Nat /\ brk \in Nat /\ start # nullptr
      /\ call' = NoCall /\ status' = status /\ start' = start /\ first_seg' = first_seg
      /\ end_addr' = end_addr /\ brk' = brk /\ first_seg \in Nat
  BY IInvFacts DEF arena, Idle
<1>2. /\ ListLinked' /\ FirstIsLowest' /\ AddressOrder' /\ GapAccounting'
      /\ Live' = Live
      /\ head' \in [Live' -> SegHead] /\ tail' \in [DOMAIN tail' -> SegTail]
      /\ DOMAIN tail' = (DOMAIN tail \ {TailOf(h)}) \cup {new}
      /\ new \in Nat \ {0}
      /\ \A k \in Live :
           GapOf(k)' = IF k = h THEN (GapOf(h) + TailOf(h)) - new ELSE GapOf(k)
  <2>1. /\ Ordered /\ h \in Live /\ n \in Nat /\ MoveTail(h, n)
        /\ TailAt(h, n) <= TailOf(h) + GapOf(h) /\ UNCHANGED arena
    BY <1>1
  <2>2. QED
    BY ONLY <2>1, MoveTailOrdered
<1>3. /\ \A k \in Live : Aligned(k) /\ Aligned(GapOf(k))
      /\ Aligned(TailOf(h)) /\ TailOf(h) \in Nat /\ GapOf(h) \in Nat /\ h \in Nat
      /\ TailOf(h) \in DOMAIN tail
  BY FieldTypes DEF IInv, AllAligned, GapOf, TailOf
<1>4. Aligned((GapOf(h) + TailOf(h)) - new)
  <2>1. /\ GapOf(h) \in Int /\ TailOf(h) \in Int /\ new \in Int
        /\ GapOf(h) + TailOf(h) \in Int
        /\ Aligned(GapOf(h)) /\ Aligned(TailOf(h))
    BY <1>2, <1>3
  <2>2. Aligned(new)
    BY <1>3, AlignedTail
  <2>3. Aligned(GapOf(h) + TailOf(h))
    BY ONLY <2>1, AlignedSum
  <2> HIDE DEF new
  <2>4. QED
    BY ONLY <2>1, <2>2, <2>3, AlignedSum
<1>5. \A k \in Live' : Aligned(k) /\ Aligned(GapOf(k)')
  BY <1>2, <1>3, <1>4
<1>6. last_addr' \in DOMAIN tail' \cup {nullptr}
  <2>1. last_addr' = LastAddr(TailOf(h), new)
    BY DEF MoveTail, TailOf
  <2>2. QED
    BY <2>1, <1>2, <1>3, LastAddrMoves
<1>7. Live' \subseteq Nat \ {0} /\ DOMAIN tail' \subseteq Nat \ {0}
  BY <1>2 DEF IInv, TypeOK, nullptr
<1>8. /\ end_addr' = end_addr - 0 /\ brk' = brk - 0 /\ Base <= end_addr - 0
      /\ 0 % PAGE_SIZE = 0 /\ Aligned(0) /\ 0 \in Nat /\ first_seg' \in Nat
  BY <1>1, AlignedSizes, LayoutAssumption DEF IInv, ArenaInPages
<1>9. QED
  BY <1>1, <1>2, <1>5, <1>6, <1>7, <1>8, EditInv

(* shrink_segment moves the tail down.                                     *)
LEMMA ShrinkSegmentInv ==
  ASSUME IInv, NEW h \in Live, NEW n \in Sizes, ShrinkSegment(h, n)
  PROVE  IInv'
<1>1. /\ h \in Nat /\ n \in Nat /\ SizeOf(h) \in Nat /\ n <= SizeOf(h)
      /\ TailOf(h) = TailAt(h, SizeOf(h)) /\ GapOf(h) \in Nat
  BY ClientAssumption, FieldTypes
     DEF IInv, ListLinked, ShrinkSegment, SizeOf, TailOf
<1>2. /\ round_up(n, ALIGNMENT) <= round_up(SizeOf(h), ALIGNMENT)
      /\ round_up(n, ALIGNMENT) \in Nat /\ round_up(SizeOf(h), ALIGNMENT) \in Nat
  BY <1>1, RoundUp, RoundUpMonotone
<1>3. TailAt(h, n) <= TailOf(h) + GapOf(h)
  BY <1>1, <1>2, AlignedSizes DEF TailAt
<1>4. QED
  BY <1>1, <1>3, MoveTailInv DEF ShrinkSegment

(* The rounded comparison of realloc is exact because gaps are aligned.    *)
LEMMA ExpandSegmentInv ==
  ASSUME IInv, NEW h \in Live, NEW n \in Sizes, ExpandSegment(h, n)
  PROVE  IInv'
<1>1. /\ h \in Nat /\ n \in Nat /\ SizeOf(h) \in Nat
      /\ TailOf(h) = TailAt(h, SizeOf(h)) /\ GapOf(h) \in Nat /\ Aligned(GapOf(h))
  BY ClientAssumption, FieldTypes
     DEF IInv, ListLinked, AllAligned, SizeOf, TailOf, GapOf
<1>2. /\ round_up(n, ALIGNMENT) <= GapOf(h) + round_up(SizeOf(h), ALIGNMENT)
      /\ round_up(n, ALIGNMENT) \in Nat /\ round_up(SizeOf(h), ALIGNMENT) \in Nat
  BY <1>1, RoundUp, RoundUpAligned DEF ExpandSegment, ExpandFits, GapOf, SizeOf
<1>3. TailAt(h, n) <= TailOf(h) + GapOf(h)
  BY <1>1, <1>2, AlignedSizes DEF TailAt
<1>4. QED
  BY <1>1, <1>3, MoveTailInv DEF ExpandSegment

-----------------------------------------------------------------------------
(* clear_alloc_storage and set_last_addr.                                  *)

(* clear_alloc_storage empties the arena.                                  *)
LEMMA ClearAllocStorageInv ==
  ASSUME IInv, ClearAllocStorage
  PROVE  IInv'
<1>1. /\ start # nullptr /\ start' = start /\ status' = status /\ call' = NoCall
      /\ head' = Empty /\ tail' = Empty /\ first_seg' = nullptr /\ end_addr' = Base
      /\ brk' = Base /\ last_addr' = nullptr
  BY DEF ClearAllocStorage, Idle
<1>2. Live' = {} /\ DOMAIN tail' = {} /\ head' \in [Live' -> SegHead]
      /\ tail' \in [DOMAIN tail' -> SegTail]
  BY <1>1 DEF Live, Empty
<1>3. QED
  BY <1>1, <1>2, EmptyInv

(* A step that changes nothing but last_addr.                              *)
LEMMA LastAddrInv ==
  ASSUME IInv, UNCHANGED <<arena, head, tail, call, status>>,
         last_addr' \in {nullptr, last_addr}
  PROVE  IInv'
<1>1. UNCHANGED <<arena, head, tail>> /\ call' = call /\ status' = status
  OBVIOUS
<1>2. ListInv'
  BY <1>1, ListUnchanged DEF IInv, ListInv
<1>3. TypeOK' /\ Unstarted' /\ LastAddrLive' /\ NoAbort' /\ AllAligned'
  BY <1>1 DEF IInv, TypeOK, Unstarted, LastAddrLive, NoAbort, AllAligned, arena, Live,
              nullptr
<1>4. CallFits'
  BY <1>1 DEF IInv, CallFits, FittingGaps, StartGap, Base, arena
<1>5. QED
  BY <1>2, <1>3, <1>4 DEF IInv, ListInv

-----------------------------------------------------------------------------
(* One step of the allocator, action by action.                            *)
LEMMA NextInv ==
  ASSUME IInv, [Next]_vars
  PROVE  IInv'
<1>1. CASE \E size \in Sizes : FindFreeSeg(size)
  <2>1. PICK size \in Sizes : FindFreeSeg(size)
    BY <1>1
  <2>2. QED
    BY <2>1, FindGapInv, CreateListInv, ExpandEmptyListInv, ExpandAfterLastInv,
       ExpandFailsInv DEF FindFreeSeg, ExpandArena, expand_list
<1>2. CASE AddEntry
  BY <1>2, AddEntryInv
<1>3. CASE \E h \in Live : RemoveSegment(h)
  <2>1. PICK h \in Live : RemoveSegment(h)
    BY <1>3
  <2>2. QED
    BY <2>1, RemoveInnerInv, RemoveOnlyInv, RemoveFirstInv DEF RemoveSegment
<1>4. CASE \E h \in Live, n \in Sizes : ShrinkSegment(h, n) \/ ExpandSegment(h, n)
  <2>1. PICK h \in Live, n \in Sizes : ShrinkSegment(h, n) \/ ExpandSegment(h, n)
    BY <1>4
  <2>2. QED
    BY <2>1, ShrinkSegmentInv, ExpandSegmentInv
<1>5. CASE ClearAllocStorage
  BY <1>5, ClearAllocStorageInv
<1>6. CASE ResetLastAddr
  BY <1>6, LastAddrInv DEF ResetLastAddr
<1>7. CASE Stopped \/ UNCHANGED vars
  BY <1>7, LastAddrInv DEF Stopped, vars, arena
<1>8. QED
  BY <1>1, <1>2, <1>3, <1>4, <1>5, <1>6, <1>7 DEF Next

(* IInv holds in every reachable state: whatever sequence of find_free_seg, *)
(* add_entry, remove_segment, shrink_segment, expand_segment and            *)
(* clear_alloc_storage calls is made, for any sizes and any layout.         *)
THEOREM Invariance == Spec => []IInv
<1>1. Init => IInv
  BY InitInv
<1>2. IInv /\ [Next]_vars => IInv'
  BY NextInv
<1>3. QED
  BY <1>1, <1>2, PTL DEF Spec

(* Type correctness of the arena, the structs and the pending call.        *)
THEOREM TypeCorrect == Spec => []TypeOK
<1>1. IInv => TypeOK
  BY DEF IInv
<1>2. QED
  BY <1>1, Invariance, PTL

(* The doubly linked list stays linked both ways: no insert, removal or     *)
(* moved tail of memory_mgmt.c leaves a stale pointer behind.               *)
THEOREM ListStaysLinked == Spec => []ListLinked
<1>1. IInv => ListLinked
  BY DEF IInv
<1>2. QED
  BY <1>1, Invariance, PTL

(* The list stays sorted by address: the circle leads to a lower header     *)
(* exactly once, which is what ends every search of strats.c.               *)
THEOREM ListStaysSorted == Spec => []AddressOrder
<1>1. IInv => AddressOrder
  BY DEF IInv
<1>2. QED
  BY <1>1, Invariance, PTL

(* first_seg is a live segment, and none lies below it: the gap from the    *)
(* list header to it is the gap before the first segment.                  *)
THEOREM FirstStaysLowest == Spec => []FirstIsLowest
<1>1. IInv => FirstIsLowest
  BY DEF IInv
<1>2. QED
  BY <1>1, Invariance, PTL

(* free_following of every tail is exact, up to the next header or the end *)
(* of the arena.                                                           *)
THEOREM GapsAreExact == Spec => []GapAccounting
<1>1. IInv => GapAccounting
  BY DEF IInv
<1>2. QED
  BY <1>1, Invariance, PTL

(* Because the list is sorted and its gaps are exact, no two segments share *)
(* a byte.                                                                  *)
LEMMA DisjointSegments == IInv => SegmentsDisjoint
<1> SUFFICES ASSUME IInv PROVE SegmentsDisjoint
  OBVIOUS
<1>1. Ordered /\ Base \in Nat /\ end_addr \in Nat /\ first_seg \in Nat
  BY IInvFacts
<1>2. ASSUME NEW h \in Live
      PROVE  /\ Base <= h /\ EndOf(h) <= end_addr
             /\ \A k \in Live : k > h => EndOf(h) <= k
  <2>1. \A k \in Live : k \in Nat /\ EndOf(k) \in Nat /\ GapOf(k) \in Nat
    BY <1>1, FieldTypes DEF Ordered
  <2>2. /\ \A k \in Live : h < k => EndOf(h) + GapOf(h) <= k
        /\ EndOf(h) + GapOf(h) <= end_addr /\ Base <= first_seg /\ first_seg <= h
    BY <1>1, Geometry
  <2>3. QED
    BY <2>1, <2>2, <1>1
<1>3. QED
  BY <1>2 DEF SegmentsDisjoint, EndOf

(* No two segments overlap and none leaves the arena: memory handed to one  *)
(* client of malloc is never handed to another.                             *)
THEOREM SegmentsNeverOverlap == Spec => []SegmentsDisjoint
BY DisjointSegments, Invariance, PTL

(* last_addr, which next_fit dereferences, always names a live tail or is   *)
(* nullptr.                                                                 *)
THEOREM LastAddrStaysLive == Spec => []LastAddrLive
<1>1. IInv => LastAddrLive
  BY DEF IInv
<1>2. QED
  BY <1>1, Invariance, PTL

(* The arena never reaches above the program break.                         *)
THEOREM ArenaStaysBacked == Spec => []ArenaBacked
<1>1. IInv => ArenaBacked
  BY DEF IInv
<1>2. QED
  BY <1>1, Invariance, PTL

(* expand_list and remove_segment move the end of the arena by whole pages. *)
THEOREM ArenaStaysInPages == Spec => []ArenaInPages
<1>1. IInv => ArenaInPages
  BY DEF IInv
<1>2. QED
  BY <1>1, Invariance, PTL

(* Every header, tail and gap of the list is a multiple of ALIGNMENT.       *)
THEOREM EverythingAligned == Spec => []AllAligned
<1>1. IInv => AllAligned
  BY DEF IInv
<1>2. QED
  BY <1>1, Invariance, PTL

(* The place find_free_seg picks still fits when add_entry is called.       *)
THEOREM PlaceStillFits == Spec => []CallFits
<1>1. IInv => CallFits
  BY DEF IInv
<1>2. QED
  BY <1>1, Invariance, PTL

(* No ASSERT of memory_mgmt.c or linked_list_mgmt.c can fail.               *)
THEOREM NeverAborts == Spec => []NoAbort
<1>1. IInv => NoAbort
  BY DEF IInv
<1>2. QED
  BY <1>1, Invariance, PTL

(* Once the last segment is gone the arena and the break are back at the    *)
(* list header.                                                             *)
LEMMA EmptyArenaStep ==
  ASSUME IInv, EmptyArenaReturned, [Next]_vars
  PROVE  EmptyArenaReturned'
<1> SUFFICES ASSUME Live' = {}, Idle', start' # nullptr
             PROVE  end_addr' = Base' /\ brk' = Base'
  BY DEF EmptyArenaReturned
<1>1. ~ \E size \in Sizes : FindFreeSeg(size)
  <2> SUFFICES ASSUME NEW size \in Sizes, FindFreeSeg(size) PROVE FALSE
    OBVIOUS
  <2>1. size # 0
    BY ClientAssumption
  <2>2. \A addr : ~ Found(addr, size)
    BY <2>1 DEF Found, Idle, NoCall
  <2>3. QED
    BY <2>2 DEF FindFreeSeg, FindGap, CreateList, ExpandArena, expand_list,
               ExpandEmptyList, ExpandAfterLast, ExpandFails, ASSERT, Idle
<1>2. ~ AddEntry
  <2> SUFFICES ASSUME AddEntry PROVE FALSE
    OBVIOUS
  <2>1. AddToEmptyList \/ AddBeforeFirst \/ AddAfterSegment
    BY DEF AddEntry, ASSERT, Idle
  <2>2. call.new_a \in Live'
    BY <2>1 DEF AddToEmptyList, AddBeforeFirst, AddAfterSegment, Insert, Put, Live
  <2>3. QED
    BY <2>2
<1>3. CASE \E h \in Live : RemoveSegment(h)
  <2>1. PICK h \in Live : RemoveSegment(h)
    BY <1>3
  <2>2. first_seg \in Live
    BY <2>1 DEF IInv, FirstIsLowest
  <2>3. CASE RemoveInner(h)
    <3>1. Live' = Live \ {h}
      BY <2>3 DEF RemoveInner, ASSERT, Idle, Unlink, Drop, Live
    <3>2. QED
      BY <3>1, <2>2, <2>3 DEF RemoveInner
  <2>4. CASE RemoveOnly(h)
    BY <2>4 DEF RemoveOnly, ASSERT, Idle, Base
  <2>5. CASE RemoveFirst(h)
    <3>1. Live' = Live \ {h}
      BY <2>5 DEF RemoveFirst, ASSERT, Idle, Unlink, Drop, Live
    <3>2. NextHead(h) \in Live /\ NextHead(h) # h
      BY <2>1, <2>5 DEF IInv, ListLinked, RemoveFirst, LastTail, NextHead
    <3>3. QED
      BY <3>1, <3>2
  <2>6. QED
    BY <2>1, <2>3, <2>4, <2>5 DEF RemoveSegment
<1>4. ~ \E h \in Live, n \in Sizes : ShrinkSegment(h, n) \/ ExpandSegment(h, n)
  BY DEF ShrinkSegment, ExpandSegment, MoveTail, Live
<1>5. CASE ClearAllocStorage
  BY <1>5 DEF ClearAllocStorage, Base
<1>6. CASE ResetLastAddr \/ Stopped \/ UNCHANGED vars
  BY <1>6 DEF EmptyArenaReturned, ResetLastAddr, Stopped, vars, arena, Live, Idle, Base
<1>7. QED
  BY <1>1, <1>2, <1>3, <1>4, <1>5, <1>6 DEF Next

(* Freeing everything gives the whole arena back to the kernel.             *)
THEOREM EmptyArenaGoesBack == Spec => []EmptyArenaReturned
<1>1. Init => EmptyArenaReturned
  BY DEF Init, EmptyArenaReturned
<1>2. IInv /\ EmptyArenaReturned /\ [Next]_vars => EmptyArenaReturned'
  BY EmptyArenaStep
<1>3. QED
  BY <1>1, <1>2, Invariance, PTL DEF Spec
=============================================================================
