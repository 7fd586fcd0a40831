---------------------------- MODULE LibraryProofs ----------------------------
(***************************************************************************)
(* Proofs about the libraries of util and util-src: util/queue.lua for     *)
(* every capacity, every item type and both settings of allow_wrapping,    *)
(* util-src/ringbuffer.c for every size, the item lists of                 *)
(* util/datamanager.lua for any items and any length, and util/smqueue.lua *)
(* for every queue capacity, any number of pushes and every sequence of    *)
(* acknowledgements.                                                       *)
(***************************************************************************)
EXTENDS RingBuffer, ByteRing, ListStore, SmQueue, FiniteSetTheorems, TLAPS

(* x, a slot number or a slot number plus an offset below size, folded     *)
(* back into the table.                                                    *)
Fold(x) == IF x > size THEN x - size ELSE x

(* The modulo arithmetic of the code, as the case distinction it computes. *)
LEMMA NextSlotCases ==
  ASSUME NEW p \in Slot
  PROVE  NextSlot(p) = Fold(p + 1) /\ NextSlot(p) \in Slot
<1>1. CASE p = size
  BY <1>1, RingSizeAssumption DEF Slot, NextSlot, Fold
<1>2. CASE p # size
  <2>1. p \in 1..(size - 1) /\ size \in Nat
    BY <1>2, RingSizeAssumption DEF Slot
  <2>2. p % size = p
    BY <2>1
  <2> QED BY <2>1, <2>2, <1>2 DEF Slot, NextSlot, Fold
<1> QED BY <1>1, <1>2

(* The iterator's wrap-around never leaves the table. *)
LEMMA FoldMod ==
  ASSUME NEW tl \in Slot, NEW pos \in 0..(size - 1)
  PROVE  /\ (IF tl + pos > size THEN (tl + pos) % size ELSE tl + pos) = Fold(tl + pos)
         /\ Fold(tl + pos) \in Slot
<1>1. CASE tl + pos > size
  <2>1. tl + pos - size \in 1..(size - 1) /\ size \in Nat \ {0}
    BY <1>1, RingSizeAssumption DEF Slot
  <2>2. (tl + pos) % size = tl + pos - size
    BY <2>1, tl \in Nat, pos \in Nat, RingSizeAssumption DEF Slot
  <2> QED BY <1>1, <2>1, <2>2 DEF Fold, Slot
<1>2. CASE ~(tl + pos > size)
  BY <1>2, RingSizeAssumption DEF Fold, Slot
<1> QED BY <1>1, <1>2

(* Two different offsets from the read slot are two different slots. *)
LEMMA FoldInjective ==
  ASSUME NEW tl \in Slot, NEW i \in 0..(size - 1), NEW j \in 0..(size - 1),
         Fold(tl + i) = Fold(tl + j)
  PROVE  i = j
BY RingSizeAssumption DEF Fold, Slot

(* Moving the read slot one on shifts every offset by one. *)
LEMMA FoldShift ==
  ASSUME NEW tl \in Slot, NEW i \in 0..(size - 1), i + 1 <= size
  PROVE  Fold(Fold(tl + 1) + i) = IF i + 1 = size THEN tl ELSE Fold(tl + (i + 1))
BY RingSizeAssumption DEF Fold, Slot

(* What the iterator sees, with the modulo arithmetic resolved. *)
LEMMA StoredFold ==
  ASSUME NEW tl \in Slot, NEW n \in 0..size, NEW i \in 1..n
  PROVE  /\ (IF tl + (i - 1) > size THEN (tl + (i - 1)) % size ELSE tl + (i - 1))
              = Fold(tl + (i - 1))
         /\ Fold(tl + (i - 1)) \in Slot
<1>1. i - 1 \in 0..(size - 1)
  BY RingSizeAssumption
<1> QED BY <1>1, FoldMod

(* The four ways in which a call changes the abstract queue, each stated   *)
(* element by element.                                                     *)
LEMMA IsAppend ==
  ASSUME NEW s \in Seq(Item), NEW r \in Seq(Item), NEW v \in Item,
         Len(r) = Len(s) + 1, \A i \in 1..Len(s) : r[i] = s[i], r[Len(s) + 1] = v
  PROVE  r = Append(s, v)
OBVIOUS

(* A sequence that is another one from its second element on (pop).        *)
LEMMA IsTail ==
  ASSUME NEW s \in Seq(Item), NEW r \in Seq(Item), s # <<>>,
         Len(r) = Len(s) - 1, \A i \in 1..Len(r) : r[i] = s[i + 1]
  PROVE  r = Tail(s)
OBVIOUS

(* The same with an item added at the end (push when full, wrapping).      *)
LEMMA IsShift ==
  ASSUME NEW s \in Seq(Item), NEW r \in Seq(Item), NEW v \in Item, s # <<>>,
         Len(r) = Len(s), \A i \in 1..(Len(r) - 1) : r[i] = s[i + 1], r[Len(r)] = v
  PROVE  r = Append(Tail(s), v)
OBVIOUS

(* A sequence that differs from another one in its first element.          *)
LEMMA IsReplace ==
  ASSUME NEW s \in Seq(Item), NEW r \in Seq(Item), NEW v \in Item, s # <<>>,
         Len(r) = Len(s), r[1] = v, \A i \in 2..Len(r) : r[i] = s[i]
  PROVE  r = [s EXCEPT ![1] = v]
OBVIOUS

(* The invariant gives the iterator's view as a sequence of items. *)
LEMMA StoredSeq ==
  ASSUME RingInv
  PROVE  /\ stored \in Seq(Item) /\ Len(stored) = items
         /\ \A i \in 1..items : stored[i] = t[Fold(tail + (i - 1))]
         /\ \A i \in 1..items : Fold(tail + (i - 1)) \in Slot
         /\ head = Fold(tail + items)
<1> USE RingSizeAssumption
<1>1. tail \in Slot /\ items \in 0..size /\ items \in Nat
  BY DEF RingInv, RingTypeOK
<1>2. \A i \in 1..items : /\ read_pos(i - 1) = Fold(tail + (i - 1))
                          /\ Fold(tail + (i - 1)) \in Slot
  BY <1>1, StoredFold DEF read_pos
<1>3. \A i \in 1..items : stored[i] \in Item
  BY DEF RingInv, StoredAreItems, stored
<1>4. head = Fold(tail + items)
  <2>1. HeadFollowsTail
    BY DEF RingInv
  <2> QED BY <1>1, <2>1 DEF HeadFollowsTail, Fold, Slot
<1>5. \A i \in 1..items : stored[i] = t[Fold(tail + (i - 1))]
  BY <1>2 DEF stored
<1>6. stored \in Seq(Item) /\ Len(stored) = items
  BY <1>1, <1>3 DEF stored
<1> QED BY <1>2, <1>4, <1>5, <1>6

(* The same facts read backwards, for the state after a call. *)
LEMMA StoredSeqNext ==
  ASSUME RingTypeOK', HeadFollowsTail',
         \A i \in 1..items' : t'[Fold(tail' + (i - 1))] \in Item
  PROVE  /\ RingInv'
         /\ stored' \in Seq(Item) /\ Len(stored') = items'
         /\ \A i \in 1..items' : stored'[i] = t'[Fold(tail' + (i - 1))]
<1> USE RingSizeAssumption
<1>1. tail' \in Slot /\ items' \in 0..size /\ items' \in Nat
  BY DEF RingTypeOK
<1>2. \A i \in 1..items' : read_pos(i - 1)' = Fold(tail' + (i - 1))
  BY <1>1, StoredFold DEF read_pos
<1>3. \A i \in 1..items' : stored'[i] = t'[Fold(tail' + (i - 1))]
  BY <1>2 DEF stored
<1>4. stored' \in Seq(Item) /\ Len(stored') = items'
  BY <1>1, <1>3 DEF stored
<1>5. StoredAreItems'
  BY <1>2 DEF StoredAreItems
<1> QED BY <1>3, <1>4, <1>5 DEF RingInv

-----------------------------------------------------------------------------
(* push() keeps the invariant and appends to what the iterator yields,     *)
(* dropping the oldest item exactly when the buffer is full and wraps.     *)
LEMMA PushStep ==
  ASSUME RingInv, NEW v \in Item, push(v)
  PROVE  RingInv' /\ Fifo!FifoPush(v)
<1> USE RingSizeAssumption
<1>0. /\ t \in [Slot -> Cell] /\ head \in Slot /\ tail \in Slot
      /\ items \in 0..size /\ size \in Nat /\ items \in Nat /\ tail \in Nat
  <2>1. RingTypeOK
    BY DEF RingInv
  <2> QED BY <2>1 DEF RingTypeOK, Slot
<1>1. /\ stored \in Seq(Item) /\ Len(stored) = items
      /\ \A i \in 1..items : stored[i] = t[Fold(tail + (i - 1))]
      /\ \A i \in 1..items : Fold(tail + (i - 1)) \in Slot
      /\ head = Fold(tail + items)
  BY StoredSeq
<1>2. NextSlot(head) = Fold(head + 1) /\ NextSlot(head) \in Slot
  BY <1>0, NextSlotCases
<1>3. NextSlot(tail) = Fold(tail + 1) /\ NextSlot(tail) \in Slot
  BY <1>0, NextSlotCases
<1>4. CASE items < size
  <2>1. /\ t' = [t EXCEPT ![head] = v] /\ items' = items + 1
        /\ head' = Fold(head + 1) /\ ret' = TRUE /\ tail' = tail
    BY <1>0, <1>2, <1>4 DEF push
  <2>2. RingTypeOK'
    BY <1>0, <1>2, <1>4, <2>1 DEF RingTypeOK, Cell
  <2>3. HeadFollowsTail'
    BY <1>0, <1>1, <1>4, <2>1 DEF HeadFollowsTail, Fold, Slot
  <2>4. ASSUME NEW i \in 1..items
        PROVE  t'[Fold(tail + (i - 1))] = stored[i]
    <3>1. i - 1 \in 0..(size - 1) /\ items \in 0..(size - 1) /\ i - 1 # items
      BY <1>0, <1>4
    <3>2. Fold(tail + (i - 1)) # Fold(tail + items)
      BY <3>1, <1>0, FoldInjective
    <3> QED BY <3>2, <2>1, <1>0, <1>1
  <2>5. t'[Fold(tail + items)] = v
    BY <1>0, <1>1, <2>1
  <2>6. \A i \in 1..items' : t'[Fold(tail' + (i - 1))] = IF i = items + 1 THEN v ELSE stored[i]
    <3>1. ASSUME NEW i \in 1..items', i # items + 1
          PROVE  i \in 1..items
      BY <3>1, <2>1, <1>0
    <3>2. (items + 1) - 1 = items
      BY <1>0
    <3> QED BY <3>1, <3>2, <2>1, <2>4, <2>5
  <2>7. \A i \in 1..items' : t'[Fold(tail' + (i - 1))] \in Item
    <3>1. \A i \in 1..items' : i # items + 1 => stored[i] \in Item
      BY <1>0, <1>1, <2>1
    <3> QED BY <2>6, <3>1
  <2>8. /\ RingInv' /\ stored' \in Seq(Item) /\ Len(stored') = items'
        /\ \A i \in 1..items' : stored'[i] = t'[Fold(tail' + (i - 1))]
    BY <2>2, <2>3, <2>7, StoredSeqNext
  <2>9. stored' = Append(stored, v)
    <3>1. Len(stored') = Len(stored) + 1
      BY <2>8, <2>1, <1>1
    <3>2. ASSUME NEW i \in 1..Len(stored)
          PROVE  stored'[i] = stored[i]
      <4>1. i \in 1..items' /\ i # items + 1
        BY <2>1, <1>1, <1>0
      <4> QED BY <4>1, <2>8, <2>6
    <3>3. stored'[Len(stored) + 1] = v
      <4>1. items + 1 \in 1..items' /\ Len(stored) = items BY <1>0, <1>1, <2>1
      <4>2. stored'[items + 1] = t'[Fold(tail' + ((items + 1) - 1))] BY ONLY <2>8, <4>1
      <4>3. t'[Fold(tail' + ((items + 1) - 1))] = v BY ONLY <2>6, <4>1
      <4> QED BY ONLY <4>1, <4>2, <4>3
    <3> QED BY <3>1, <3>2, <3>3, <2>8, <1>1, IsAppend
  <2>10. Len(stored) < size /\ ret' = TRUE BY <1>1, <1>4, <2>1
  <2>11. Fifo!FifoPush(v) BY ONLY <2>9, <2>10 DEF Fifo!FifoPush
  <2> QED BY ONLY <2>8, <2>11
<1>5. CASE items = size /\ allow_wrapping
  <2>1. /\ t' = [t EXCEPT ![head] = v] /\ items' = items
        /\ head' = Fold(head + 1) /\ ret' = TRUE /\ tail' = Fold(tail + 1)
    BY <1>0, <1>2, <1>3, <1>5 DEF push
  <2>2. RingTypeOK'
    BY <1>0, <1>2, <1>3, <1>5, <2>1 DEF RingTypeOK, Cell
  <2>3. HeadFollowsTail' /\ head = tail
    BY <1>0, <1>1, <1>5, <2>1 DEF HeadFollowsTail, Fold, Slot
  <2>4. ASSUME NEW i \in 1..items'
        PROVE  t'[Fold(tail' + (i - 1))] = IF i = items THEN v ELSE stored[i + 1]
    <3>1. Fold(tail' + (i - 1)) = IF i = size THEN tail ELSE Fold(tail + i)
      <4>1. i - 1 \in 0..(size - 1) /\ (i - 1) + 1 = i /\ i <= size
        BY <2>1, <1>0, <1>5
      <4> QED BY <4>1, <1>0, <2>1, FoldShift
    <3>2. CASE i = items
      BY <3>1, <3>2, <1>0, <1>5, <2>1, <2>3
    <3>3. CASE i # items
      <4>1. i + 1 \in 1..items /\ (i + 1) - 1 = i /\ i \in 0..(size - 1) /\ 0 \in 0..(size - 1) /\ i # 0
        BY <3>3, <2>1, <1>0, <1>5
      <4>2. Fold(tail + i) # Fold(tail + 0)
        BY <4>1, <1>0, FoldInjective
      <4>3. Fold(tail + 0) = tail
        BY <1>0 DEF Fold, Slot
      <4>4. stored[i + 1] = t[Fold(tail + i)] /\ Fold(tail + i) \in Slot
        BY <4>1, <1>1
      <4> QED BY <3>1, <3>3, <4>2, <4>3, <4>4, <2>1, <2>3, <1>0, <1>5
    <3> QED BY <3>2, <3>3
  <2>5. \A i \in 1..items' : t'[Fold(tail' + (i - 1))] \in Item
    <3>1. \A i \in 1..items' : i # items => stored[i + 1] \in Item
      BY <1>0, <1>1, <2>1
    <3> QED BY <2>4, <3>1
  <2>6. /\ RingInv' /\ stored' \in Seq(Item) /\ Len(stored') = items'
        /\ \A i \in 1..items' : stored'[i] = t'[Fold(tail' + (i - 1))]
    BY <2>2, <2>3, <2>5, StoredSeqNext
  <2>7. stored' = Append(Tail(stored), v)
    <3>1. Len(stored') = Len(stored) /\ stored # <<>>
      BY <2>6, <2>1, <1>1, <1>0, <1>5
    <3>2. ASSUME NEW i \in 1..(Len(stored') - 1)
          PROVE  stored'[i] = stored[i + 1]
      <4>1. i \in 1..items' /\ i # items
        BY <2>6, <2>1, <1>0
      <4> QED BY <4>1, <2>6, <2>4
    <3>3. stored'[Len(stored')] = v
      BY <2>6, <2>4, <2>1, <1>0, <1>5
    <3> QED BY <3>1, <3>2, <3>3, <2>6, <1>1, IsShift
  <2>8. Len(stored) = size /\ allow_wrapping /\ ret' = TRUE BY <1>1, <1>5, <2>1
  <2>9. Fifo!FifoPush(v) BY ONLY <2>7, <2>8 DEF Fifo!FifoPush
  <2> QED BY ONLY <2>6, <2>9
<1>6. CASE items = size /\ ~allow_wrapping
  <2>1. UNCHANGED <<t, head, tail, items>> /\ ret' = Nil
    BY <1>0, <1>6 DEF push
  <2>2. RingInv' /\ stored' = stored
    BY <2>1, <1>0 DEF RingInv, RingTypeOK, HeadFollowsTail, StoredAreItems, stored, read_pos
  <2> QED BY <2>1, <2>2, <1>1, <1>6 DEF Fifo!FifoPush
<1> QED BY <1>0, <1>4, <1>5, <1>6

(* pop() keeps the invariant, returns the oldest item and removes it.      *)
LEMMA PopStep ==
  ASSUME RingInv, pop
  PROVE  RingInv' /\ Fifo!FifoPop
<1> USE RingSizeAssumption
<1>0. /\ t \in [Slot -> Cell] /\ head \in Slot /\ tail \in Slot
      /\ items \in 0..size /\ size \in Nat /\ items \in Nat /\ tail \in Nat
  <2>1. RingTypeOK
    BY DEF RingInv
  <2> QED BY <2>1 DEF RingTypeOK, Slot
<1>1. /\ stored \in Seq(Item) /\ Len(stored) = items
      /\ \A i \in 1..items : stored[i] = t[Fold(tail + (i - 1))]
      /\ \A i \in 1..items : Fold(tail + (i - 1)) \in Slot
      /\ head = Fold(tail + items)
  BY StoredSeq
<1>2. NextSlot(tail) = Fold(tail + 1) /\ NextSlot(tail) \in Slot
  BY <1>0, NextSlotCases
<1>3. CASE items = 0
  <2>1. UNCHANGED <<t, head, tail, items>> /\ ret' = Nil
    BY <1>0, <1>3 DEF pop
  <2>2. RingInv' /\ stored' = stored
    BY <2>1, <1>0 DEF RingInv, RingTypeOK, HeadFollowsTail, StoredAreItems, stored, read_pos
  <2> QED BY <2>1, <2>2, <1>1, <1>3 DEF Fifo!FifoPop
<1>4. CASE items # 0
  <2>1. /\ t' = [t EXCEPT ![tail] = 0] /\ items' = items - 1
        /\ tail' = Fold(tail + 1) /\ head' = head /\ ret' = t[tail]
    BY <1>0, <1>2, <1>4 DEF pop
  <2>2. Fold(tail + (1 - 1)) = tail /\ 1 \in 1..items
    BY <1>0, <1>4 DEF Fold, Slot
  <2>3. ret' = Head(stored) /\ ret' \in Item
    BY <2>1, <2>2, <1>0, <1>1, <1>4
  <2>4. RingTypeOK'
    <3>1. t' \in [Slot -> Cell] /\ head' \in Slot /\ tail' \in Slot /\ items' \in 0..size
      BY <1>0, <1>2, <1>4, <2>1 DEF Cell
    <3>2. ret' \in Item \cup {Nil, TRUE}
      BY <2>3, Zenon
    <3> QED BY <3>1, <3>2, Zenon DEF RingTypeOK
  <2>5. HeadFollowsTail'
    BY <1>0, <1>1, <1>4, <2>1 DEF HeadFollowsTail, Fold, Slot
  <2>6. ASSUME NEW i \in 1..items'
        PROVE  t'[Fold(tail' + (i - 1))] = stored[i + 1] /\ stored[i + 1] \in Item
    <3>1. /\ i - 1 \in 0..(size - 1) /\ (i - 1) + 1 = i /\ i < size /\ i \in 0..(size - 1)
          /\ i + 1 \in 1..items /\ (i + 1) - 1 = i /\ 0 \in 0..(size - 1) /\ i # 0
      BY <2>1, <1>0, <1>4
    <3>2. Fold(tail' + (i - 1)) = Fold(tail + i)
      BY <3>1, <1>0, <2>1, FoldShift
    <3>3. Fold(tail + i) # Fold(tail + 0) /\ Fold(tail + 0) = tail
      <4>1. Fold(tail + i) # Fold(tail + 0)
        BY <3>1, <1>0, FoldInjective
      <4> QED BY <4>1, <1>0 DEF Fold, Slot
    <3>4. stored[i + 1] = t[Fold(tail + i)] /\ Fold(tail + i) \in Slot /\ stored[i + 1] \in Item
      BY <3>1, <1>1
    <3> QED BY <3>2, <3>3, <3>4, <2>1, <1>0
  <2>7. /\ RingInv' /\ stored' \in Seq(Item) /\ Len(stored') = items'
        /\ \A i \in 1..items' : stored'[i] = t'[Fold(tail' + (i - 1))]
    BY <2>4, <2>5, <2>6, StoredSeqNext
  <2>8. stored' = Tail(stored) /\ stored # <<>>
    <3>1. Len(stored') = Len(stored) - 1 /\ stored # <<>>
      BY <2>7, <2>1, <1>1, <1>0, <1>4
    <3>2. \A i \in 1..Len(stored') : stored'[i] = stored[i + 1]
      BY <2>7, <2>6
    <3> QED BY <3>1, <3>2, <2>7, <1>1, IsTail
  <2> QED BY <2>3, <2>7, <2>8 DEF Fifo!FifoPop
<1> QED BY <1>3, <1>4

(* peek() changes nothing and returns the oldest item. *)
LEMMA PeekStep ==
  ASSUME RingInv, peek
  PROVE  RingInv' /\ Fifo!FifoPeek
<1> USE RingSizeAssumption
<1>0. /\ t \in [Slot -> Cell] /\ tail \in Slot /\ items \in 0..size /\ size \in Nat
      /\ items \in Nat /\ tail \in Nat
  <2>1. RingTypeOK
    BY DEF RingInv
  <2> QED BY <2>1 DEF RingTypeOK, Slot
<1>1. /\ stored \in Seq(Item) /\ Len(stored) = items
      /\ \A i \in 1..items : stored[i] = t[Fold(tail + (i - 1))]
  BY StoredSeq
<1>2. UNCHANGED <<t, head, tail, items>> /\ ret' = IF items = 0 THEN Nil ELSE t[tail]
  BY DEF peek
<1>3. items # 0 => t[tail] = Head(stored) /\ t[tail] \in Item
  <2>1. Fold(tail + (1 - 1)) = tail
    BY <1>0 DEF Fold, Slot
  <2> QED BY <2>1, <1>0, <1>1
<1>4. stored = <<>> <=> items = 0
  BY <1>0, <1>1
<1>5. RingInv' /\ stored' = stored
  BY <1>0, <1>2, <1>3 DEF RingInv, RingTypeOK, HeadFollowsTail, StoredAreItems, stored, read_pos
<1> QED BY <1>2, <1>3, <1>4, <1>5 DEF Fifo!FifoPeek

(* replace() changes the oldest item only. *)
LEMMA ReplaceStep ==
  ASSUME RingInv, NEW v \in Item, replace(v)
  PROVE  RingInv' /\ Fifo!FifoReplace(v)
<1> USE RingSizeAssumption
<1>0. /\ t \in [Slot -> Cell] /\ head \in Slot /\ tail \in Slot
      /\ items \in 0..size /\ size \in Nat /\ items \in Nat /\ tail \in Nat
  <2>1. RingTypeOK
    BY DEF RingInv
  <2> QED BY <2>1 DEF RingTypeOK, Slot
<1>1. /\ stored \in Seq(Item) /\ Len(stored) = items
      /\ \A i \in 1..items : stored[i] = t[Fold(tail + (i - 1))]
      /\ \A i \in 1..items : Fold(tail + (i - 1)) \in Slot
      /\ head = Fold(tail + items)
  BY StoredSeq
<1>2. CASE items = 0
  <2>1. push(v) /\ stored = <<>>
    BY <1>0, <1>1, <1>2 DEF replace
  <2> QED BY <2>1, PushStep DEF Fifo!FifoReplace
<1>3. CASE items # 0
  <2>1. t' = [t EXCEPT ![tail] = v] /\ ret' = TRUE /\ UNCHANGED <<head, tail, items>>
    BY <1>3 DEF replace
  <2>2. RingTypeOK' /\ HeadFollowsTail'
    <3>1. RingTypeOK'
      BY <1>0, <2>1 DEF RingTypeOK, Cell
    <3>2. HeadFollowsTail'
      BY <1>0, <1>1, <2>1 DEF HeadFollowsTail, Fold, Slot
    <3> QED BY <3>1, <3>2
  <2>3. ASSUME NEW i \in 1..items'
        PROVE  t'[Fold(tail' + (i - 1))] = IF i = 1 THEN v ELSE stored[i]
    <3>1. i - 1 \in 0..(size - 1) /\ 0 \in 0..(size - 1) /\ i \in 1..items
      BY <1>0, <2>1
    <3>2. Fold(tail + 0) = tail /\ Fold(tail + (1 - 1)) = tail
      BY <1>0 DEF Fold, Slot
    <3>3. i # 1 => Fold(tail + (i - 1)) # Fold(tail + 0)
      <4>1. i # 1 => i - 1 # 0
        BY <3>1
      <4> QED BY <4>1, <3>1, <1>0, FoldInjective
    <3> QED BY <3>1, <3>2, <3>3, <1>0, <1>1, <2>1
  <2>4. \A i \in 1..items' : t'[Fold(tail' + (i - 1))] \in Item
    <3>1. \A i \in 1..items' : stored[i] \in Item
      BY <1>0, <1>1, <2>1
    <3> QED BY <2>3, <3>1
  <2>5. /\ RingInv' /\ stored' \in Seq(Item) /\ Len(stored') = items'
        /\ \A i \in 1..items' : stored'[i] = t'[Fold(tail' + (i - 1))]
    BY <2>2, <2>4, StoredSeqNext
  <2>6. stored' = [stored EXCEPT ![1] = v] /\ stored # <<>>
    <3>1. Len(stored') = Len(stored) /\ stored # <<>> /\ 1 \in 1..items'
      BY <2>5, <2>1, <1>1, <1>0, <1>3
    <3>2. stored'[1] = v
      BY <3>1, <2>5, <2>3
    <3>3. \A i \in 2..Len(stored') : stored'[i] = stored[i]
      BY <2>5, <2>3, <2>1, <1>0
    <3> QED BY <3>1, <3>2, <3>3, <2>5, <1>1, IsReplace
  <2> QED BY <2>1, <2>5, <2>6 DEF Fifo!FifoReplace
<1> QED BY <1>2, <1>3

-----------------------------------------------------------------------------
(* A new queue satisfies the invariant and is an empty FIFO.               *)
LEMMA InitInv == new => RingInv /\ Fifo!FifoInit
<1> SUFFICES ASSUME new PROVE RingInv /\ Fifo!FifoInit
  OBVIOUS
<1>1. RingInv
  BY RingSizeAssumption
  DEF new, RingInv, RingTypeOK, HeadFollowsTail, StoredAreItems, Slot, Cell
<1>2. stored = <<>>
  <2>1. stored \in Seq(Item) /\ Len(stored) = 0
    BY <1>1, StoredSeq DEF new
  <2> QED BY <2>1
<1> QED BY <1>1, <1>2 DEF new, Fifo!FifoInit

(* Nothing else changes the queue.                                         *)
LEMMA StutterInv == ASSUME RingInv, UNCHANGED ringVars PROVE RingInv' /\ stored' = stored
BY DEF ringVars, RingInv, RingTypeOK, HeadFollowsTail, StoredAreItems, stored, read_pos

(* Every method keeps the invariant and is a step of the FIFO.             *)
LEMMA NextInv == ASSUME RingInv, [RingNext]_ringVars PROVE RingInv' /\ [Fifo!FifoNext]_(Fifo!fifoVars)
<1>1. ASSUME NEW v \in Item, push(v), UNCHANGED allow_wrapping
     PROVE  RingInv' /\ Fifo!FifoNext
  BY <1>1, PushStep DEF Fifo!FifoNext
<1>2. ASSUME NEW v \in Item, replace(v), UNCHANGED allow_wrapping
     PROVE  RingInv' /\ Fifo!FifoNext
  BY <1>2, ReplaceStep DEF Fifo!FifoNext
<1>3. CASE pop /\ UNCHANGED allow_wrapping
  BY <1>3, PopStep DEF Fifo!FifoNext
<1>4. CASE peek /\ UNCHANGED allow_wrapping
  BY <1>4, PeekStep DEF Fifo!FifoNext
<1>5. CASE UNCHANGED ringVars
  <2>1. RingInv' /\ stored' = stored
    BY <1>5, StutterInv
  <2>2. ret' = ret /\ allow_wrapping' = allow_wrapping
    BY <1>5 DEF ringVars
  <2> QED BY <2>1, <2>2 DEF Fifo!fifoVars
<1> QED BY <1>1, <1>2, <1>3, <1>4, <1>5 DEF RingNext

(* For every capacity and item type, no sequence of calls takes an index   *)
(* out of the table or lets the iterator read a slot that holds no item.   *)
THEOREM RingInvariant == RingSpec => []RingInv
<1>1. new => RingInv
  BY InitInv
<1>2. RingInv /\ [RingNext]_ringVars => RingInv'
  BY NextInv
<1> QED BY <1>1, <1>2, PTL DEF RingSpec

(* For every capacity and item type, util/queue behaves, call by call and  *)
(* result by result, as the bounded FIFO it is documented to be.           *)
THEOREM RingImplementsFifo == RingSpec => ImplementsFifo
<1>1. new => Fifo!FifoInit
  BY InitInv
<1>2. RingInv /\ [RingNext]_ringVars => [Fifo!FifoNext]_(Fifo!fifoVars)
  BY NextInv
<1> QED BY <1>1, <1>2, RingInvariant, PTL DEF RingSpec, ImplementsFifo, Fifo!FifoSpec
-----------------------------------------------------------------------------

(* A position that has advanced by at most alen, folded into the block. *)
Wrap(x) == IF x >= alen THEN x - alen ELSE x

(* The modulo of modpos and of every index, as the case distinction it is. *)
LEMMA ModIsWrap ==
  ASSUME NEW x \in 0..(2 * alen - 1)
  PROVE  x % alen = Wrap(x) /\ Wrap(x) \in Index
<1>1. CASE x < alen
  <2>1. x \in 0..(alen - 1) /\ alen \in Nat \ {0}
    BY <1>1, AlenAssumption
  <2>2. x % alen = x
    BY <2>1
  <2> QED BY <1>1, <2>1, <2>2 DEF Wrap, Index
<1>2. CASE x >= alen
  <2>1. x - alen \in 0..(alen - 1) /\ alen \in Nat \ {0}
    BY <1>2, AlenAssumption
  <2>2. x % alen = x - alen
    BY <2>1, x \in Nat
  <2> QED BY <1>2, <2>1, <2>2 DEF Wrap, Index
<1> QED BY <1>1, <1>2, AlenAssumption

(* The distance from one index forward to another. *)
LEMMA ModOfDifference ==
  ASSUME NEW p \in Index, NEW w \in Index
  PROVE  (p - w) % alen = IF p >= w THEN p - w ELSE p - w + alen
<1>1. CASE p >= w
  <2>1. p - w \in 0..(alen - 1) /\ alen \in Nat \ {0}
    BY <1>1, AlenAssumption DEF Index
  <2>2. (p - w) % alen = p - w
    BY <2>1
  <2> QED BY <1>1, <2>2
<1>2. CASE ~(p >= w)
  <2>1. p - w + alen \in 0..(alen - 1) /\ alen \in Nat \ {0} /\ p - w \in Int
    BY <1>2, AlenAssumption DEF Index
  <2>2. (p - w) % alen = p - w + alen
    BY <2>1
  <2> QED BY <1>2, <2>2
<1> QED BY <1>1, <1>2

-----------------------------------------------------------------------------
(* The content, with its indices resolved. *)
LEMMA ContentIndex ==
  ASSUME NEW rp \in Index, NEW k \in 1..alen
  PROVE  (rp + k - 1) % alen = Wrap(rp + k - 1) /\ Wrap(rp + k - 1) \in Index
<1>1. rp + k - 1 \in 0..(2 * alen - 1)
  BY AlenAssumption DEF Index
<1> QED BY <1>1, ModIsWrap

(* The stored bytes are a sequence of bytes, as long as blen says. *)
LEMMA ContentType ==
  ASSUME ByteRingInv
  PROVE  /\ Content \in Seq(Byte)
         /\ Len(Content) = blen
         /\ \A k \in 1..blen : Content[k] = buffer[Wrap(rpos + k - 1)]
<1>1. blen \in Nat /\ 1..blen \subseteq 1..alen /\ rpos \in Index
  BY AlenAssumption DEF ByteRingInv
<1>2. \A k \in 1..blen : /\ buffer[(rpos + k - 1) % alen] = buffer[Wrap(rpos + k - 1)]
                         /\ buffer[(rpos + k - 1) % alen] \in Byte
  BY <1>1, ContentIndex DEF ByteRingInv
<1>3. Content \in [1..blen -> Byte]
  BY <1>2 DEF Content
<1>4. Content \in Seq(Byte) /\ Len(Content) = blen
  BY <1>1, <1>3
<1> QED BY <1>2, <1>4 DEF Content
-----------------------------------------------------------------------------
(* Consuming n stored bytes: the invariant survives, and the content loses *)
(* its first n bytes.                                                      *)
LEMMA ConsumeStep ==
  ASSUME ByteRingInv, NEW n \in 0..blen, Advance(n)
  PROVE  /\ ByteRingInv'
         /\ Content' = [k \in 1..(Len(Content) - n) |-> Content[n + k]]
<1>1. /\ alen \in Nat /\ alen > 0 /\ blen \in 0..alen /\ n \in 0..alen
      /\ rpos \in 0..(alen - 1) /\ wpos \in 0..(alen - 1)
  BY AlenAssumption DEF ByteRingInv, Index
<1>2. /\ (rpos + n) % alen = Wrap(rpos + n)
      /\ wpos % alen = Wrap(wpos)
      /\ (rpos + blen) % alen = Wrap(rpos + blen)
  BY <1>1, ModIsWrap
<1>3. /\ rpos' = Wrap(rpos + n)
      /\ wpos' = wpos
      /\ wpos = Wrap(rpos + blen)
      /\ blen' = blen - n
      /\ buffer' = buffer
  BY <1>1, <1>2 DEF Advance, modpos, ByteRingInv, Wrap
<1>4. rpos' \in Index /\ blen' \in 0..alen
  BY <1>1, <1>3 DEF Wrap, Index
<1>5. (rpos' + blen') % alen = Wrap(rpos' + blen')
  BY <1>1, <1>4, ModIsWrap DEF Index
<1>6. wpos' = (rpos' + blen') % alen
  BY <1>1, <1>3, <1>5 DEF Wrap
<1>7. ByteRingInv'
  BY <1>3, <1>4, <1>6 DEF ByteRingInv
<1>8. ASSUME NEW k \in 1..(blen - n)
      PROVE  buffer'[(rpos' + k - 1) % alen] = Content[n + k]
  <2>1. (rpos' + k - 1) % alen = Wrap(rpos' + k - 1)
    BY <1>1, <1>4, ContentIndex
  <2>2. Wrap(rpos' + k - 1) = Wrap(rpos + (n + k) - 1)
    BY <1>1, <1>3 DEF Wrap
  <2>3. n + k \in 1..blen
    BY <1>1
  <2>4. Content[n + k] = buffer[Wrap(rpos + (n + k) - 1)]
    BY <2>3, ContentType
  <2> QED BY <1>3, <2>1, <2>2, <2>4
<1>9. Len(Content) = blen
  BY ContentType
<1>10. Content' = [k \in 1..(blen - n) |-> buffer'[(rpos' + k - 1) % alen]]
  BY <1>3 DEF Content
<1> QED BY <1>7, <1>8, <1>9, <1>10

(* The bytes that rb_read copies are the first n of the content. *)
LEMMA LeadingIsFirst ==
  ASSUME ByteRingInv, NEW n \in 0..blen
  PROVE  Leading(n) = [k \in 1..n |-> Content[k]]
<1>1. /\ alen \in Nat /\ alen > 0 /\ blen \in 0..alen /\ n \in 0..alen
      /\ rpos \in 0..(alen - 1)
  BY AlenAssumption DEF ByteRingInv, Index
<1>2. \A k \in 1..n : Content[k] = buffer[Wrap(rpos + k - 1)]
  BY <1>1, ContentType
<1>3. CASE rpos + n > alen
  <2> DEFINE a == alen - rpos
             u == [k \in 1..a |-> buffer[rpos + k - 1]]
             v == [k \in 1..(n - a) |-> buffer[k - 1]]
  <2>1. a \in Nat /\ n - a \in Nat
    BY <1>1, <1>3
  <2>2. u \in Seq(Byte) /\ v \in Seq(Byte) /\ Len(u) = a /\ Len(v) = n - a
    <3>1. u \in [1..a -> Byte]
      BY <1>1 DEF ByteRingInv, Index
    <3>2. v \in [1..(n - a) -> Byte]
      BY <1>1, <1>3 DEF ByteRingInv, Index
    <3>3. \A c \in Nat : \A f \in [1..c -> Byte] : f \in Seq(Byte) /\ Len(f) = c
      OBVIOUS
    <3> HIDE DEF u, v, a
    <3> QED BY <2>1, <3>1, <3>2, <3>3
  <2>3. /\ u \o v \in Seq(Byte)
        /\ Len(u \o v) = n
        /\ \A k \in 1..n : (u \o v)[k] = IF k <= a THEN u[k] ELSE v[k - a]
    <3> HIDE DEF u, v, a
    <3>1. \A x, y \in Seq(Byte) :
            /\ x \o y \in Seq(Byte)
            /\ Len(x \o y) = Len(x) + Len(y)
            /\ \A k \in 1..(Len(x) + Len(y)) :
                 (x \o y)[k] = IF k <= Len(x) THEN x[k] ELSE y[k - Len(x)]
      OBVIOUS
    <3>2. Len(u) + Len(v) = n
      BY <1>1, <2>1, <2>2
    <3> QED BY <2>2, <3>1, <3>2
  <2>4. \A k \in 1..n : (u \o v)[k] = buffer[Wrap(rpos + k - 1)]
    <3> SUFFICES ASSUME NEW k \in 1..n
                 PROVE  (u \o v)[k] = buffer[Wrap(rpos + k - 1)]
      OBVIOUS
    <3>1. CASE k <= a
      <4>1. k \in 1..a /\ Wrap(rpos + k - 1) = rpos + k - 1
        BY <1>1, <3>1 DEF Wrap
      <4> QED BY <2>3, <3>1, <4>1
    <3>2. CASE ~(k <= a)
      <4>1. k - a \in 1..(n - a) /\ Wrap(rpos + k - 1) = (k - a) - 1
        BY <1>1, <2>1, <3>2 DEF Wrap
      <4> QED BY <2>3, <3>2, <4>1
    <3> QED BY <3>1, <3>2
  <2>5. u \o v = [k \in 1..n |-> Content[k]]
    <3> HIDE DEF u, v
    <3>1. \A x \in Seq(Byte) : x = [k \in 1..Len(x) |-> x[k]]
      OBVIOUS
    <3>2. u \o v = [k \in 1..n |-> (u \o v)[k]]
      BY <2>3, <3>1
    <3> QED BY <1>2, <2>4, <3>2
  <2> QED BY <1>3, <2>5 DEF Leading
<1>4. CASE ~(rpos + n > alen)
  <2>1. \A k \in 1..n : Wrap(rpos + k - 1) = rpos + k - 1
    BY <1>1, <1>4 DEF Wrap
  <2> QED BY <1>2, <1>4, <2>1 DEF Leading
<1> QED BY <1>3, <1>4

(* Writing s where it fits: the invariant survives, and s is appended.     *)
LEMMA WriteStep ==
  ASSUME ByteRingInv, NEW s \in Chunk, Len(s) + blen <= alen, rb_write(s)
  PROVE  ByteRingInv' /\ Content' = Content \o s
<1> DEFINE l == Len(s)
<1>1. /\ alen \in Nat /\ alen > 0 /\ blen \in 0..alen /\ l \in 0..alen
      /\ rpos \in 0..(alen - 1) /\ wpos \in 0..(alen - 1)
      /\ s \in Seq(Byte) /\ l + blen <= alen
  BY AlenAssumption, ByteAssumption DEF ByteRingInv, Index
<1> HIDE DEF l
<1>2. /\ (wpos + l) % alen = Wrap(wpos + l)
      /\ rpos % alen = Wrap(rpos)
      /\ (rpos + blen) % alen = Wrap(rpos + blen)
  <2>1. /\ wpos + l \in 0..(2 * alen - 1)
        /\ rpos \in 0..(2 * alen - 1)
        /\ rpos + blen \in 0..(2 * alen - 1)
    BY <1>1
  <2> QED BY <2>1, ModIsWrap
<1>3. /\ buffer' = [p \in Index |->
                      LET k == (p - wpos) % alen IN IF k < l THEN s[k + 1] ELSE buffer[p]]
      /\ blen' = blen + l
      /\ wpos' = modpos(wpos + l)
      /\ rpos' = modpos(rpos)
  BY <1>1 DEF rb_write, l
<1>4. /\ blen' = blen + l /\ rpos' = rpos
      /\ wpos' = Wrap(wpos + l) /\ wpos = Wrap(rpos + blen)
  BY <1>1, <1>2, <1>3 DEF modpos, ByteRingInv, Wrap
<1>5. wpos' \in Index /\ blen' \in 0..alen /\ rpos' \in Index
  BY <1>1, <1>4 DEF Wrap, Index
<1>6. wpos' = (rpos' + blen') % alen
  <2>1. (rpos' + blen') % alen = Wrap(rpos' + blen')
    <3>1. rpos' + blen' \in 0..(2 * alen - 1)
      BY <1>1, <1>4
    <3> QED BY <3>1, ModIsWrap
  <2> QED BY <1>1, <1>4, <2>1 DEF Wrap
<1>7. \A p \in Index : buffer'[p] = IF p >= wpos
                                    THEN IF p - wpos < l THEN s[p - wpos + 1] ELSE buffer[p]
                                    ELSE IF p - wpos + alen < l THEN s[p - wpos + alen + 1] ELSE buffer[p]
  <2> SUFFICES ASSUME NEW p \in Index
               PROVE  buffer'[p] = IF p >= wpos
                                   THEN IF p - wpos < l THEN s[p - wpos + 1] ELSE buffer[p]
                                   ELSE IF p - wpos + alen < l THEN s[p - wpos + alen + 1] ELSE buffer[p]
    OBVIOUS
  <2>1. (p - wpos) % alen = IF p >= wpos THEN p - wpos ELSE p - wpos + alen
    BY ModOfDifference DEF ByteRingInv
  <2> QED BY <1>3, <2>1
<1>8. buffer' \in [Index -> Byte]
  <2>1. \A k \in 1..l : s[k] \in Byte
    BY <1>1 DEF l
  <2>2. ASSUME NEW p \in Index PROVE buffer'[p] \in Byte
    <3>1. buffer[p] \in Byte
      BY DEF ByteRingInv
    <3>2. CASE p >= wpos
      <4>1. p - wpos < l => p - wpos + 1 \in 1..l
        BY <1>1, <3>2 DEF Index
      <4> QED BY <1>7, <2>1, <3>1, <3>2, <4>1
    <3>3. CASE ~(p >= wpos)
      <4>1. p - wpos + alen < l => p - wpos + alen + 1 \in 1..l
        BY <1>1, <3>3 DEF Index
      <4> QED BY <1>7, <2>1, <3>1, <3>3, <4>1
    <3> QED BY <3>2, <3>3
  <2>3. buffer' = [p \in Index |-> buffer'[p]]
    BY <1>3
  <2> QED BY <2>2, <2>3
<1>9. ByteRingInv'
  BY <1>5, <1>6, <1>8 DEF ByteRingInv
<1>10. ASSUME NEW k \in 1..(blen + l)
       PROVE  Content'[k] = IF k <= blen THEN Content[k] ELSE s[k - blen]
  <2> DEFINE at == Wrap(rpos + k - 1)
  <2>1. at \in Index /\ Content'[k] = buffer'[at]
    <3>1. rpos \in Index /\ k \in 1..alen
      BY <1>1 DEF Index
    <3>2. (rpos + k - 1) % alen = at /\ at \in Index
      BY <3>1, ContentIndex
    <3> QED BY <1>4, <3>2 DEF Content
  <2>2. CASE k <= blen
    <3>1. Content[k] = buffer[at]
      BY <1>1, <2>2, ContentType
    <3>2. /\ at >= wpos => ~(at - wpos < l)
          /\ ~(at >= wpos) => ~(at - wpos + alen < l)
      BY <1>1, <1>4, <2>2 DEF Wrap
    <3>3. buffer'[at] = buffer[at]
      BY <1>7, <2>1, <3>2
    <3> QED BY <2>1, <2>2, <3>1, <3>3
  <2>3. CASE ~(k <= blen)
    <3>1. CASE at >= wpos
      <4>1. at - wpos + 1 = k - blen /\ at - wpos < l
        BY <1>1, <1>4, <2>3, <3>1 DEF Wrap
      <4> QED BY <1>7, <2>1, <2>3, <3>1, <4>1
    <3>2. CASE ~(at >= wpos)
      <4>1. at - wpos + alen + 1 = k - blen /\ at - wpos + alen < l
        BY <1>1, <1>4, <2>3, <3>2 DEF Wrap
      <4> QED BY <1>7, <2>1, <2>3, <3>2, <4>1
    <3> QED BY <3>1, <3>2
  <2> QED BY <2>2, <2>3
<1>11. Content' = Content \o s
  <2>1. Content \in Seq(Byte) /\ Len(Content) = blen
    BY ContentType
  <2>2. Content' \in Seq(Byte) /\ Len(Content') = blen + l
    <3>1. Content' = [k \in 1..blen' |-> buffer'[(rpos' + k - 1) % alen]]
      BY DEF Content
    <3>2. ASSUME NEW k \in 1..blen' PROVE buffer'[(rpos' + k - 1) % alen] \in Byte
      <4>1. k \in 1..alen
        BY <1>1, <1>5
      <4>2. (rpos' + k - 1) % alen \in Index
        BY <1>5, <4>1, ContentIndex
      <4> QED BY <1>8, <4>2
    <3>3. blen' \in Nat
      BY <1>1, <1>5
    <3> QED BY <1>4, <3>1, <3>2, <3>3
  <2>3. Len(s) = l /\ Content \o s \in Seq(Byte)
    BY <1>1, <2>1 DEF l
  <2>4. /\ Len(Content \o s) = blen + l
        /\ \A k \in 1..(blen + l) :
             (Content \o s)[k] = IF k <= blen THEN Content[k] ELSE s[k - blen]
    BY <1>1, <2>1, <2>3
  <2>5. \A k \in 1..(blen + l) : Content'[k] = (Content \o s)[k]
    BY <1>10, <2>4
  <2> HIDE DEF l
  <2>6. \A x, y \in Seq(Byte) :
          Len(x) = Len(y) /\ (\A k \in 1..Len(x) : x[k] = y[k]) => x = y
    OBVIOUS
  <2> QED BY <2>2, <2>3, <2>4, <2>5, <2>6
<1> QED BY <1>9, <1>11
-----------------------------------------------------------------------------
(* A position in the content where the block matches is an occurrence.     *)
LEMMA MatchIsOccurrence ==
  ASSUME ByteRingInv, NEW s \in Chunk, NEW i \in Nat, i + Len(s) <= blen
  PROVE  MatchAt(s, i) <=> Stream!OccursAt(s, i)
<1>1. /\ alen \in Nat /\ blen \in 0..alen /\ Len(s) \in Nat
  BY AlenAssumption, ByteAssumption DEF ByteRingInv
<1>2. ASSUME NEW j \in 1..Len(s)
      PROVE  buffer[(rpos + i + j - 1) % alen] = Content[i + j]
  <2>1. i + j \in 1..blen
    BY <1>1
  <2>2. rpos + i + j - 1 = rpos + (i + j) - 1
    BY <1>1 DEF ByteRingInv, Index
  <2>3. (rpos + (i + j) - 1) % alen = Wrap(rpos + (i + j) - 1)
    <3>1. i + j \in 1..alen /\ rpos \in Index
      BY <1>1, <2>1 DEF ByteRingInv
    <3> QED BY <3>1, ContentIndex
  <2> QED BY <2>1, <2>2, <2>3, ContentType
<1> QED BY <1>2, ContentType DEF MatchAt, Stream!OccursAt

(* Reading more than is stored is refused by both. *)
LEMMA ReadStep ==
  ASSUME ByteRingInv, NEW n \in Nat, NEW peeking \in BOOLEAN, rb_read(n, peeking)
  PROVE  ByteRingInv' /\ Stream!Read(n, peeking)
<1>1. Len(Content) = blen /\ blen \in Nat
  BY ContentType, AlenAssumption DEF ByteRingInv
<1>2. CASE n > blen
  <2>1. UNCHANGED <<buffer, rpos, wpos, blen>> /\ out' = NoValue
    BY <1>1, <1>2 DEF rb_read
  <2> QED BY <1>1, <1>2, <2>1 DEF ByteRingInv, Content, Stream!Read
<1>3. CASE n <= blen
  <2>1. out' = [k \in 1..n |-> Content[k]]
    BY <1>1, <1>3, LeadingIsFirst DEF rb_read
  <2>2. CASE peeking
    <3>1. UNCHANGED <<buffer, rpos, wpos, blen>>
      BY <1>1, <1>3, <2>2 DEF rb_read
    <3> QED BY <1>1, <1>3, <2>1, <2>2, <3>1
            DEF ByteRingInv, Content, Stream!Read, Stream!First
  <2>3. CASE ~peeking
    <3>1. Advance(n)
      BY <1>1, <1>3, <2>3 DEF rb_read
    <3>2. ByteRingInv' /\ Content' = [k \in 1..(Len(Content) - n) |-> Content[n + k]]
      BY <1>1, <1>3, <3>1, ConsumeStep
    <3> QED BY <1>1, <1>3, <2>1, <2>3, <3>2 DEF Stream!Read, Stream!First, Stream!From
  <2> QED BY <2>2, <2>3
<1> QED BY <1>1, <1>2, <1>3

(* What readuntil consumes ends with the first occurrence of s.  When s is *)
(* longer than the content, find may match bytes outside it, but the m it  *)
(* then returns exceeds blen and rb_read refuses.                          *)
LEMMA ReadUntilStep ==
  ASSUME ByteRingInv, NEW s \in Chunk, rb_readuntil(s)
  PROVE  ByteRingInv' /\ Stream!ReadUntil(s)
<1>1. /\ Len(Content) = blen /\ blen \in Nat /\ Len(s) \in Nat /\ Len(s) > 0
      /\ alen \in Nat /\ alen > 0
  BY ContentType, AlenAssumption, ByteAssumption DEF ByteRingInv
<1>2. CASE find(s, 0) /\ out' = NoValue /\ UNCHANGED <<buffer, rpos, wpos, blen>>
  BY <1>2 DEF ByteRingInv, Content, Stream!ReadUntil
<1>3. CASE \E m \in rb_find(s) : rb_read(m, FALSE)
  <2>1. PICK m \in 1..(alen + Len(s)) : find(s, m) /\ rb_read(m, FALSE)
    BY <1>3 DEF rb_find
  <2>2. ByteRingInv' /\ Stream!Read(m, FALSE)
    <3>1. m \in Nat /\ FALSE \in BOOLEAN
      BY <1>1
    <3> QED BY <2>1, <3>1, ReadStep
  <2>3. CASE m > blen
    <3>1. Content' = Content /\ out' = NoValue
      BY <1>1, <2>1, <2>2, <2>3 DEF Stream!Read
    <3> QED BY <2>2, <3>1 DEF Stream!ReadUntil
  <2>4. CASE m <= blen
    <3>1. PICK i \in Nat : /\ MatchAt(s, i)
                           /\ \A k \in 0..(i - 1) : ~MatchAt(s, k)
                           /\ m = i + Len(s)
      BY <1>1, <2>1 DEF find, Index
    <3>2. Stream!OccursAt(s, i)
      BY <1>1, <2>4, <3>1, MatchIsOccurrence
    <3>3. \A k \in 0..(i - 1) : ~Stream!OccursAt(s, k)
      <4> SUFFICES ASSUME NEW k \in 0..(i - 1) PROVE ~Stream!OccursAt(s, k)
        OBVIOUS
      <4>1. k \in Nat /\ k + Len(s) <= blen
        BY <1>1, <2>4, <3>1
      <4> QED BY <3>1, <4>1, MatchIsOccurrence
    <3>4. i \in 0..Len(Content)
      BY <1>1, <2>4, <3>1
    <3>5. Content' = Stream!From(i + Len(s)) /\ out' = Stream!First(i + Len(s))
      BY <1>1, <2>1, <2>2, <2>4, <3>1 DEF Stream!Read
    <3> QED BY <2>2, <3>2, <3>3, <3>4, <3>5 DEF Stream!ReadUntil
  <2> QED BY <1>1, <2>1, <2>3, <2>4
<1> QED BY <1>2, <1>3 DEF rb_readuntil
-----------------------------------------------------------------------------
(* Every call preserves the invariant and is a step of the byte stream.    *)
LEMMA RingCallsSimulate ==
  ASSUME ByteRingInv, RingCalls
  PROVE  ByteRingInv' /\ Stream!StreamNext
<1>1. Len(Content) = blen /\ blen \in Nat /\ alen \in Nat
  BY ContentType, AlenAssumption DEF ByteRingInv
<1>2. ASSUME NEW s \in Chunk, rb_write(s)
      PROVE  ByteRingInv' /\ Stream!Write(s)
  <2>0. Len(s) \in Nat
    BY ByteAssumption
  <2>1. CASE Len(s) + blen > alen
    <3>1. UNCHANGED <<buffer, rpos, wpos, blen>> /\ out' = NoValue
      BY <1>1, <1>2, <2>0, <2>1 DEF rb_write
    <3> QED BY <1>1, <2>0, <2>1, <3>1 DEF ByteRingInv, Content, Stream!Write
  <2>2. CASE Len(s) + blen <= alen
    <3>1. ByteRingInv' /\ Content' = Content \o s
      BY <1>2, <2>2, WriteStep
    <3>2. out' = <<Len(s)>>
      BY <1>1, <1>2, <2>0, <2>2 DEF rb_write
    <3> QED BY <1>1, <2>0, <2>2, <3>1, <3>2 DEF Stream!Write
  <2> QED BY <1>1, <2>0, <2>1, <2>2
<1>3. ASSUME NEW n \in 0..(alen + 1), rb_discard(n)
      PROVE  ByteRingInv' /\ Stream!Discard(n)
  <2>1. CASE n > blen
    BY <1>1, <1>3, <2>1 DEF rb_discard, ByteRingInv, Content, Stream!Discard
  <2>2. CASE n <= blen
    <3>1. Advance(n) /\ out' = <<1>>
      BY <1>1, <1>3, <2>2 DEF rb_discard
    <3>2. ByteRingInv' /\ Content' = [k \in 1..(Len(Content) - n) |-> Content[n + k]]
      BY <1>1, <2>2, <3>1, ConsumeStep
    <3> QED BY <1>1, <2>2, <3>1, <3>2 DEF Stream!Discard, Stream!From
  <2> QED BY <1>1, <2>1, <2>2
<1>4. ASSUME NEW n \in 0..(alen + 1), NEW peeking \in BOOLEAN, rb_read(n, peeking)
      PROVE  ByteRingInv' /\ Stream!Read(n, peeking)
  BY <1>1, <1>4, ReadStep
<1>5. CASE \E s \in Chunk : rb_write(s)
  BY <1>2, <1>5 DEF Stream!StreamNext
<1>6. CASE \E s \in Chunk : rb_readuntil(s)
  BY <1>6, ReadUntilStep DEF Stream!StreamNext
<1>7. CASE \E n \in 0..(alen + 1) : rb_discard(n)
  BY <1>3, <1>7 DEF Stream!StreamNext
<1>8. CASE \E n \in 0..(alen + 1) : \E peeking \in BOOLEAN : rb_read(n, peeking)
  BY <1>4, <1>8 DEF Stream!StreamNext
<1> QED BY <1>5, <1>6, <1>7, <1>8 DEF RingCalls

(* A new buffer, whatever its block holds, is an empty stream. *)
LEMMA NewIsEmpty == rb_new => ByteRingInv /\ Stream!StreamInit
<1> SUFFICES ASSUME rb_new PROVE ByteRingInv /\ Stream!StreamInit
  OBVIOUS
<1>1. 0 % alen = 0
  BY AlenAssumption, ModIsWrap DEF Wrap
<1>2. ByteRingInv
  BY <1>1, AlenAssumption DEF rb_new, ByteRingInv, Index
<1>3. Content = <<>>
  <2>1. Len(Content) = 0 /\ Content \in Seq(Byte)
    BY <1>2, ContentType DEF rb_new
  <2> QED BY <2>1
<1> QED BY <1>2, <1>3 DEF rb_new, Stream!StreamInit

(* For every size and every sequence of calls of util-src/ringbuffer.c the *)
(* positions stay inside the block and rpos, wpos and blen agree.          *)
THEOREM ByteRingCorrect == ByteRingSpec => []ByteRingInv
<1>1. ByteRingInv /\ [RingCalls]_brVars => ByteRingInv'
  <2> SUFFICES ASSUME ByteRingInv, [RingCalls]_brVars PROVE ByteRingInv'
    OBVIOUS
  <2>1. CASE RingCalls
    BY <2>1, RingCallsSimulate
  <2>2. CASE UNCHANGED brVars
    BY <2>2 DEF brVars, ByteRingInv
  <2> QED BY <2>1, <2>2
<1> QED BY <1>1, NewIsEmpty, PTL DEF ByteRingSpec

(* util-src/ringbuffer.c implements a first-in first-out stream of bytes   *)
(* for every size: nothing is lost, duplicated or invented at a wrap, and  *)
(* readuntil consumes exactly up to the first occurrence.                  *)
THEOREM ByteRingImplementsStream == ByteRingSpec => ImplementsStream
<1>1. ByteRingInv /\ [RingCalls]_brVars => [Stream!StreamNext]_(Stream!streamVars)
  <2> SUFFICES ASSUME ByteRingInv, [RingCalls]_brVars
               PROVE  [Stream!StreamNext]_(Stream!streamVars)
    OBVIOUS
  <2>1. CASE RingCalls
    BY <2>1, RingCallsSimulate
  <2>2. CASE UNCHANGED brVars
    BY <2>2 DEF brVars, Content, Stream!streamVars
  <2> QED BY <2>1, <2>2
<1> QED BY <1>1, NewIsEmpty, ByteRingCorrect, PTL
        DEF ByteRingSpec, ImplementsStream, Stream!StreamSpec
-----------------------------------------------------------------------------
(* The range of a sequence, place by place. *)
LEMMA RangeIs ==
  ASSUME NEW c \in Seq(Byte), NEW a \in 1..Len(c), NEW b \in a..Len(c)
  PROVE  /\ SubSeq(c, a, b) \in Seq(Byte) /\ Len(SubSeq(c, a, b)) = b - a + 1
         /\ \A k \in 1..(b - a + 1) : SubSeq(c, a, b)[k] = c[a + k - 1]
OBVIOUS

(* A piece of a sequence that ends before it starts is empty. *)
LEMMA EmptyRange ==
  ASSUME NEW c \in Seq(Byte), NEW a \in Int, NEW b \in Int, a > b
  PROVE  SubSeq(c, a, b) = <<>>
OBVIOUS

(* Two strings with the same bytes at the same places are the same. *)
LEMMA SameBytes ==
  ASSUME NEW x \in Seq(Byte), NEW y \in Seq(Byte), Len(x) = Len(y), \A k \in 1..Len(x) : x[k] = y[k]
  PROVE  x = y
OBVIOUS

(* A stretch of the block, n bytes from p on. *)
LEMMA BytesIs ==
  ASSUME buffer \in [Index -> Byte], NEW p \in Nat, NEW e \in Nat, NEW n \in Nat, e = p + n, e <= alen
  PROVE  /\ Bytes(p, e) \in Seq(Byte) /\ Len(Bytes(p, e)) = n
         /\ \A k \in 1..n : Bytes(p, e)[k] = buffer[p + k - 1]
<1> DEFINE f == [k \in 1..n |-> buffer[p + k - 1]]
<1>1. e - p = n /\ \A k \in 1..n : p + k - 1 \in Index BY AlenAssumption DEF Index
<1>2. Bytes(p, e) = f BY <1>1 DEF Bytes
<1>3. f \in [1..n -> Byte] BY <1>1
<1>4. \A k \in 1..n : f[k] = buffer[p + k - 1] OBVIOUS
<1> HIDE DEF f
<1>5. f \in Seq(Byte) /\ Len(f) = n BY <1>3
<1> QED BY <1>2, <1>4, <1>5

(* The n bytes from p on are the string that has those bytes. *)
LEMMA BytesAre ==
  ASSUME buffer \in [Index -> Byte], NEW p \in Nat, NEW e \in Nat, NEW n \in Nat, e = p + n, e <= alen,
         NEW w \in Seq(Byte), Len(w) = n, \A k \in 1..n : w[k] = buffer[p + k - 1]
  PROVE  Bytes(p, e) = w
<1>1. /\ Bytes(p, e) \in Seq(Byte) /\ Len(Bytes(p, e)) = n
      /\ \A k \in 1..n : Bytes(p, e)[k] = buffer[p + k - 1]
  BY BytesIs
<1> DEFINE f == Bytes(p, e)
<1> HIDE DEF f
<1>2. f \in Seq(Byte) /\ Len(f) = Len(w) /\ \A k \in 1..Len(f) : f[k] = w[k] BY <1>1 DEF f
<1>3. f = w BY ONLY <1>2, w \in Seq(Byte), SameBytes
<1> QED BY <1>3 DEF f

(* w is the last l bytes of the block, from p on, and then its first m. *)
Wraps(p, l, m, n, w) ==
  /\ p \in Nat /\ l \in Nat /\ m \in Nat /\ n \in Nat /\ w \in Seq(Byte)
  /\ alen = p + l /\ m <= alen /\ n = l + m /\ Len(w) = n
  /\ \A k \in 1..n : k <= l => w[k] = buffer[p + k - 1]
  /\ \A k \in 1..n : ~(k <= l) => w[k] = buffer[(k - l) - 1]

(* Two stretches, the last bytes of the block and its first, make up the   *)
(* string that has those bytes.                                            *)
LEMMA TwoPieces ==
  ASSUME buffer \in [Index -> Byte], NEW p, NEW l, NEW m, NEW n, NEW w, Wraps(p, l, m, n, w)
  PROVE  Bytes(p, alen) \o Bytes(0, m) = w
<1>0. /\ p \in Nat /\ l \in Nat /\ m \in Nat /\ n \in Nat /\ w \in Seq(Byte)
      /\ alen \in Nat /\ alen <= alen /\ alen = p + l /\ m <= alen /\ n = l + m /\ Len(w) = n
      /\ \A k \in 1..n : k <= l => w[k] = buffer[p + k - 1]
      /\ \A k \in 1..n : ~(k <= l) => w[k] = buffer[(k - l) - 1]
  BY AlenAssumption DEF Wraps
<1> DEFINE u == Bytes(p, alen)
           v == Bytes(0, m)
<1>1. u \in Seq(Byte) /\ Len(u) = l /\ \A k \in 1..l : u[k] = buffer[p + k - 1] BY <1>0, BytesIs
<1>2. v \in Seq(Byte) /\ Len(v) = m /\ \A k \in 1..m : v[k] = buffer[k - 1]
  <2>1. m = 0 + m /\ 0 \in Nat /\ \A k \in 1..m : 0 + k - 1 = k - 1 BY <1>0
  <2>2. v \in Seq(Byte) /\ Len(v) = m /\ \A k \in 1..m : v[k] = buffer[0 + k - 1] BY <1>0, <2>1, BytesIs
  <2> QED BY <2>1, <2>2
<1> HIDE DEF u, v
<1>3. \A f, g \in Seq(Byte) :
        /\ f \o g \in Seq(Byte)
        /\ Len(f \o g) = Len(f) + Len(g)
        /\ \A k \in 1..(Len(f) + Len(g)) : (f \o g)[k] = IF k <= Len(f) THEN f[k] ELSE g[k - Len(f)]
  OBVIOUS
<1>4. /\ u \o v \in Seq(Byte) /\ Len(u \o v) = l + m
      /\ \A k \in 1..(l + m) : (u \o v)[k] = IF k <= l THEN u[k] ELSE v[k - l]
  BY ONLY <1>1, <1>2, <1>3
<1> DEFINE h == u \o v
<1> HIDE DEF h
<1>5. h \in Seq(Byte) /\ Len(h) = n BY <1>0, <1>4 DEF h
<1>6. \A k \in 1..n : h[k] = IF k <= l THEN u[k] ELSE v[k - l] BY <1>0, <1>4 DEF h
<1>7. ASSUME NEW k \in 1..n PROVE h[k] = w[k]
  <2>1. CASE k <= l
    <3>1. k \in 1..l BY <1>0, <2>1
    <3> QED BY <1>0, <1>1, <1>6, <2>1, <3>1
  <2>2. CASE ~(k <= l)
    <3>1. k - l \in 1..m BY <1>0, <2>2
    <3>2. h[k] = v[k - l] BY <1>6, <2>2
    <3>3. w[k] = buffer[(k - l) - 1] BY <1>0, <2>2
    <3> QED BY <1>2, <3>1, <3>2, <3>3
  <2> QED BY <2>1, <2>2
<1>8. Len(h) = Len(w) /\ \A k \in 1..Len(h) : h[k] = w[k] BY <1>0, <1>5, <1>7
<1>9. h = w BY ONLY <1>5, <1>8, <1>0, SameBytes
<1> QED BY <1>9 DEF h, u, v

(* The pieces that rb_sub takes from the block are that range of the       *)
(* content, wherever the content wraps.                                    *)
LEMMA WindowIs ==
  ASSUME ByteRingInv, NEW a \in 1..blen, NEW b \in a..blen, NEW x, NEW y, x = wrap_pos(a - 1), y = wrap_pos(b)
  PROVE  (IF y <= x THEN Bytes(x, alen) \o Bytes(0, y) ELSE Bytes(x, y)) = SubSeq(Content, a, b)
<1>1. /\ alen \in Nat /\ alen > 0 /\ blen \in 0..alen /\ rpos \in 0..(alen - 1) /\ buffer \in [Index -> Byte]
      /\ a \in Nat /\ b \in Nat /\ 1 <= a /\ a <= b /\ b <= blen
  BY AlenAssumption DEF ByteRingInv, Index
<1>2. Content \in Seq(Byte) /\ Len(Content) = blen /\ \A k \in 1..blen : Content[k] = buffer[Wrap(rpos + k - 1)]
  BY ContentType
<1> DEFINE n == b - a + 1
           w == SubSeq(Content, a, b)
<1>3. w \in Seq(Byte) /\ Len(w) = n /\ \A k \in 1..n : w[k] = Content[a + k - 1]
  <2>1. a \in 1..Len(Content) /\ b \in a..Len(Content) BY <1>2
  <2> QED BY <1>2, <2>1, RangeIs
<1> HIDE DEF w
<1>4. n \in Nat /\ n = b - a + 1 /\ \A k \in 1..n : a + k - 1 \in 1..blen BY <1>1
<1>5. \A k \in 1..n : w[k] = buffer[Wrap(rpos + (a + k - 1) - 1)] BY <1>2, <1>3, <1>4
<1> HIDE DEF n
<1>6. CASE rpos + b <= alen
  <2>1. x = rpos + a - 1 /\ y = rpos + b /\ ~(y <= x) BY <1>1, <1>6 DEF wrap_pos
  <2>2. x \in Nat /\ y \in Nat /\ y = x + n /\ y <= alen BY <1>1, <1>4, <1>6, <2>1
  <2>3. \A k \in 1..n : Wrap(rpos + (a + k - 1) - 1) = x + k - 1 BY <1>1, <1>4, <1>6, <2>1 DEF Wrap
  <2>4. \A k \in 1..n : w[k] = buffer[x + k - 1] BY ONLY <1>5, <2>3
  <2>5. Bytes(x, y) = w BY ONLY <1>1, <1>3, <1>4, <2>2, <2>4, BytesAre
  <2> QED BY <2>1, <2>5 DEF w
<1>7. CASE rpos + a - 1 > alen
  <2>1. x = rpos + a - 1 - alen /\ y = rpos + b - alen /\ ~(y <= x) BY <1>1, <1>7 DEF wrap_pos
  <2>2. x \in Nat /\ y \in Nat /\ y = x + n /\ y <= alen BY <1>1, <1>4, <1>7, <2>1
  <2>3. \A k \in 1..n : Wrap(rpos + (a + k - 1) - 1) = x + k - 1 BY <1>1, <1>4, <1>7, <2>1 DEF Wrap
  <2>4. \A k \in 1..n : w[k] = buffer[x + k - 1] BY ONLY <1>5, <2>3
  <2>5. Bytes(x, y) = w BY ONLY <1>1, <1>3, <1>4, <2>2, <2>4, BytesAre
  <2> QED BY <2>1, <2>5 DEF w
<1>8. CASE rpos + b > alen /\ rpos + a - 1 <= alen
  <2>1. x = rpos + a - 1 /\ y = rpos + b - alen /\ y <= x BY <1>1, <1>8 DEF wrap_pos
  <2> DEFINE l == alen - x
  <2>2. x \in Nat /\ y \in Nat /\ y <= alen /\ l \in Nat /\ alen = x + l /\ n = l + y BY <1>1, <1>4, <1>8, <2>1
  <2> HIDE DEF l
  <2>3. \A k \in 1..n : k <= l => Wrap(rpos + (a + k - 1) - 1) = x + k - 1
    BY <1>1, <1>4, <2>1, <2>2 DEF Wrap
  <2>4. \A k \in 1..n : ~(k <= l) => Wrap(rpos + (a + k - 1) - 1) = (k - l) - 1
    BY <1>1, <1>4, <2>1, <2>2 DEF Wrap
  <2>5. \A k \in 1..n : k <= l => w[k] = buffer[x + k - 1] BY ONLY <1>5, <2>3
  <2>6. \A k \in 1..n : ~(k <= l) => w[k] = buffer[(k - l) - 1] BY ONLY <1>5, <2>4
  <2>7. Bytes(x, alen) \o Bytes(0, y) = w
    <3>1. Wraps(x, l, y, n, w) BY <1>1, <1>3, <1>4, <2>2, <2>5, <2>6 DEF Wraps
    <3> QED BY ONLY <1>1, <3>1, TwoPieces
  <2> QED BY <2>1, <2>7 DEF w
<1> QED BY <1>1, <1>6, <1>7, <1>8

(* sub agrees with string.sub of the content. *)
LEMMA SubIsStringSub ==
  ASSUME ByteRingInv, NEW i \in Int, NEW j \in Int
  PROVE  rb_sub(i, j) = StringSub(Content, i, j)
<1>1. blen \in Nat /\ Content \in Seq(Byte) /\ Len(Content) = blen BY ContentType, AlenAssumption DEF ByteRingInv
<1> DEFINE s == IF i < 0 THEN 1 + i + blen ELSE i
           a == IF s <= 0 THEN 1 ELSE s
           e == IF j < 0 THEN 1 + j + blen ELSE j
           b == IF e > blen THEN blen ELSE e
<1>2. a \in Int /\ b \in Int /\ a >= 1 /\ b <= blen BY <1>1
<1>3. StringSub(Content, i, j) = SubSeq(Content, a, b)
  <2> DEFINE f == IF i < 0 THEN IF blen + i + 1 > 1 THEN blen + i + 1 ELSE 1 ELSE IF i = 0 THEN 1 ELSE i
             g == IF j < 0 THEN blen + j + 1 ELSE IF j > blen THEN blen ELSE j
  <2>1. f = a /\ g = b BY <1>1
  <2>2. StringSub(Content, i, j) = SubSeq(Content, f, g) BY <1>1 DEF StringSub
  <2> HIDE DEF a, b, f, g
  <2> QED BY <2>1, <2>2
<1>4. calc_splice_positions(i, j) = IF a > b THEN <<>> ELSE <<wrap_pos(a - 1), wrap_pos(b)>>
  BY DEF calc_splice_positions
<1> HIDE DEF a, b
<1>5. CASE a > b
  <2>1. rb_sub(i, j) = <<>> BY <1>4, <1>5 DEF rb_sub
  <2>2. SubSeq(Content, a, b) = <<>> BY <1>1, <1>2, <1>5, EmptyRange
  <2> QED BY <1>3, <2>1, <2>2
<1>6. CASE ~(a > b)
  <2> DEFINE x == wrap_pos(a - 1)
             y == wrap_pos(b)
  <2>1. calc_splice_positions(i, j) = <<x, y>> BY <1>4, <1>6
  <2>2. <<x, y>> # <<>> /\ <<x, y>>[1] = x /\ <<x, y>>[2] = y OBVIOUS
  <2>3. a \in 1..blen /\ b \in a..blen BY <1>1, <1>2, <1>6
  <2> HIDE DEF x, y
  <2>4. rb_sub(i, j) = IF y <= x THEN Bytes(x, alen) \o Bytes(0, y) ELSE Bytes(x, y) BY <2>1, <2>2 DEF rb_sub
  <2>5. x = wrap_pos(a - 1) /\ y = wrap_pos(b) BY DEF x, y
  <2>6. (IF y <= x THEN Bytes(x, alen) \o Bytes(0, y) ELSE Bytes(x, y)) = SubSeq(Content, a, b)
    BY <2>3, <2>5, WindowIs
  <2> QED BY <1>3, <2>4, <2>6
<1> QED BY <1>2, <1>5, <1>6

(* find returns the end of the first occurrence. *)
LEMMA FindIsFirst ==
  ASSUME ByteRingInv, NEW s \in Chunk, Len(s) <= blen, rpos # wpos
  PROVE  rb_find(s) = {i + Len(s) : i \in {i \in 0..blen :
                         Stream!OccursAt(s, i) /\ \A k \in 0..(i - 1) : ~Stream!OccursAt(s, k)}}
<1> DEFINE l == Len(s)
           First(i) == Stream!OccursAt(s, i) /\ \A k \in 0..(i - 1) : ~Stream!OccursAt(s, k)
<1>1. /\ blen \in Nat /\ l \in Nat /\ l > 0 /\ alen \in Nat /\ blen <= alen /\ Len(Content) = blen
  BY ContentType, AlenAssumption, ByteAssumption DEF ByteRingInv
<1>2. \A i \in Nat : i + l <= blen => (MatchAt(s, i) <=> Stream!OccursAt(s, i)) BY MatchIsOccurrence
<1>3. ASSUME NEW i \in 0..blen, First(i) PROVE i \in 0..(blen - l)
  <2>1. i + l <= blen BY <1>1, <1>3 DEF Stream!OccursAt
  <2> QED BY <1>1, <2>1
<1>4. ASSUME NEW i \in 0..(blen - l)
      PROVE  First(i) <=> MatchAt(s, i) /\ \A k \in 0..(i - 1) : ~MatchAt(s, k)
  <2>1. i \in Nat /\ i + l <= blen /\ \A k \in 0..(i - 1) : k \in Nat /\ k + l <= blen BY <1>1
  <2> QED BY <1>2, <2>1
<1> HIDE DEF First
<1>5. ASSUME NEW m
      PROVE  m \in rb_find(s) <=> \E i \in {i \in 0..blen : First(i)} : m = i + l
  <2>1. ASSUME m \in rb_find(s) PROVE \E i \in {i \in 0..blen : First(i)} : m = i + l
    <3>1. m \in 1..(alen + l) /\ find(s, m) BY <2>1 DEF rb_find
    <3>2. PICK i \in 0..(blen - l) : MatchAt(s, i) /\ (\A k \in 0..(i - 1) : ~MatchAt(s, k)) /\ m = i + l
      BY <1>1, <3>1 DEF find
    <3>3. First(i) /\ i \in 0..blen BY <1>1, <1>4, <3>2
    <3> QED BY <3>2, <3>3
  <2>2. ASSUME NEW i \in 0..blen, First(i), m = i + l PROVE m \in rb_find(s)
    <3>1. i \in 0..(blen - l) BY <1>3, <2>2
    <3>2. MatchAt(s, i) /\ \A k \in 0..(i - 1) : ~MatchAt(s, k) BY <1>4, <2>2, <3>1
    <3>3. m \in 1..(alen + l) BY <1>1, <2>2, <3>1
    <3>4. find(s, m) BY <1>1, <2>2, <3>1, <3>2 DEF find
    <3> QED BY <3>3, <3>4 DEF rb_find
  <2> QED BY <2>1, <2>2
<1>6. rb_find(s) = {i + l : i \in {i \in 0..blen : First(i)}} BY <1>5
<1> QED BY <1>6 DEF First

(* For every size of the buffer, every content and every place of the wrap *)
(* sub and byte read what string.sub reads of the content, and find finds  *)
(* what fits at its first occurrence.                                      *)
THEOREM ViewsMatchContentHolds == ByteRingSpec => []ViewsMatchContent
<1>1. ASSUME ByteRingInv PROVE ViewsMatchContent
  <2> DEFINE around == -(alen + 1)..(alen + 1)
  <2>1. \A i, j \in around : rb_sub(i, j) = StringSub(Content, i, j)
    <3> SUFFICES ASSUME NEW i \in around, NEW j \in around PROVE rb_sub(i, j) = StringSub(Content, i, j) OBVIOUS
    <3>1. i \in Int /\ j \in Int BY AlenAssumption
    <3> QED BY <1>1, <3>1, SubIsStringSub
  <2> HIDE DEF around
  <2>2. \A i \in around : rb_byte(i, i) = StringSub(Content, i, i) BY <2>1 DEF rb_byte
  <2>3. \A s \in Chunk :
          Len(s) <= blen /\ rpos # wpos =>
            rb_find(s) = {i + Len(s) : i \in {i \in 0..blen :
                            Stream!OccursAt(s, i) /\ \A k \in 0..(i - 1) : ~Stream!OccursAt(s, k)}}
    BY <1>1, FindIsFirst
  <2> QED BY <2>1, <2>2, <2>3 DEF ViewsMatchContent, around
<1> QED BY <1>1, ByteRingCorrect, PTL

-----------------------------------------------------------------------------
(* ITEM LISTS.  A file that holds whole items, the offsets at which n items *)
(* end, and an index whose entries are ends of items, of this list or not.  *)
Stored(f) == Items(f) \in Seq(Entry) /\ f = Encode(Items(f))
ItemEnds(n) == [k \in 1..n |-> 2 * k]
IndexFile(x) == x \in Seq(Nat) /\ x # <<>> /\ \A k \in 2..Len(x) : x[k] % 2 = 0

(* The flags are flags; once list_store or list_shift has deleted the      *)
(* index it stays deleted until they end, and list_store replaces the list *)
(* by what it was given.                                                   *)
IndexGone ==
  /\ torn \in BOOLEAN /\ skew \in BOOLEAN
  /\ step \in {"store", "rename", "unlink"} => lidx = NoFile
  /\ step = "store" => after \in Seq(Entry) /\ scratch = Encode(after)

(* While no part of an item is left behind both files hold whole entries,  *)
(* even when the index has missed an item.                                 *)
WholeFiles ==
  ~torn =>
    /\ list = NoFile \/ Stored(list)
    /\ lidx = NoFile \/ IndexFile(lidx)
    /\ step = "rename" => Stored(scratch)
    /\ step \in {"index", "drop"} => Stored(list) /\ (after = Items(list) \/ Alone)
    /\ step = "index" => offset = 2 * (Len(Items(list)) - 1) /\ Items(list) # <<>>

(* When the index has missed no item either, it has the end of every item, *)
(* in the middle of list_append of every item but the last.                *)
IndexAgrees ==
  ~torn /\ ~skew =>
    /\ Items(list) \in {before, after} \/ Alone
    /\ step = "rename" => scratch = Encode(after) /\ after \in Seq(Entry)
    /\ step = "unlink" => after = <<>>
    /\ Usable(lidx) /\ step = "index" => Ends(lidx) = ItemEnds(Len(Items(list)) - 1) \/ Alone
    /\ Usable(lidx) /\ step \notin {"index", "drop"} => Ends(lidx) = ItemEnds(Len(Items(list)))

ListInv == IndexGone /\ WholeFiles /\ IndexAgrees

(* A slice that ends before it starts is empty.                            *)
LEMMA EmptySlice ==
  ASSUME NEW s, NEW b \in Int, NEW e \in Int, e < b
  PROVE  SubSeq(s, b, e) = <<>>
OBVIOUS

(* What a slice of a file holds.                                           *)
LEMMA SliceCells ==
  ASSUME NEW S, NEW s \in Seq(S), NEW b \in 1..(Len(s) + 1), NEW e \in (b - 1)..Len(s)
  PROVE  /\ SubSeq(s, b, e) \in Seq(S) /\ Len(SubSeq(s, b, e)) = e - b + 1
         /\ \A i \in 1..(e - b + 1) : SubSeq(s, b, e)[i] = s[b + i - 1]
OBVIOUS

(* What a file holds once more has been written at its end.                *)
LEMMA JoinCells ==
  ASSUME NEW S, NEW a \in Seq(S), NEW b \in Seq(S)
  PROVE  /\ a \o b \in Seq(S) /\ Len(a \o b) = Len(a) + Len(b)
         /\ \A k \in 1..Len(a) : (a \o b)[k] = a[k]
         /\ \A k \in 1..Len(b) : (a \o b)[Len(a) + k] = b[k]
OBVIOUS

(* Two files that agree in every cell are the same.                        *)
LEMMA SameCells ==
  ASSUME NEW S, NEW a \in Seq(S), NEW b \in Seq(S), Len(a) = Len(b),
         \A k \in 1..Len(a) : a[k] = b[k]
  PROVE  a = b
OBVIOUS

(* One cell behind none or one.                                            *)
LEMMA JoinTwo ==
  ASSUME NEW a, NEW b
  PROVE  <<a>> \o <<b>> = <<a, b>> /\ <<>> \o <<b>> = <<b>>
<1> DEFINE S == {a, b}
<1>1. <<a>> \in Seq(S) /\ <<b>> \in Seq(S) /\ <<a, b>> \in Seq(S) /\ <<>> \in Seq(S)
  OBVIOUS
<1>2. Len(<<a>>) = 1 /\ Len(<<b>>) = 1 /\ Len(<<a, b>>) = 2 /\ Len(<<>>) = 0
  OBVIOUS
<1>3. <<a>>[1] = a /\ <<b>>[1] = b /\ <<a, b>>[1] = a /\ <<a, b>>[2] = b
  OBVIOUS
<1> HIDE DEF S
<1>4. <<a>> \o <<b>> = <<a, b>>
  <2>1. /\ <<a>> \o <<b>> \in Seq(S) /\ Len(<<a>> \o <<b>>) = 1 + 1
        /\ \A k \in 1..1 : (<<a>> \o <<b>>)[k] = <<a>>[k]
        /\ \A k \in 1..1 : (<<a>> \o <<b>>)[1 + k] = <<b>>[k]
    BY <1>1, <1>2, JoinCells
  <2> DEFINE w == <<a>> \o <<b>>
             u == <<a, b>>
  <2>2. w \in Seq(S) /\ u \in Seq(S) /\ Len(w) = 2 /\ Len(u) = 2
    BY <1>1, <1>2, <2>1
  <2>3. \A k \in 1..2 : w[k] = u[k]
    BY <1>3, <2>1
  <2> HIDE DEF w, u
  <2>4. w = u
    BY <2>2, <2>3, SameCells
  <2> QED BY <2>4 DEF w, u
<1>5. <<>> \o <<b>> = <<b>>
  BY <1>1
<1> QED BY <1>4, <1>5

(* Every position is the first or the second cell of an item.              *)
LEMMA CellParity ==
  ASSUME NEW k \in Nat \ {0}
  PROVE  \/ k % 2 = 1 /\ (k + 1) \div 2 \in Nat \ {0} /\ k = 2 * ((k + 1) \div 2) - 1
         \/ k % 2 = 0 /\ k \div 2 \in Nat \ {0} /\ k = 2 * (k \div 2)
OBVIOUS

(* The two cells of item j, and half of an even length.                    *)
LEMMA CellOfItem ==
  ASSUME NEW j \in Nat
  PROVE  /\ (2 * j) % 2 = 0 /\ (2 * j) \div 2 = j
         /\ j # 0 => (2 * j - 1) % 2 = 1 /\ ((2 * j - 1) + 1) \div 2 = j
<1>1. (2 * j) % 2 = 0 /\ (2 * j) \div 2 = j
  OBVIOUS
<1>2. j # 0 => (2 * j - 1) % 2 = 1
  OBVIOUS
<1>3. (2 * j - 1) + 1 = 2 * j
  OBVIOUS
<1> QED BY <1>1, <1>2, <1>3

(* What a file of whole items looks like, cell by cell.                    *)
LEMMA EncodeCells ==
  ASSUME NEW s \in Seq(Entry)
  PROVE  /\ Encode(s) \in Seq(Nat) /\ Len(Encode(s)) = 2 * Len(s)
         /\ DOMAIN Encode(s) = 1..(2 * Len(s))
         /\ \A j \in 1..Len(s) : Encode(s)[2 * j - 1] = s[j] /\ Encode(s)[2 * j] = Eol
<1> DEFINE n == Len(s)
           e == Encode(s)
<1>1. n \in Nat /\ s = [j \in 1..n |-> s[j]] /\ \A j \in 1..n : s[j] \in Entry
  OBVIOUS
<1>2. e = [k \in 1..(2 * n) |-> IF k % 2 = 1 THEN s[(k + 1) \div 2] ELSE Eol]
  BY DEF Encode
<1> HIDE DEF n, e
<1>3. \A k \in 1..(2 * n) : e[k] \in Nat
  <2> TAKE k \in 1..(2 * n)
  <2>1. k \in Nat \ {0}
    BY <1>1
  <2>2. CASE k % 2 = 1
    <3>1. (k + 1) \div 2 \in 1..n
      BY <1>1, <2>1, <2>2, CellParity
    <3> QED BY <1>1, <1>2, <2>2, <3>1, ListBounds
  <2>3. CASE k % 2 # 1
    BY <1>2, <2>3 DEF Eol
  <2> QED BY <2>2, <2>3
<1>4. 2 * n \in Nat
  BY <1>1
<1>5. e \in [1..(2 * n) -> Nat]
  BY <1>2, <1>3
<1>6. e \in Seq(Nat) /\ Len(e) = 2 * n /\ DOMAIN e = 1..(2 * n)
  BY <1>4, <1>5
<1>7. ASSUME NEW j \in 1..n PROVE e[2 * j - 1] = s[j] /\ e[2 * j] = Eol
  <2>1. j \in Nat /\ j # 0 /\ 2 * j - 1 \in 1..(2 * n) /\ 2 * j \in 1..(2 * n)
    BY <1>1
  <2>2. (2 * j - 1) % 2 = 1 /\ ((2 * j - 1) + 1) \div 2 = j /\ (2 * j) % 2 # 1
    BY <2>1, CellOfItem
  <2>3. e[2 * j - 1] = IF (2 * j - 1) % 2 = 1 THEN s[((2 * j - 1) + 1) \div 2] ELSE Eol
    BY <1>2, <2>1
  <2>4. e[2 * j] = IF (2 * j) % 2 = 1 THEN s[((2 * j) + 1) \div 2] ELSE Eol
    BY <1>2, <2>1
  <2> QED BY <2>2, <2>3, <2>4
<1> QED BY <1>6, <1>7 DEF n, e

(* A sequence of cells that looks like it is the file.                     *)
LEMMA EncodeUnique ==
  ASSUME NEW s \in Seq(Entry), NEW f \in Seq(Int), Len(f) = 2 * Len(s),
         \A j \in 1..Len(s) : f[2 * j - 1] = s[j] /\ f[2 * j] = Eol
  PROVE  f = Encode(s)
<1>1. /\ Encode(s) \in Seq(Nat) /\ Len(Encode(s)) = 2 * Len(s)
      /\ \A j \in 1..Len(s) : Encode(s)[2 * j - 1] = s[j] /\ Encode(s)[2 * j] = Eol
  BY EncodeCells
<1>2. Len(s) \in Nat
  OBVIOUS
<1>3. ASSUME NEW k \in 1..(2 * Len(s)) PROVE f[k] = Encode(s)[k]
  <2>1. k \in Nat \ {0}
    BY <1>2
  <2>2. PICK j \in Nat \ {0} : k = 2 * j - 1 \/ k = 2 * j
    BY <2>1, CellParity
  <2>3. j \in 1..Len(s)
    BY <1>2, <2>2
  <2> QED BY <1>1, <2>2, <2>3
<1> QED BY <1>1, <1>3

(* Loading a file of whole items gives the items.                          *)
LEMMA ItemsEncode ==
  ASSUME NEW s \in Seq(Entry)
  PROVE  Items(Encode(s)) = s /\ Encode(s) # NoFile /\ Stored(Encode(s))
<1>1. /\ Encode(s) \in Seq(Nat) /\ Len(Encode(s)) = 2 * Len(s) /\ Len(s) \in Nat
      /\ \A j \in 1..Len(s) : Encode(s)[2 * j - 1] = s[j] /\ Encode(s)[2 * j] = Eol
  BY EncodeCells
<1>2. Encode(s) # NoFile
  <2>1. Len(NoFile) = 1
    BY DEF NoFile
  <2> QED BY <1>1, <2>1
<1>3. Len(Encode(s)) \div 2 = Len(s)
  BY <1>1, CellOfItem
<1>4. Items(Encode(s)) = [j \in 1..Len(s) |-> Encode(s)[2 * j - 1]]
  BY <1>2, <1>3 DEF Items
<1>5. Items(Encode(s)) = [j \in 1..Len(s) |-> s[j]]
  BY <1>1, <1>4
<1>6. s = [j \in 1..Len(s) |-> s[j]]
  OBVIOUS
<1> QED BY <1>2, <1>5, <1>6 DEF Stored

(* A file is empty when no item is in it.                                  *)
LEMMA EncodeEmpty ==
  ASSUME NEW s \in Seq(Entry)
  PROVE  Encode(s) = <<>> <=> s = <<>>
<1>1. Encode(s) \in Seq(Nat) /\ Len(Encode(s)) = 2 * Len(s) /\ Len(s) \in Nat
  BY EncodeCells
<1>2. Encode(s) = <<>> <=> Len(Encode(s)) = 0
  BY <1>1
<1>3. s = <<>> <=> Len(s) = 0
  OBVIOUS
<1> QED BY <1>1, <1>2, <1>3

(* Appending an item to the file appends it to the items.                  *)
LEMMA EncodeAppend ==
  ASSUME NEW s \in Seq(Entry), NEW x \in Entry
  PROVE  Encode(s) \o <<x, Eol>> = Encode(Append(s, x)) /\ Append(s, x) \in Seq(Entry)
<1> DEFINE f == Encode(s) \o <<x, Eol>>
           w == Append(s, x)
<1>1. /\ Encode(s) \in Seq(Nat) /\ Len(Encode(s)) = 2 * Len(s) /\ Len(s) \in Nat
      /\ \A j \in 1..Len(s) : Encode(s)[2 * j - 1] = s[j] /\ Encode(s)[2 * j] = Eol
  BY EncodeCells
<1>2. x \in Int /\ Eol \in Int
  BY ListBounds DEF Eol
<1>3. Encode(s) \in Seq(Int) /\ <<x, Eol>> \in Seq(Int) /\ Len(<<x, Eol>>) = 2
  BY <1>1, <1>2
<1>4. /\ f \in Seq(Int) /\ Len(f) = 2 * Len(s) + 2
      /\ \A k \in 1..(2 * Len(s)) : f[k] = Encode(s)[k]
      /\ f[2 * Len(s) + 1] = x /\ f[2 * Len(s) + 2] = Eol
  <2>1. /\ f \in Seq(Int) /\ Len(f) = Len(Encode(s)) + Len(<<x, Eol>>)
        /\ \A k \in 1..Len(Encode(s)) : f[k] = Encode(s)[k]
        /\ \A k \in 1..Len(<<x, Eol>>) : f[Len(Encode(s)) + k] = <<x, Eol>>[k]
    BY <1>3, JoinCells
  <2>2. <<x, Eol>>[1] = x /\ <<x, Eol>>[2] = Eol /\ 1 \in 1..2 /\ 2 \in 1..2
    OBVIOUS
  <2> HIDE DEF f
  <2> QED BY <1>1, <1>3, <2>1, <2>2
<1>5. /\ w \in Seq(Entry) /\ Len(w) = Len(s) + 1 /\ w[Len(s) + 1] = x
      /\ \A j \in 1..Len(s) : w[j] = s[j]
  OBVIOUS
<1> HIDE DEF f, w
<1>6. ASSUME NEW j \in 1..Len(w) PROVE f[2 * j - 1] = w[j] /\ f[2 * j] = Eol
  <2>1. CASE j = Len(s) + 1
    <3>1. 2 * j - 1 = 2 * Len(s) + 1 /\ 2 * j = 2 * Len(s) + 2
      BY <1>1, <2>1
    <3> QED BY <1>4, <1>5, <2>1, <3>1
  <2>2. CASE j \in 1..Len(s)
    <3>1. 2 * j - 1 \in 1..(2 * Len(s)) /\ 2 * j \in 1..(2 * Len(s))
      BY <1>1, <2>2
    <3> QED BY <1>1, <1>4, <1>5, <2>2, <3>1
  <2> QED BY <1>1, <1>5, <2>1, <2>2
<1>7. Len(f) = 2 * Len(w)
  BY <1>1, <1>4, <1>5
<1>8. f = Encode(w)
  BY <1>4, <1>5, <1>6, <1>7, EncodeUnique
<1> QED BY <1>5, <1>8 DEF f, w

(* Cutting the file after m items leaves the other items.                  *)
LEMMA EncodeCut ==
  ASSUME NEW s \in Seq(Entry), NEW m \in Nat
  PROVE  /\ SubSeq(s, m + 1, Len(s)) \in Seq(Entry)
         /\ SubSeq(Encode(s), 2 * m + 1, Len(Encode(s))) = Encode(SubSeq(s, m + 1, Len(s)))
<1> DEFINE n == Len(s)
           e == Encode(s)
           w == SubSeq(s, m + 1, n)
           f == SubSeq(e, 2 * m + 1, 2 * n)
<1>1. /\ e \in Seq(Nat) /\ Len(e) = 2 * n /\ n \in Nat
      /\ \A j \in 1..n : e[2 * j - 1] = s[j] /\ e[2 * j] = Eol
  BY EncodeCells
<1>2. s \in Seq(Entry)
  OBVIOUS
<1> HIDE DEF e
<1>3. CASE m >= n
  <2>1. n < m + 1 /\ 2 * n < 2 * m + 1 /\ m + 1 \in Int /\ 2 * m + 1 \in Int /\ 2 * n \in Int
    BY <1>1, <1>3
  <2>2. w = <<>> /\ f = <<>>
    BY <1>1, <2>1, EmptySlice
  <2>3. <<>> \in Seq(Entry) /\ Len(<<>>) = 0 /\ <<>> \in Seq(Int)
    OBVIOUS
  <2>4. w \in Seq(Entry) /\ Encode(w) = <<>>
    BY <2>2, <2>3, EncodeEmpty
  <2> QED BY <1>1, <2>2, <2>4 DEF e
<1>4. CASE m < n
  <2>1. /\ w \in Seq(Entry) /\ Len(w) = n - m /\ \A j \in 1..(n - m) : w[j] = s[m + j]
    <3>1. m + 1 \in 1..n /\ n \in 1..n /\ m + 1 <= n
      BY <1>1, <1>4
    <3>2. /\ w \in Seq(Entry) /\ Len(w) = n - (m + 1) + 1
          /\ \A j \in 1..(n - (m + 1) + 1) : w[j] = s[(m + 1) + j - 1]
      BY <3>1, <1>2
    <3>3. n - (m + 1) + 1 = n - m /\ \A j \in 1..(n - m) : (m + 1) + j - 1 = m + j
      BY <1>1
    <3> QED BY <3>2, <3>3
  <2>2. /\ f \in Seq(Nat) /\ Len(f) = 2 * (n - m) /\ \A k \in 1..(2 * (n - m)) : f[k] = e[2 * m + k]
    <3>1. 2 * m + 1 \in 1..(Len(e) + 1) /\ 2 * n \in ((2 * m + 1) - 1)..Len(e)
      BY <1>1, <1>4
    <3>2. /\ f \in Seq(Nat) /\ Len(f) = 2 * n - (2 * m + 1) + 1
          /\ \A k \in 1..(2 * n - (2 * m + 1) + 1) : f[k] = e[(2 * m + 1) + k - 1]
      BY <3>1, <1>1, SliceCells, ZenonT(60)
    <3>3. /\ 2 * n - (2 * m + 1) + 1 = 2 * (n - m)
          /\ \A k \in 1..(2 * (n - m)) : (2 * m + 1) + k - 1 = 2 * m + k
      BY <1>1
    <3> QED BY <3>2, <3>3
  <2> HIDE DEF f, w
  <2>3. ASSUME NEW j \in 1..Len(w) PROVE f[2 * j - 1] = w[j] /\ f[2 * j] = Eol
    <3>1. /\ j \in 1..(n - m) /\ m + j \in 1..n
          /\ 2 * j - 1 \in 1..(2 * (n - m)) /\ 2 * j \in 1..(2 * (n - m))
          /\ 2 * m + (2 * j - 1) = 2 * (m + j) - 1 /\ 2 * m + 2 * j = 2 * (m + j)
      BY <1>1, <1>4, <2>1
    <3>2. f[2 * j - 1] = e[2 * (m + j) - 1] /\ f[2 * j] = e[2 * (m + j)]
      BY <2>2, <3>1
    <3>3. w[j] = s[m + j]
      BY <2>1, <3>1
    <3> QED BY <1>1, <3>1, <3>2, <3>3
  <2>4. f \in Seq(Int) /\ Len(f) = 2 * Len(w)
    BY <2>1, <2>2
  <2>5. f = Encode(w)
    BY <2>1, <2>3, <2>4, EncodeUnique
  <2> QED BY <1>1, <2>1, <2>5 DEF f, w, e
<1> QED BY <1>1, <1>3, <1>4

(* There are n even numbers up to 2n.                                      *)
LEMMA EvenCount ==
  ASSUME NEW n \in Nat
  PROVE  Cardinality({2 * j : j \in 1..n}) = n /\ IsFiniteSet({2 * j : j \in 1..n})
<1> DEFINE E == {2 * j : j \in 1..n}
           g == [j \in 1..n |-> 2 * j]
<1>1. 1 \in Int /\ n \in Int
  OBVIOUS
<1>2. IsFiniteSet(1..n) /\ Cardinality(1..n) = n
  BY <1>1, FS_Interval
<1>3. g \in Bijection(1..n, E)
  <2>1. g \in [1..n -> E] /\ \A a, b \in 1..n : g[a] = g[b] => a = b
    OBVIOUS
  <2>2. \A y \in E : \E j \in 1..n : g[j] = y
    OBVIOUS
  <2>3. DOMAIN g = 1..n
    OBVIOUS
  <2> HIDE DEF g, E
  <2> QED BY <2>1, <2>2, <2>3 DEF Bijection, Injection, Surjection, IsInjective
<1>4. ExistsBijection(1..n, E)
  BY <1>3 DEF ExistsBijection
<1> QED BY <1>2, <1>4, FS_Bijection

(* The lines of a file of whole items end after every second cell.         *)
LEMMA LineEndsEncode ==
  ASSUME NEW s \in Seq(Entry)
  PROVE  LineEnds(Encode(s)) = {2 * j : j \in 1..Len(s)}
<1> DEFINE n == Len(s)
           e == Encode(s)
<1>1. /\ Len(e) = 2 * n /\ n \in Nat /\ DOMAIN e = 1..(2 * n)
      /\ \A j \in 1..n : e[2 * j - 1] = s[j] /\ e[2 * j] = Eol
      /\ \A j \in 1..n : s[j] \in Entry
  BY EncodeCells
<1>2. LineEnds(e) = {k \in 1..(2 * n) : e[k] = Eol \/ k = 2 * n}
  BY <1>1 DEF LineEnds
<1> HIDE DEF n, e
<1>3. ASSUME NEW k \in 1..(2 * n)
      PROVE  (e[k] = Eol \/ k = 2 * n) <=> k \in {2 * j : j \in 1..n}
  <2>1. k \in Nat \ {0}
    BY <1>1
  <2>2. PICK j \in Nat \ {0} : k = 2 * j - 1 \/ k = 2 * j
    BY <2>1, CellParity
  <2>3. j \in 1..n
    BY <1>1, <2>2
  <2>4. CASE k = 2 * j
    BY <1>1, <2>3, <2>4
  <2>5. CASE k = 2 * j - 1
    <3>1. e[k] # Eol
      BY <1>1, <2>3, <2>5, ListBounds
    <3>2. \A i \in 1..n : k # 2 * i
      BY <1>1, <2>3, <2>5
    <3>3. k # 2 * n
      BY <1>1, <2>3, <2>5
    <3> QED BY <3>1, <3>2, <3>3
  <2> QED BY <2>2, <2>4, <2>5
<1>4. {2 * j : j \in 1..n} \subseteq 1..(2 * n)
  BY <1>1
<1>5. LineEnds(e) = {2 * j : j \in 1..n}
  BY <1>2, <1>3, <1>4
<1> QED BY <1>5 DEF n, e

(* build_list_index finds the end of every item.                           *)
LEMMA BuildsItemEnds ==
  ASSUME NEW s \in Seq(Entry)
  PROVE  build_list_index(Encode(s)) = ItemEnds(Len(s))
<1> DEFINE n == Len(s)
           E == LineEnds(Encode(s))
           Below(k) == {j \in E : j <= k}
<1>1. n \in Nat /\ E = {2 * j : j \in 1..n}
  BY LineEndsEncode
<1> HIDE DEF E, n
<1>2. Cardinality(E) = n
  BY <1>1, EvenCount
<1>3. ASSUME NEW m \in 1..n PROVE 2 * m \in E /\ Cardinality(Below(2 * m)) = m
  <2>1. Below(2 * m) = {2 * j : j \in 1..m}
    BY <1>1
  <2>2. m \in Nat
    BY <1>1
  <2>3. Cardinality(Below(2 * m)) = m
    BY <2>1, <2>2, EvenCount
  <2>4. 2 * m \in E
    BY <1>1
  <2> QED BY <2>3, <2>4
<1> HIDE DEF Below
<1>4. ASSUME NEW m \in 1..n
      PROVE  (CHOOSE k \in E : Cardinality(Below(k)) = m) = 2 * m
  <2>1. \A k \in E : Cardinality(Below(k)) = m => k = 2 * m
    BY <1>1, <1>3
  <2> QED BY <1>3, <2>1
<1>5. build_list_index(Encode(s)) =
        [m \in 1..n |-> CHOOSE k \in E : Cardinality(Below(k)) = m]
  BY <1>2 DEF build_list_index, E, Below
<1>6. build_list_index(Encode(s)) = [m \in 1..n |-> 2 * m]
  BY <1>4, <1>5
<1> QED BY <1>6 DEF ItemEnds, n

(* What a list of ends looks like.                                         *)
LEMMA ItemEndsCells ==
  ASSUME NEW n \in Nat
  PROVE  /\ ItemEnds(n) \in Seq(Nat) /\ Len(ItemEnds(n)) = n
         /\ \A k \in 1..n : ItemEnds(n)[k] = 2 * k /\ ItemEnds(n)[k] % 2 = 0
<1>1. ItemEnds(n) \in [1..n -> Nat]
  BY DEF ItemEnds
<1>2. ItemEnds(n) \in Seq(Nat) /\ Len(ItemEnds(n)) = n
  BY <1>1
<1>3. \A k \in 1..n : ItemEnds(n)[k] = 2 * k
  BY DEF ItemEnds
<1>4. \A k \in 1..n : (2 * k) % 2 = 0
  BY CellOfItem
<1> QED BY <1>2, <1>3, <1>4

(* What follows the magic number in an index is its list of ends.          *)
LEMMA EndsOfIndex ==
  ASSUME NEW x \in Seq(Nat), x # <<>>
  PROVE  /\ Ends(x) \in Seq(Nat) /\ Len(Ends(x)) = Len(x) - 1 /\ Len(x) \in Nat \ {0}
         /\ \A k \in 1..(Len(x) - 1) : Ends(x)[k] = x[k + 1]
<1>1. Len(x) \in Nat \ {0} /\ 2 \in 1..(Len(x) + 1) /\ Len(x) \in (2 - 1)..Len(x)
  OBVIOUS
<1>2. /\ Ends(x) \in Seq(Nat) /\ Len(Ends(x)) = Len(x) - 2 + 1
      /\ \A k \in 1..(Len(x) - 2 + 1) : Ends(x)[k] = x[2 + k - 1]
  BY <1>1, SliceCells, ZenonT(60) DEF Ends
<1>3. Len(x) - 2 + 1 = Len(x) - 1 /\ \A k \in 1..(Len(x) - 1) : 2 + k - 1 = k + 1
  BY <1>1
<1> QED BY <1>1, <1>2, <1>3

(* An index that was just built is usable and has the end of every item.   *)
LEMMA StoredIndex ==
  ASSUME NEW s \in Seq(Entry)
  PROVE  LET x == store_list_index(Encode(s))
         IN IndexFile(x) /\ x # NoFile /\ Ends(x) = ItemEnds(Len(s))
<1> DEFINE n == Len(s)
           u == ItemEnds(n)
           x == <<Magic>> \o u
<1>1. store_list_index(Encode(s)) = x /\ n \in Nat
  BY BuildsItemEnds DEF store_list_index
<1>2. /\ u \in Seq(Nat) /\ Len(u) = n
      /\ \A k \in 1..n : u[k] = 2 * k /\ u[k] % 2 = 0
  BY <1>1, ItemEndsCells
<1>3. <<Magic>> \in Seq(Nat) /\ Len(<<Magic>>) = 1 /\ <<Magic>>[1] = Magic
  BY DEF Magic
<1> HIDE DEF u, n
<1>4. /\ x \in Seq(Nat) /\ Len(x) = 1 + n
      /\ x[1] = Magic /\ \A k \in 1..n : x[1 + k] = u[k]
  BY <1>1, <1>2, <1>3, JoinCells
<1> HIDE DEF x
<1>5. x # <<>>
  BY <1>1, <1>4
<1>6. ASSUME NEW k \in 2..Len(x) PROVE x[k] % 2 = 0
  <2>1. k - 1 \in 1..n /\ 1 + (k - 1) = k
    BY <1>1, <1>4
  <2> QED BY <1>2, <1>4, <2>1
<1>7. x # NoFile
  BY <1>4 DEF NoFile, Magic
<1>8. Ends(x) = u
  <2>1. /\ Ends(x) \in Seq(Nat) /\ Len(Ends(x)) = n
        /\ \A k \in 1..n : Ends(x)[k] = x[k + 1]
    <3>1. Len(x) - 1 = n
      BY <1>1, <1>4
    <3> QED BY <1>4, <1>5, <3>1, EndsOfIndex
  <2>2. \A k \in 1..n : k + 1 = 1 + k
    BY <1>1
  <2>3. \A k \in 1..n : Ends(x)[k] = u[k]
    BY <1>4, <2>1, <2>2
  <2> QED BY <1>2, <2>1, <2>3, SameCells
<1>9. IndexFile(x)
  BY <1>4, <1>5, <1>6 DEF IndexFile
<1> QED BY <1>1, <1>7, <1>8, <1>9 DEF u, n

(* Even entries written behind an index leave an index.                    *)
LEMMA IndexGrows ==
  ASSUME NEW x, IndexFile(x), NEW d \in Seq(Nat), \A k \in 1..Len(d) : d[k] % 2 = 0
  PROVE  IndexFile(x \o d) /\ (x \o d)[1] = x[1]
<1>1. /\ x \in Seq(Nat) /\ x # <<>> /\ Len(x) \in Nat \ {0} /\ Len(d) \in Nat
      /\ \A k \in 2..Len(x) : x[k] % 2 = 0
  BY DEF IndexFile
<1> DEFINE y == x \o d
<1>2. /\ y \in Seq(Nat) /\ Len(y) = Len(x) + Len(d)
      /\ \A k \in 1..Len(x) : y[k] = x[k]
      /\ \A k \in 1..Len(d) : y[Len(x) + k] = d[k]
  BY <1>1, JoinCells
<1> HIDE DEF y
<1>3. ASSUME NEW k \in 2..Len(y) PROVE y[k] % 2 = 0
  <2>1. CASE k <= Len(x)
    BY <1>1, <1>2, <2>1
  <2>2. CASE k > Len(x)
    <3>1. k - Len(x) \in 1..Len(d) /\ Len(x) + (k - Len(x)) = k
      BY <1>1, <1>2, <2>2
    <3> QED BY <1>2, <3>1
  <2> QED BY <1>1, <1>2, <2>1, <2>2
<1>4. y # <<>> /\ y[1] = x[1]
  BY <1>1, <1>2
<1> QED BY <1>2, <1>3, <1>4 DEF IndexFile, y

(* The end of the next item completes an index that had the others.        *)
LEMMA IndexExtends ==
  ASSUME NEW x, IndexFile(x), NEW n \in Nat, Ends(x) = ItemEnds(n)
  PROVE  Ends(x \o <<2 * n + 2>>) = ItemEnds(n + 1)
<1> DEFINE d == <<2 * n + 2>>
           y == x \o d
           v == ItemEnds(n + 1)
<1>0. x \in Seq(Nat) /\ d \in Seq(Nat)
  BY DEF IndexFile
<1>1. x \in Seq(Nat) /\ x # <<>> /\ d \in Seq(Nat) /\ Len(d) = 1 /\ d[1] = 2 * n + 2
  BY DEF IndexFile
<1>2. Len(x) = n + 1 /\ \A k \in 1..n : x[k + 1] = 2 * k
  <2>1. Len(Ends(x)) = n /\ \A k \in 1..n : Ends(x)[k] = 2 * k
    BY ItemEndsCells
  <2>2. /\ Len(Ends(x)) = Len(x) - 1 /\ Len(x) \in Nat \ {0}
        /\ \A k \in 1..(Len(x) - 1) : Ends(x)[k] = x[k + 1]
    BY <1>1, EndsOfIndex
  <2>3. Len(x) - 1 = n
    BY <2>1, <2>2
  <2> QED BY <2>1, <2>2, <2>3
<1> HIDE DEF d
<1>3. /\ y \in Seq(Nat) /\ Len(y) = n + 2
      /\ \A k \in 1..(n + 1) : y[k] = x[k]
      /\ y[(n + 1) + 1] = 2 * n + 2
  <2>1. /\ y \in Seq(Nat) /\ Len(y) = Len(x) + Len(d)
        /\ \A k \in 1..Len(x) : y[k] = x[k]
        /\ \A k \in 1..Len(d) : y[Len(x) + k] = d[k]
    BY <1>0, JoinCells
  <2> HIDE DEF y
  <2> QED BY <1>1, <1>2, <2>1
<1>4. v \in Seq(Nat) /\ Len(v) = n + 1 /\ \A k \in 1..(n + 1) : v[k] = 2 * k
  <2>1. n + 1 \in Nat
    OBVIOUS
  <2> QED BY <2>1, ItemEndsCells
<1> HIDE DEF y, v
<1>5. y # <<>>
  BY <1>3
<1>6. /\ Ends(y) \in Seq(Nat) /\ Len(Ends(y)) = n + 1
      /\ \A k \in 1..(n + 1) : Ends(y)[k] = y[k + 1]
  <2>1. Len(y) - 1 = n + 1
    BY <1>3
  <2> QED BY <1>3, <1>5, <2>1, EndsOfIndex
<1>7. ASSUME NEW k \in 1..(n + 1) PROVE Ends(y)[k] = v[k]
  <2>1. CASE k = n + 1
    BY <1>3, <1>4, <1>6, <2>1
  <2>2. CASE k \in 1..n
    <3>1. k + 1 \in 1..(n + 1)
      BY <2>2
    <3> QED BY <1>2, <1>3, <1>4, <1>6, <2>2, <3>1
  <2> QED BY <2>1, <2>2
<1>8. Ends(y) = v
  BY <1>4, <1>6, <1>7, SameCells
<1> QED BY <1>8 DEF y, v, d

(* The first append makes the index of a list of one item.                 *)
LEMMA FirstIndex == IndexFile(<<Magic, 2>>) /\ Ends(<<Magic, 2>>) = ItemEnds(1)
<1>1. IndexFile(<<Magic>>)
  BY DEF IndexFile, Magic
<1>2. Ends(<<Magic>>) = ItemEnds(0)
  <2>1. Ends(<<Magic>>) = <<>>
    BY EmptySlice DEF Ends
  <2>2. ItemEnds(0) \in Seq(Nat) /\ Len(ItemEnds(0)) = 0
    BY ItemEndsCells
  <2> QED BY <2>1, <2>2
<1>3. <<Magic>> \o <<2 * 0 + 2>> = <<Magic, 2>>
  <2>1. 2 * 0 + 2 = 2
    OBVIOUS
  <2> QED BY <2>1, JoinTwo
<1>4. Ends(<<Magic, 2>>) = ItemEnds(0 + 1)
  BY <1>1, <1>2, <1>3, IndexExtends
<1>5. IndexFile(<<Magic, 2>>)
  BY DEF IndexFile, Magic
<1> QED BY <1>4, <1>5

(* What append may leave: everything, nothing, or a part of it.            *)
LEMMA AppendOutcomes ==
  ASSUME NEW f, NEW data, NEW o \in appendTo(f, data)
  PROVE  \/ o.file = data /\ o.res = "ok" /\ o.pos = 0
         \/ f # NoFile /\ o.file = f \o data /\ o.res \in {"ok", "close"} /\ o.pos = SizeOf(f)
         \/ o.file = f /\ o.res = "fail"
         \/ /\ f # NoFile /\ o.res \in {"raise", "crash"} /\ o.pos = SizeOf(f)
            /\ \E k \in 0..Len(data) : o.file = f \o SubSeq(data, 1, k)
<1> DEFINE opened == lc_atomic_append(f, data) \cup {[file |-> f \o data, res |-> "close"]}
<1>1. CASE \E r \in atomic_store(f, data) : o = [file |-> r.file, res |-> r.res, pos |-> 0]
  <2>1. PICK r \in atomic_store(f, data) : o = [file |-> r.file, res |-> r.res, pos |-> 0]
    BY <1>1
  <2>2. o.file = r.file /\ o.res = r.res /\ o.pos = 0
    BY <2>1
  <2>3. \/ r.file = data /\ r.res = "ok"
        \/ r.file = f /\ r.res = "fail"
    BY DEF atomic_store
  <2> QED BY <2>2, <2>3
<1>2. CASE f # NoFile /\ \E r \in opened : o = [file |-> r.file, res |-> r.res, pos |-> SizeOf(f)]
  <2>1. PICK r \in opened : o = [file |-> r.file, res |-> r.res, pos |-> SizeOf(f)]
    BY <1>2
  <2>2. o.file = r.file /\ o.res = r.res /\ o.pos = SizeOf(f)
    BY <2>1
  <2>3. \/ r = [file |-> f \o data, res |-> "ok"]
        \/ r = [file |-> f \o data, res |-> "close"]
        \/ r = [file |-> f, res |-> "fail"]
        \/ \E k \in 0..Len(data), z \in {"raise", "crash"} : r = [file |-> f \o SubSeq(data, 1, k), res |-> z]
    <3> DEFINE part == {[file |-> f \o SubSeq(data, 1, k), res |-> z]
                          : k \in 0..Len(data), z \in {"raise", "crash"}}
    <3>1. opened = ({[file |-> f \o data, res |-> "ok"], [file |-> f, res |-> "fail"]} \cup part)
                     \cup {[file |-> f \o data, res |-> "close"]}
      BY DEF lc_atomic_append
    <3>2. ASSUME r \in part
          PROVE  \E k \in 0..Len(data), z \in {"raise", "crash"} :
                    r = [file |-> f \o SubSeq(data, 1, k), res |-> z]
      BY <3>2
    <3> HIDE DEF opened, part
    <3> QED BY <3>1, <3>2
  <2>4. \/ r.file = f \o data /\ r.res \in {"ok", "close"}
        \/ r.file = f /\ r.res = "fail"
        \/ r.res \in {"raise", "crash"} /\ \E k \in 0..Len(data) : r.file = f \o SubSeq(data, 1, k)
    <3>1. CASE \E k \in 0..Len(data), z \in {"raise", "crash"} : r = [file |-> f \o SubSeq(data, 1, k), res |-> z]
      <4>1. PICK k \in 0..Len(data), z \in {"raise", "crash"} : r = [file |-> f \o SubSeq(data, 1, k), res |-> z]
        BY <3>1
      <4>2. r.file = f \o SubSeq(data, 1, k) /\ r.res = z
        BY <4>1
      <4> QED BY <4>2
    <3>2. CASE r = [file |-> f \o data, res |-> "ok"] \/ r = [file |-> f \o data, res |-> "close"]
      BY <3>2
    <3>3. CASE r = [file |-> f, res |-> "fail"]
      BY <3>3
    <3> HIDE DEF opened
    <3> QED BY <2>3, <3>1, <3>2, <3>3
  <2> HIDE DEF opened
  <2> QED BY <1>2, <2>2, <2>4
<1>3. \/ \E r \in atomic_store(f, data) : o = [file |-> r.file, res |-> r.res, pos |-> 0]
      \/ f # NoFile /\ \E r \in opened : o = [file |-> r.file, res |-> r.res, pos |-> SizeOf(f)]
  <2>1. o \in {[file |-> r.file, res |-> r.res, pos |-> 0] : r \in atomic_store(f, data)}
          \cup IF f = NoFile THEN {}
               ELSE {[file |-> r.file, res |-> r.res, pos |-> SizeOf(f)] : r \in opened}
    BY DEF appendTo
  <2> HIDE DEF opened
  <2>2. CASE o \in {[file |-> r.file, res |-> r.res, pos |-> 0] : r \in atomic_store(f, data)}
    BY <2>2
  <2>3. CASE f # NoFile /\ o \in {[file |-> r.file, res |-> r.res, pos |-> SizeOf(f)] : r \in opened}
    BY <2>3
  <2> QED BY <2>1, <2>2, <2>3
<1> QED BY <1>1, <1>2, <1>3

(* The size of a list of whole items, and what loading it gives.           *)
LEMMA ListFacts ==
  ASSUME list = NoFile \/ Stored(list)
  PROVE  /\ Items(list) \in Seq(Entry) /\ Len(Items(list)) \in Nat
         /\ SizeOf(list) = 2 * Len(Items(list))
         /\ list = NoFile => Items(list) = <<>>
         /\ list # NoFile => list = Encode(Items(list)) /\ list \in Seq(Nat)
<1>1. CASE list = NoFile
  <2>1. Items(list) = <<>> /\ SizeOf(list) = 0
    BY <1>1 DEF Items, SizeOf
  <2> QED BY <1>1, <2>1
<1>2. CASE Stored(list)
  <2>1. Items(list) \in Seq(Entry) /\ list = Encode(Items(list))
    BY <1>2 DEF Stored
  <2>2. /\ Encode(Items(list)) \in Seq(Nat) /\ Encode(Items(list)) # NoFile
        /\ Len(Encode(Items(list))) = 2 * Len(Items(list))
    BY <2>1, EncodeCells, ItemsEncode
  <2>3. list # NoFile /\ list \in Seq(Nat) /\ SizeOf(list) = 2 * Len(Items(list))
    BY <2>1, <2>2 DEF SizeOf
  <2> QED BY <2>1, <2>3
<1> QED BY <1>1, <1>2

(* An untorn list.append leaves the list as it was or with the item, or    *)
(* with nothing but the item, and goes on to the index only in the last    *)
(* two cases.                                                              *)
LEMMA AppendEffect ==
  ASSUME NEW x \in Entry, list_append(x), ~torn, list = NoFile \/ Stored(list), ~torn'
  PROVE  \/ list' = list /\ step' = "idle"
         \/ /\ list' = Encode(Append(Items(list), x)) /\ Append(Items(list), x) \in Seq(Entry)
            /\ step' \in {"index", "idle"}
            /\ step' = "idle" /\ ~skew' => ~Usable(lidx)
            /\ step' = "index" => offset' = 2 * Len(Items(list))
         \/ list' = Encode(<<x>>) /\ step' = "index" /\ replaced' /\ offset' = 0
<1> DEFINE s == Items(list)
           d == <<x, Eol>>
           w == Append(s, x)
<1>1. PICK o \in appendTo(list, d) :
        /\ list' = o.file /\ step' = IF o.res = "ok" THEN "index" ELSE "idle"
        /\ offset' = IF o.res = "ok" THEN o.pos ELSE 0
        /\ replaced' = (o.res = "ok" /\ o.pos # SizeOf(list))
        /\ torn' = (torn \/ (o.res \in {"raise", "crash"} /\ SizeOf(o.file) = SizeOf(list) + 1))
        /\ skew' = (StillBehind \/ (o.res # "ok" /\ o.file # list /\ Usable(lidx)))
  BY DEF list_append
<1>2. /\ s \in Seq(Entry) /\ Len(s) \in Nat /\ SizeOf(list) = 2 * Len(s)
      /\ list # NoFile => list = Encode(s) /\ list \in Seq(Nat)
      /\ list = NoFile => s = <<>>
  BY ListFacts
<1>3. w \in Seq(Entry) /\ Encode(s) \o d = Encode(w)
  BY <1>2, EncodeAppend
<1>4. Encode(<<>>) = <<>> /\ <<>> \in Seq(Entry)
  <2>1. <<>> \in Seq(Entry)
    OBVIOUS
  <2> QED BY <2>1, EncodeEmpty
<1>5. d \in Seq(Nat) /\ Len(d) = 2 /\ <<>> \o d = d
  BY ListBounds DEF Eol
<1>6. list # NoFile => Encode(w) # list
  <2>0. Len(w) = Len(s) + 1
    BY <1>2
  <2> HIDE DEF s, w
  <2>1. Len(Encode(w)) = 2 * Len(w) /\ Len(Encode(s)) = 2 * Len(s) /\ Len(w) = Len(s) + 1
    BY <1>2, <1>3, <2>0, EncodeCells
  <2>2. 2 * Len(w) # 2 * Len(s)
    BY <1>2, <2>1
  <2> QED BY <1>2, <2>1, <2>2
<1>7. CASE o.file = d /\ o.res = "ok" /\ o.pos = 0
  <2>1. d = Encode(<<x>>)
    <3>1. Append(<<>>, x) = <<x>>
      OBVIOUS
    <3> QED BY <1>4, <1>5, <3>1, EncodeAppend
  <2>2. list' = Encode(<<x>>) /\ step' = "index" /\ offset' = 0 /\ replaced' = (0 # SizeOf(list))
    BY <1>1, <1>7, <2>1
  <2>3. CASE Len(s) = 0
    <3>1. s = <<>> /\ w = <<x>> /\ 0 = 2 * Len(s)
      BY <1>2, <2>3
    <3> QED BY <1>3, <2>2, <3>1
  <2>4. CASE Len(s) # 0
    <3>1. 0 # SizeOf(list)
      BY <1>2, <2>4
    <3> QED BY <2>2, <3>1
  <2> QED BY <2>3, <2>4
<1>8. CASE list # NoFile /\ o.file = list \o d /\ o.res \in {"ok", "close"} /\ o.pos = SizeOf(list)
  <2>1. o.file = Encode(w)
    BY <1>2, <1>3, <1>8
  <2>2. step' = "index" => offset' = 2 * Len(s)
    BY <1>1, <1>2, <1>8
  <2> HIDE DEF s, w, d
  <2> QED BY <1>1, <1>3, <1>6, <1>8, <2>1, <2>2 DEF s, w
<1>9. CASE o.file = list /\ o.res = "fail"
  BY <1>1, <1>9
<1>10. CASE /\ list # NoFile /\ o.res \in {"raise", "crash"}
            /\ \E k \in 0..Len(d) : o.file = list \o SubSeq(d, 1, k)
  <2>1. PICK k \in 0..2 : o.file = list \o SubSeq(d, 1, k)
    BY <1>5, <1>10
  <2>2. list \in Seq(Nat)
    BY <1>2, <1>10
  <2>3. CASE k = 0
    <3>1. SubSeq(d, 1, 0) = <<>>
      BY EmptySlice
    <3>2. list \o <<>> = list
      BY <2>2
    <3>3. o.file = list
      BY <2>1, <2>3, <3>1, <3>2
    <3> QED BY <1>1, <1>10, <3>3
  <2>4. CASE k = 1
    <3>1. 1 \in 1..(Len(d) + 1) /\ 1 \in (1 - 1)..Len(d)
      BY <1>5
    <3>2. SubSeq(d, 1, 1) \in Seq(Nat) /\ Len(SubSeq(d, 1, 1)) = 1
      BY <1>5, <3>1, SliceCells
    <3>3. o.file \in Seq(Nat) /\ Len(o.file) = Len(list) + 1 /\ Len(list) \in Nat
      BY <2>1, <2>2, <2>4, <3>2, JoinCells
    <3>4. o.file # NoFile
      BY <3>3 DEF NoFile
    <3>5. SizeOf(o.file) = SizeOf(list) + 1
      BY <1>10, <3>3, <3>4 DEF SizeOf
    <3> QED BY <1>1, <1>10, <3>5
  <2>5. CASE k = 2
    <3>1. 1 \in 1..(Len(d) + 1) /\ 2 \in (1 - 1)..Len(d)
      BY <1>5
    <3>2. /\ SubSeq(d, 1, 2) \in Seq(Nat) /\ Len(SubSeq(d, 1, 2)) = 2
          /\ \A i \in 1..2 : SubSeq(d, 1, 2)[i] = d[i]
      <4>1. /\ SubSeq(d, 1, 2) \in Seq(Nat) /\ Len(SubSeq(d, 1, 2)) = 2 - 1 + 1
            /\ \A i \in 1..(2 - 1 + 1) : SubSeq(d, 1, 2)[i] = d[1 + i - 1]
        BY <1>5, <3>1, SliceCells
      <4>2. 2 - 1 + 1 = 2 /\ \A i \in 1..2 : 1 + i - 1 = i
        OBVIOUS
      <4> HIDE DEF d
      <4> QED BY <4>1, <4>2
    <3>3. SubSeq(d, 1, 2) = d
      BY <1>5, <3>2, SameCells
    <3>4. o.file = Encode(w)
      BY <1>2, <1>3, <1>10, <2>1, <2>5, <3>3
    <3> QED BY <1>1, <1>3, <1>6, <1>10, <3>4
  <2> QED BY <2>3, <2>4, <2>5
<1>11. \/ o.file = d /\ o.res = "ok" /\ o.pos = 0
       \/ /\ list # NoFile /\ o.file = list \o d /\ o.res \in {"ok", "close"}
          /\ o.pos = SizeOf(list)
       \/ o.file = list /\ o.res = "fail"
       \/ /\ list # NoFile /\ o.res \in {"raise", "crash"}
          /\ \E k \in 0..Len(d) : o.file = list \o SubSeq(d, 1, k)
  BY AppendOutcomes
<1> QED BY <1>7, <1>8, <1>9, <1>10, <1>11

(* The invariant of the next state is its three parts.                     *)
LEMMA ListParts ==
  ASSUME IndexGone', WholeFiles', IndexAgrees' PROVE ListInv'
BY DEF ListInv

(* list_append, the list file: the invariant is kept.                      *)
LEMMA ListAppendInv ==
  ASSUME ListInv, NEW x \in Entry, list_append(x)
  PROVE  ListInv'
<1>1. /\ step = "idle" /\ before' = Items(list) /\ after' = Append(Items(list), x)
      /\ lidx' = lidx /\ scratch' = scratch
      /\ step' \in {"index", "idle"} /\ (torn => torn')
      /\ (~skew' => ~skew \/ lidx = NoFile)
  BY DEF list_append, StillBehind
<1>2. IndexGone'
  <2>1. torn' \in BOOLEAN /\ skew' \in BOOLEAN
    BY DEF list_append
  <2> QED BY <1>1, <2>1 DEF IndexGone
<1>3. CASE torn'
  BY <1>2, <1>3, ListParts DEF WholeFiles, IndexAgrees
<1>4. CASE ~torn'
  <2> DEFINE s == Items(list)
             w == Append(s, x)
  <2>1. ~torn /\ (list = NoFile \/ Stored(list)) /\ (lidx = NoFile \/ IndexFile(lidx))
    BY <1>1, <1>4 DEF ListInv, WholeFiles
  <2>2. s \in Seq(Entry) /\ Len(s) \in Nat /\ SizeOf(list) = 2 * Len(s)
    BY <2>1, ListFacts
  <2>3. Len(w) = Len(s) + 1 /\ w # <<>> /\ w[Len(w)] = x
    BY <2>2
  <2>4. CASE list' = list /\ step' = "idle"
    <3>1. WholeFiles'
      BY <1>1, <2>1, <2>4 DEF WholeFiles
    <3>2. ~skew' /\ Usable(lidx) => Ends(lidx) = ItemEnds(Len(Items(list)))
      BY <1>1, <2>1 DEF ListInv, IndexAgrees, Usable
    <3>3. IndexAgrees'
      BY <1>1, <2>4, <3>2 DEF IndexAgrees
    <3> QED BY <1>2, <3>1, <3>3, ListParts
  <2>5. CASE /\ list' = Encode(w) /\ w \in Seq(Entry) /\ step' \in {"index", "idle"}
             /\ step' = "idle" /\ ~skew' => ~Usable(lidx)
             /\ step' = "index" => offset' = 2 * Len(s)
    <3>1. Stored(list') /\ Items(list') = w
      BY <2>5, ItemsEncode
    <3>2. Len(w) - 1 = Len(s)
      BY <2>2, <2>3
    <3>3. WholeFiles'
      <4>1. step' = "index" => offset' = 2 * (Len(Items(list')) - 1) /\ Items(list') # <<>>
        BY <2>3, <2>5, <3>1, <3>2
      <4> QED BY <1>1, <2>1, <2>5, <3>1, <4>1 DEF WholeFiles
    <3>4. ~skew' /\ Usable(lidx) => Ends(lidx) = ItemEnds(Len(s))
      BY <1>1, <2>1 DEF ListInv, IndexAgrees, Usable
    <3>5. Len(Items(list')) - 1 = Len(s)
      BY <3>1, <3>2
    <3>6. IndexAgrees'
      BY <1>1, <2>5, <3>1, <3>4, <3>5 DEF IndexAgrees
    <3> QED BY <1>2, <3>3, <3>6, ListParts
  <2>6. CASE list' = Encode(<<x>>) /\ step' = "index" /\ replaced' /\ offset' = 0
    <3>1. <<x>> \in Seq(Entry) /\ Len(<<x>>) = 1 /\ <<x>> # <<>>
      OBVIOUS
    <3>2. Stored(list') /\ Items(list') = <<x>>
      BY <2>6, <3>1, ItemsEncode
    <3>3. Alone'
      BY <1>1, <2>3, <2>6, <3>2 DEF Alone
    <3>4. offset' = 2 * (Len(Items(list')) - 1) /\ Items(list') # <<>>
      <4>1. Len(Items(list')) = 1 /\ Items(list') # <<>> /\ 2 * (1 - 1) = 0
        BY <3>1, <3>2
      <4> QED BY <2>6, <4>1
    <3> HIDE DEF s, w
    <3>5. WholeFiles'
      <4>1. step' \notin {"rename", "drop"} /\ step' = "index"
        BY <2>6
      <4>2. lidx' = NoFile \/ IndexFile(lidx')
        BY <1>1, <2>1
      <4> QED BY <3>2, <3>3, <3>4, <4>1, <4>2 DEF WholeFiles
    <3>6. IndexAgrees'
      BY <1>1, <2>6, <3>3 DEF IndexAgrees
    <3> QED BY <1>2, <3>5, <3>6, ListParts
  <2>7. \/ list' = list /\ step' = "idle"
        \/ /\ list' = Encode(w) /\ w \in Seq(Entry) /\ step' \in {"index", "idle"}
           /\ step' = "idle" /\ ~skew' => ~Usable(lidx)
           /\ step' = "index" => offset' = 2 * Len(s)
        \/ list' = Encode(<<x>>) /\ step' = "index" /\ replaced' /\ offset' = 0
    BY <1>4, <2>1, AppendEffect
  <2> QED BY <2>4, <2>5, <2>6, <2>7
<1> QED BY <1>3, <1>4

(* What list_append writes to the index.                                   *)
LEMMA IndexData ==
  ASSUME NEW n \in Nat \ {0}, offset = 2 * (n - 1)
  PROVE  LET data == (IF offset = 0 THEN <<Magic>> ELSE <<>>) \o <<offset + 2>>
         IN /\ data \in Seq(Nat) /\ data # <<>> /\ \A k \in 1..Len(data) : data[k] % 2 = 0
            /\ IndexFile(data)
            /\ offset = 0 => n = 1 /\ data = <<Magic, 2>>
            /\ offset # 0 => data = <<2 * (n - 1) + 2>>
<1> DEFINE data == (IF offset = 0 THEN <<Magic>> ELSE <<>>) \o <<offset + 2>>
<1>1. offset + 2 = 2 * n /\ n \in Nat /\ (2 * n) % 2 = 0 /\ 2 * n \in Nat
  BY CellOfItem
<1>2. CASE offset = 0
  <2>1. n = 1 /\ offset + 2 = 2
    BY <1>2
  <2>2. data = <<Magic, 2>>
    BY <1>2, <2>1, JoinTwo
  <2>3. Magic \in Nat /\ Magic % 2 = 0 /\ 2 % 2 = 0
    BY DEF Magic
  <2>4. /\ <<Magic, 2>> \in Seq(Nat) /\ <<Magic, 2>> # <<>> /\ Len(<<Magic, 2>>) = 2
        /\ <<Magic, 2>>[1] = Magic /\ <<Magic, 2>>[2] = 2
    BY <2>3
  <2>5. \A k \in 1..2 : <<Magic, 2>>[k] % 2 = 0
    BY <2>3, <2>4
  <2>6. data \in Seq(Nat) /\ data # <<>> /\ Len(data) = 2 /\ \A k \in 1..2 : data[k] % 2 = 0
    BY <2>2, <2>4, <2>5
  <2>7. IndexFile(data)
    BY <2>2, FirstIndex
  <2> HIDE DEF data
  <2> QED BY <1>2, <2>1, <2>2, <2>6, <2>7 DEF data
<1>3. CASE offset # 0
  <2>1. data = <<offset + 2>>
    BY <1>3, JoinTwo
  <2>2. data \in Seq(Nat) /\ data # <<>> /\ Len(data) = 1 /\ data[1] = 2 * n
    BY <1>1, <2>1
  <2>3. \A k \in 1..Len(data) : data[k] % 2 = 0
    BY <1>1, <2>2
  <2>4. IndexFile(data)
    BY <2>2 DEF IndexFile
  <2> HIDE DEF data
  <2> QED BY <1>3, <2>1, <2>2, <2>3, <2>4 DEF data
<1> QED BY <1>2, <1>3

(* Whatever comes of writing it, the index is gone or has even entries.    *)
LEMMA IndexWritten ==
  ASSUME NEW data \in Seq(Nat), \A k \in 1..Len(data) : data[k] % 2 = 0, IndexFile(data),
         lidx = NoFile \/ IndexFile(lidx), NEW o \in appendTo(lidx, data)
  PROVE  /\ o.file = NoFile \/ IndexFile(o.file)
         /\ o.res \in {"raise", "crash"} => lidx # NoFile /\ o.pos = SizeOf(lidx)
         /\ o.res = "ok" => \/ o.file = data /\ o.pos = 0
                            \/ lidx # NoFile /\ o.file = lidx \o data /\ o.pos = SizeOf(lidx)
<1>1. \/ o.file = data /\ o.res = "ok" /\ o.pos = 0
      \/ /\ lidx # NoFile /\ o.file = lidx \o data /\ o.res \in {"ok", "close"}
         /\ o.pos = SizeOf(lidx)
      \/ o.file = lidx /\ o.res = "fail"
      \/ /\ lidx # NoFile /\ o.res \in {"raise", "crash"} /\ o.pos = SizeOf(lidx)
         /\ \E k \in 0..Len(data) : o.file = lidx \o SubSeq(data, 1, k)
  BY AppendOutcomes
<1>2. CASE o.file = data /\ o.res = "ok" /\ o.pos = 0
  BY <1>2
<1>3. CASE /\ lidx # NoFile /\ o.file = lidx \o data /\ o.res \in {"ok", "close"}
           /\ o.pos = SizeOf(lidx)
  <2>1. IndexFile(lidx \o data)
    BY <1>3, IndexGrows
  <2> QED BY <1>3, <2>1
<1>4. CASE o.file = lidx /\ o.res = "fail"
  BY <1>4
<1>5. CASE /\ lidx # NoFile /\ o.res \in {"raise", "crash"} /\ o.pos = SizeOf(lidx)
           /\ \E k \in 0..Len(data) : o.file = lidx \o SubSeq(data, 1, k)
  <2>1. PICK k \in 0..Len(data) : o.file = lidx \o SubSeq(data, 1, k)
    BY <1>5
  <2> DEFINE part == SubSeq(data, 1, k)
  <2>2. part \in Seq(Nat) /\ \A i \in 1..Len(part) : part[i] % 2 = 0
    <3>1. Len(data) \in Nat /\ 1 \in 1..(Len(data) + 1) /\ k \in (1 - 1)..Len(data)
      OBVIOUS
    <3>2. /\ part \in Seq(Nat) /\ Len(part) = k - 1 + 1
          /\ \A i \in 1..(k - 1 + 1) : part[i] = data[1 + i - 1]
      BY <3>1, SliceCells
    <3>3. k - 1 + 1 = k /\ \A i \in 1..k : 1 + i - 1 = i /\ i \in 1..Len(data)
      BY <3>1
    <3> HIDE DEF part
    <3> QED BY <3>2, <3>3
  <2> HIDE DEF part
  <2>3. IndexFile(lidx \o part)
    BY <1>5, <2>2, IndexGrows
  <2> QED BY <1>5, <2>1, <2>3 DEF part
<1> QED BY <1>1, <1>2, <1>3, <1>4, <1>5

(* list_append, the index file: the invariant is kept.                     *)
LEMMA ListAppendIndexInv ==
  ASSUME ListInv, list_append_index
  PROVE  ListInv'
<1> DEFINE data == (IF offset = 0 THEN <<Magic>> ELSE <<>>) \o <<offset + 2>>
           n == Len(Items(list))
<1>1. PICK o \in appendTo(lidx, data) :
        /\ lidx' = o.file
        /\ \/ /\ o.res = "ok" /\ ~Mismatch(o.pos) /\ step' = "idle" /\ before' = after
              /\ UNCHANGED <<torn, skew>>
           \/ /\ o.res \in {"fail", "close"} \/ (o.res = "ok" /\ Mismatch(o.pos))
              /\ step' = "drop" /\ UNCHANGED <<before, torn, skew>>
           \/ /\ o.res \in {"raise", "crash"} /\ step' = "idle" /\ torn' \in {torn, TRUE}
              /\ skew' = (skew \/ (Usable(o.file) /\ (Mismatch(o.pos) \/ o.file # lidx \o data)))
              /\ UNCHANGED before
  BY DEF list_append_index
<1>2. step = "index" /\ UNCHANGED <<list, scratch, after, replaced>>
  BY DEF list_append_index
<1>3. step' \in {"idle", "drop"} /\ (torn => torn') /\ (skew => skew') /\ before' \in {before, after}
  <2>1. torn \in BOOLEAN /\ skew \in BOOLEAN
    BY DEF ListInv, IndexGone
  <2> HIDE DEF data
  <2> QED BY <1>1, <2>1
<1>4. IndexGone'
  <2>1. torn' \in BOOLEAN /\ skew' \in BOOLEAN
    BY <1>1 DEF ListInv, IndexGone
  <2> QED BY <1>3, <2>1 DEF IndexGone
<1>5. CASE torn'
  BY <1>4, <1>5, ListParts DEF WholeFiles, IndexAgrees
<1>6. CASE ~torn'
  <2>1. /\ ~torn /\ Stored(list) /\ (lidx = NoFile \/ IndexFile(lidx))
        /\ (after = Items(list) \/ Alone) /\ offset = 2 * (n - 1) /\ Items(list) # <<>>
    BY <1>2, <1>3, <1>6 DEF ListInv, WholeFiles
  <2>2. n \in Nat \ {0}
    <3>1. Items(list) \in Seq(Entry)
      BY <2>1 DEF Stored
    <3> QED BY <2>1, <3>1
  <2>3. /\ data \in Seq(Nat) /\ data # <<>> /\ (\A k \in 1..Len(data) : data[k] % 2 = 0)
        /\ IndexFile(data)
        /\ offset = 0 => n = 1 /\ data = <<Magic, 2>>
        /\ offset # 0 => data = <<2 * (n - 1) + 2>>
    BY <2>1, <2>2, IndexData
  <2> HIDE DEF data, n
  <2>4. /\ o.file = NoFile \/ IndexFile(o.file)
        /\ o.res \in {"raise", "crash"} => lidx # NoFile /\ o.pos = SizeOf(lidx)
        /\ o.res = "ok" => \/ o.file = data /\ o.pos = 0
                           \/ lidx # NoFile /\ o.file = lidx \o data /\ o.pos = SizeOf(lidx)
    BY <2>1, <2>3, IndexWritten
  <2>0. Alone' <=> Alone
    BY <1>2 DEF Alone
  <2>5. WholeFiles'
    BY <1>1, <1>2, <1>3, <2>0, <2>1, <2>4 DEF WholeFiles
  <2>6. ASSUME ~skew', Usable(lidx'), step' = "idle" PROVE Ends(lidx') = ItemEnds(n)
    <3>1. /\ ~skew /\ ~Mismatch(o.pos)
          /\ \/ lidx' = data /\ o.pos = 0
             \/ lidx # NoFile /\ lidx' = lidx \o data /\ o.pos = SizeOf(lidx)
      <4>1. ~skew
        BY <1>3, <2>6
      <4>2. CASE o.res = "ok"
        BY <1>1, <2>4, <2>6, <4>1, <4>2
      <4>3. CASE o.res \in {"raise", "crash"}
        <5>1. skew' = (skew \/ (Usable(o.file) /\ (Mismatch(o.pos) \/ o.file # lidx \o data)))
          BY <1>1, <2>6, <4>3
        <5> QED BY <1>1, <2>4, <2>6, <4>1, <4>3, <5>1
      <4> QED BY <1>1, <2>6, <4>2, <4>3
    <3>2. CASE lidx' = data /\ o.pos = 0
      <4>1. offset = 0
        BY <3>1, <3>2 DEF Mismatch
      <4> QED BY <2>3, <3>2, <4>1, FirstIndex
    <3>3. CASE lidx # NoFile /\ lidx' = lidx \o data /\ o.pos = SizeOf(lidx)
      <4>1. IndexFile(lidx)
        BY <2>1, <3>3
      <4>2. offset # 0
        <5>1. lidx \in Seq(Nat) /\ lidx # <<>>
          BY <4>1 DEF IndexFile
        <5>2. SizeOf(lidx) # 0
          BY <3>3, <5>1 DEF SizeOf
        <5> QED BY <3>1, <3>3, <5>2 DEF Mismatch
      <4>3. (lidx \o data)[1] = lidx[1]
        BY <2>3, <4>1, IndexGrows
      <4>4. Usable(lidx)
        BY <2>6, <3>3, <4>1, <4>3 DEF Usable, IndexFile
      <4>5. Ends(lidx) = ItemEnds(n - 1)
        <5>1. ~Alone
          <6>1. n # 1
            BY <2>1, <4>2
          <6>2. Alone => n = 1
            BY DEF Alone, n
          <6> QED BY <6>1, <6>2
        <5> QED BY <1>2, <2>1, <3>1, <4>4, <5>1 DEF ListInv, IndexAgrees, n
      <4>6. n - 1 \in Nat /\ (n - 1) + 1 = n
        BY <2>2
      <4>7. Ends(lidx \o <<2 * (n - 1) + 2>>) = ItemEnds((n - 1) + 1)
        BY <4>1, <4>5, <4>6, IndexExtends
      <4> QED BY <2>3, <3>3, <4>2, <4>6, <4>7
    <3> QED BY <3>1, <3>2, <3>3
  <2>7. IndexAgrees'
    BY <1>2, <1>3, <2>0, <2>1, <2>6 DEF IndexAgrees, n
  <2> QED BY <1>4, <2>5, <2>7, ListParts
<1> QED BY <1>5, <1>6

(* list_append, dropping the index: the invariant is kept.                 *)
LEMMA ListAppendDropInv ==
  ASSUME ListInv, list_append_drop
  PROVE  ListInv'
<1>1. /\ step = "drop" /\ lidx' = NoFile /\ step' = "idle" /\ before' = after
      /\ UNCHANGED <<list, offset, scratch, after, replaced, torn, skew>>
  BY DEF list_append_drop
<1>2. IndexGone'
  BY <1>1 DEF ListInv, IndexGone
<1>3. WholeFiles'
  BY <1>1 DEF ListInv, WholeFiles
<1>4. ~Usable(NoFile)
  BY DEF Usable
<1>5. IndexAgrees'
  BY <1>1, <1>4 DEF ListInv, WholeFiles, IndexAgrees, Alone
<1> QED BY <1>2, <1>3, <1>5, ListParts

(* list_store, dropping the index: the invariant is kept.                  *)
LEMMA ListStoreInv ==
  ASSUME ListInv, NEW s \in {<<>>} \cup {<<x, y>> : x, y \in Entry}, list_store(s)
  PROVE  ListInv'
<1>1. /\ step = "idle" /\ before' = Items(list) /\ after' = s
      /\ lidx' = NoFile /\ step' = "store" /\ scratch' = Encode(s) /\ skew' = StillBehind
      /\ UNCHANGED <<list, offset, torn>>
  BY DEF list_store, Begin
<1>2. s \in Seq(Entry)
  <2>1. CASE s = <<>>
    BY <2>1
  <2>2. ASSUME NEW x \in Entry, NEW y \in Entry, s = <<x, y>> PROVE s \in Seq(Entry)
    BY <2>2
  <2> QED BY <2>1, <2>2
<1>3. IndexGone'
  BY <1>1, <1>2 DEF ListInv, IndexGone, StillBehind
<1>4. WholeFiles'
  BY <1>1 DEF ListInv, WholeFiles
<1>5. ~Usable(NoFile)
  BY DEF Usable
<1>6. IndexAgrees'
  BY <1>1, <1>5 DEF IndexAgrees
<1> QED BY <1>3, <1>4, <1>6, ListParts

(* list_store, replacing the list: the invariant is kept.                  *)
LEMMA ListStoreListInv ==
  ASSUME ListInv, list_store_list
  PROVE  ListInv'
<1>1. PICK o \in atomic_store(list, scratch) :
        /\ list' = o.file
        /\ step' = IF o.res = "ok" /\ scratch = <<>> THEN "unlink" ELSE "idle"
        /\ before' = IF o.res = "ok" THEN after ELSE before
        /\ torn' = (torn /\ o.res = "fail")
  BY DEF list_store_list
<1>2. step = "store" /\ scratch' = <<>> /\ UNCHANGED <<lidx, offset, after, replaced, skew>>
  BY DEF list_store_list
<1>3. /\ lidx = NoFile /\ after \in Seq(Entry) /\ scratch = Encode(after)
      /\ torn \in BOOLEAN /\ skew \in BOOLEAN
  BY <1>2 DEF ListInv, IndexGone
<1>4. IndexGone'
  BY <1>1, <1>2, <1>3 DEF IndexGone
<1>5. ~Usable(NoFile)
  BY DEF Usable
<1>6. CASE o.file = scratch /\ o.res = "ok"
  <2>1. Stored(list') /\ Items(list') = after
    BY <1>1, <1>3, <1>6, ItemsEncode
  <2>2. WholeFiles'
    BY <1>1, <1>2, <1>3, <1>6, <2>1 DEF WholeFiles
  <2>3. scratch = <<>> => after = <<>>
    BY <1>3, EncodeEmpty
  <2>4. IndexAgrees'
    BY <1>1, <1>2, <1>3, <1>5, <1>6, <2>1, <2>3 DEF IndexAgrees
  <2> QED BY <1>4, <2>2, <2>4, ListParts
<1>7. CASE o.file = list /\ o.res = "fail"
  <2>1. UNCHANGED <<list, before, torn>> /\ step' = "idle"
    BY <1>1, <1>3, <1>7
  <2>2. WholeFiles'
    BY <1>2, <2>1 DEF ListInv, WholeFiles
  <2>3. IndexAgrees'
    BY <1>2, <1>3, <1>5, <2>1 DEF ListInv, IndexAgrees, Alone
  <2> QED BY <1>4, <2>2, <2>3, ListParts
<1> QED BY <1>6, <1>7 DEF atomic_store

(* Unlinking an empty list: the invariant is kept.                         *)
LEMMA UnlinkInv ==
  ASSUME ListInv, Unlink
  PROVE  ListInv'
<1>1. /\ step = "unlink" /\ list' = NoFile /\ step' = "idle" /\ before' = after
      /\ UNCHANGED <<lidx, offset, scratch, after, replaced, torn, skew>>
  BY DEF Unlink
<1>2. lidx = NoFile
  BY <1>1 DEF ListInv, IndexGone
<1>3. IndexGone'
  BY <1>1 DEF ListInv, IndexGone
<1>4. WholeFiles'
  BY <1>1 DEF ListInv, WholeFiles
<1>5. ~Usable(NoFile) /\ Items(NoFile) = <<>>
  BY DEF Usable, Items
<1>6. IndexAgrees'
  BY <1>1, <1>2, <1>5 DEF ListInv, IndexAgrees
<1> QED BY <1>3, <1>4, <1>6, ListParts

(* list_open, building an index: the invariant is kept.                    *)
LEMMA ListOpenInv ==
  ASSUME ListInv, list_open
  PROVE  ListInv'
<1>1. /\ step = "idle" /\ before' = Items(list) /\ after' = Items(list)
      /\ list # NoFile /\ lidx' = store_list_index(list)
      /\ skew' = StillBehind
      /\ UNCHANGED <<list, step, offset, scratch, torn>>
  BY DEF list_open, Begin
<1>2. IndexGone'
  BY <1>1 DEF ListInv, IndexGone, StillBehind
<1>3. CASE torn
  BY <1>1, <1>2, <1>3, ListParts DEF WholeFiles, IndexAgrees
<1>4. CASE ~torn
  <2>1. Stored(list) /\ (lidx = NoFile \/ IndexFile(lidx))
    BY <1>1, <1>4 DEF ListInv, WholeFiles
  <2>2. Items(list) \in Seq(Entry) /\ list = Encode(Items(list))
    BY <2>1 DEF Stored
  <2>3. /\ IndexFile(store_list_index(list))
        /\ Ends(store_list_index(list)) = ItemEnds(Len(Items(list)))
    BY <2>2, StoredIndex
  <2>4. WholeFiles'
    BY <1>1, <2>1, <2>3 DEF WholeFiles
  <2>5. IndexAgrees'
    BY <1>1, <2>3 DEF IndexAgrees
  <2> QED BY <1>2, <2>4, <2>5, ListParts
<1> QED BY <1>3, <1>4

(* list_shift, the copy and the index: the invariant is kept.              *)
LEMMA ListShiftInv ==
  ASSUME ListInv, NEW trim_to \in 2..MaxEntries, list_shift(trim_to)
  PROVE  ListInv'
<1> DEFINE s == Items(list)
<1>1. /\ step = "idle" /\ before' = s /\ after' = SubSeq(s, trim_to, Len(s))
      /\ list # NoFile /\ skew' = StillBehind /\ UNCHANGED <<list, offset, torn>>
  BY DEF list_shift, Begin
<1>2. PICK x \in get_list_index :
        \/ trim_to > Len(x.ends) /\ lidx' = NoFile /\ step' = "unlink" /\ scratch' = scratch
        \/ /\ trim_to <= Len(x.ends) /\ scratch' = SubSeq(list, x.ends[trim_to - 1] + 1, Len(list))
           /\ lidx' = NoFile /\ step' = "rename"
        \/ /\ trim_to <= Len(x.ends) /\ UNCHANGED <<step, scratch>>
           /\ lidx' \in {lidx, store_list_index(list)}
  BY DEF list_shift
<1> DEFINE ends == x.ends
<1>0. ends = build_list_index(list) \/ (Usable(lidx) /\ ends = Ends(lidx))
  BY DEF get_list_index
<1>3. IndexGone'
  <2> HIDE DEF ends
  <2> QED BY <1>1, <1>2 DEF ListInv, IndexGone, StillBehind
<1>4. CASE torn
  BY <1>1, <1>3, <1>4, ListParts DEF WholeFiles, IndexAgrees
<1>5. CASE ~torn
  <2>1. Stored(list) /\ (lidx = NoFile \/ IndexFile(lidx))
    BY <1>1, <1>5 DEF ListInv, WholeFiles
  <2>2. s \in Seq(Entry) /\ list = Encode(s) /\ Len(s) \in Nat
    BY <2>1 DEF Stored
  <2>3. ends = ItemEnds(Len(s)) \/ (Usable(lidx) /\ ends = Ends(lidx))
    BY <1>0, <2>2, BuildsItemEnds
  <2>4. ends \in Seq(Nat) /\ \A k \in 1..Len(ends) : ends[k] % 2 = 0
    <3>1. CASE ends = ItemEnds(Len(s))
      BY <2>2, <3>1, ItemEndsCells
    <3>2. CASE Usable(lidx) /\ ends = Ends(lidx)
      <4>1. lidx \in Seq(Nat) /\ lidx # <<>> /\ \A k \in 2..Len(lidx) : lidx[k] % 2 = 0
        BY <2>1, <3>2 DEF Usable, IndexFile
      <4>2. /\ Ends(lidx) \in Seq(Nat) /\ Len(Ends(lidx)) = Len(lidx) - 1 /\ Len(lidx) \in Nat \ {0}
            /\ \A k \in 1..(Len(lidx) - 1) : Ends(lidx)[k] = lidx[k + 1]
        BY <4>1, EndsOfIndex
      <4>3. \A k \in 1..(Len(lidx) - 1) : k + 1 \in 2..Len(lidx)
        BY <4>2
      <4> QED BY <3>2, <4>1, <4>2, <4>3
    <3> QED BY <2>3, <3>1, <3>2
  <2>5. ~skew' => ends = ItemEnds(Len(s))
    BY <1>1, <1>5, <2>3 DEF ListInv, IndexAgrees, StillBehind, Usable
  <2>6. trim_to \in Nat /\ trim_to >= 2
    BY ListBounds
  <2> HIDE DEF ends
  <2>7. Len(ends) \in Nat /\ (~skew' => Len(ends) = Len(s) /\ \A k \in 1..Len(s) : ends[k] = 2 * k)
    <3>1. Len(ends) \in Nat
      BY <2>4
    <3>2. /\ Len(ItemEnds(Len(s))) = Len(s)
          /\ \A k \in 1..Len(s) : ItemEnds(Len(s))[k] = 2 * k
      BY <2>2, ItemEndsCells
    <3> QED BY <2>5, <3>1, <3>2
  <2>8. CASE trim_to > Len(ends) /\ lidx' = NoFile /\ step' = "unlink" /\ scratch' = scratch
    <3>1. ~skew' => after' = <<>>
      BY <1>1, <2>2, <2>6, <2>7, <2>8, EmptySlice
    <3>2. WholeFiles'
      BY <1>1, <2>1, <2>8 DEF WholeFiles
    <3>3. ~Usable(NoFile)
      BY DEF Usable
    <3>4. IndexAgrees'
      BY <1>1, <2>8, <3>1, <3>3 DEF IndexAgrees
    <3> QED BY <1>3, <3>2, <3>4, ListParts
  <2>9. CASE /\ trim_to <= Len(ends) /\ scratch' = SubSeq(list, ends[trim_to - 1] + 1, Len(list))
             /\ lidx' = NoFile /\ step' = "rename"
    <3>1. trim_to - 1 \in 1..Len(ends)
      BY <2>6, <2>7, <2>9
    <3>2. ends[trim_to - 1] \in Nat /\ ends[trim_to - 1] % 2 = 0
      BY <2>4, <3>1
    <3>3. PICK m \in Nat : ends[trim_to - 1] = 2 * m
      BY <3>2
    <3>4. /\ SubSeq(s, m + 1, Len(s)) \in Seq(Entry)
          /\ scratch' = Encode(SubSeq(s, m + 1, Len(s)))
      BY <2>2, <2>9, <3>3, EncodeCut
    <3>5. Stored(scratch')
      BY <3>4, ItemsEncode
    <3>6. ~skew' => m + 1 = trim_to
      BY <2>6, <2>7, <3>1, <3>3
    <3>7. WholeFiles'
      BY <1>1, <2>1, <2>9, <3>5 DEF WholeFiles
    <3>8. ~Usable(NoFile)
      BY DEF Usable
    <3>9. IndexAgrees'
      BY <1>1, <2>9, <3>4, <3>6, <3>8 DEF IndexAgrees
    <3> QED BY <1>3, <3>7, <3>9, ListParts
  <2>10. CASE /\ trim_to <= Len(ends) /\ UNCHANGED <<step, scratch>>
              /\ lidx' \in {lidx, store_list_index(list)}
    <3>1. /\ IndexFile(store_list_index(list))
          /\ Ends(store_list_index(list)) = ItemEnds(Len(s))
      BY <2>2, StoredIndex
    <3>2. WholeFiles'
      BY <1>1, <2>1, <2>10, <3>1 DEF WholeFiles
    <3>3. ~skew' /\ Usable(lidx) => Ends(lidx) = ItemEnds(Len(s))
      BY <1>1, <1>5 DEF ListInv, IndexAgrees, StillBehind, Usable
    <3>4. IndexAgrees'
      BY <1>1, <2>10, <3>1, <3>3 DEF IndexAgrees
    <3> QED BY <1>3, <3>2, <3>4, ListParts
  <2> QED BY <1>2, <2>8, <2>9, <2>10 DEF ends
<1>6. torn \in BOOLEAN
  BY DEF ListInv, IndexGone
<1> QED BY <1>4, <1>5, <1>6

(* list_shift, taking the list's place: the invariant is kept.             *)
LEMMA ListShiftRenameInv ==
  ASSUME ListInv, list_shift_rename
  PROVE  ListInv'
<1>1. /\ step = "rename" /\ step' = "idle"
      /\ \/ list' = scratch /\ before' = after
         \/ list' = list /\ before' = before
      /\ UNCHANGED <<lidx, offset, after, replaced, torn, skew>>
  BY DEF list_shift_rename
<1>2. lidx = NoFile
  BY <1>1 DEF ListInv, IndexGone
<1>3. IndexGone'
  BY <1>1 DEF ListInv, IndexGone
<1>4. WholeFiles'
  BY <1>1 DEF ListInv, WholeFiles
<1>5. ~Usable(NoFile)
  BY DEF Usable
<1>6. ~torn /\ ~skew => Items(scratch) = after
  BY <1>1, ItemsEncode DEF ListInv, IndexAgrees
<1>7. IndexAgrees'
  BY <1>1, <1>2, <1>5, <1>6 DEF ListInv, IndexAgrees, Alone
<1> QED BY <1>3, <1>4, <1>7, ListParts

(* A restart in the middle of a function: the invariant is kept.           *)
LEMMA ListRestartInv ==
  ASSUME ListInv, Restart
  PROVE  ListInv'
<1>1. /\ step # "idle" /\ step' = "idle"
      /\ skew' = (skew \/ (step \in {"index", "drop"} /\ Usable(lidx)))
      /\ UNCHANGED <<list, lidx, before, after, replaced, torn>>
  BY DEF Restart
<1>2. IndexGone'
  BY <1>1 DEF ListInv, IndexGone
<1>3. WholeFiles'
  BY <1>1 DEF ListInv, WholeFiles
<1>4. IndexAgrees'
  <2>1. skew \in BOOLEAN
    BY DEF ListInv, IndexGone
  <2>2. ~skew' => ~skew /\ (Usable(lidx) => step \notin {"index", "drop"})
    BY <1>1, <2>1
  <2> QED BY <1>1, <2>2 DEF ListInv, IndexAgrees, Alone
<1> QED BY <1>2, <1>3, <1>4, ListParts

(* The invariant holds of a store that does not exist yet.                 *)
LEMMA ListInitInv == ListInit => ListInv
<1> SUFFICES ASSUME ListInit PROVE ListInv
  OBVIOUS
<1>1. ~Usable(NoFile) /\ Items(NoFile) = <<>>
  BY DEF Usable, Items
<1> QED BY <1>1 DEF ListInit, ListInv, IndexGone, WholeFiles, IndexAgrees

(* For any items, any length of the list and any failure or restart: both  *)
(* files hold whole entries until a write is cut off and not taken back,   *)
(* and a usable index has the end of every item until an append was not    *)
(* told to it.                                                             *)
THEOREM AlwaysListInv == ListSpec => []ListInv
<1>1. ListInv /\ [ListNext]_listVars => ListInv'
  <2> SUFFICES ASSUME ListInv, [ListNext]_listVars PROVE ListInv'
    OBVIOUS
  <2>1. CASE UNCHANGED listVars
    BY <2>1 DEF listVars, ListInv, IndexGone, WholeFiles, IndexAgrees, Alone
  <2>2. CASE ListNext
    BY <2>2, ListAppendInv, ListAppendIndexInv, ListAppendDropInv, ListStoreInv, ListStoreListInv,
       UnlinkInv, ListOpenInv, ListShiftInv, ListShiftRenameInv, ListRestartInv DEF ListNext
  <2> QED BY <2>1, <2>2
<1> QED BY <1>1, ListInitInv, PTL DEF ListSpec

(* Whatever step of list_append, list_store or list_shift fails and        *)
(* wherever the process dies, the list holds whole items: those from       *)
(* before the function or those it was to leave, unless a fragment could   *)
(* not be taken back or a stale index was used.                            *)
THEOREM AllOrNothingHolds == ListSpec => []AllOrNothing
<1>1. ListInv => AllOrNothing
  BY DEF ListInv, WholeFiles, IndexAgrees, AllOrNothing, Whole, Stored
<1> QED BY <1>1, AlwaysListInv, PTL

(* Reading the list through its index gives what loading the list gives,   *)
(* unless a fragment was left in a file or the index has missed an item.   *)
THEOREM ReadsAgreeHolds == ListSpec => []ReadsAgree
<1>1. ASSUME ListInv PROVE ReadsAgree
  <2> SUFFICES ASSUME ~torn, ~skew, step \notin {"index", "drop"}, Usable(lidx)
               PROVE  /\ Len(Ends(lidx)) = Len(Items(list))
                      /\ \A i \in 1..Len(Ends(lidx)) : OpenedItem(i) = Items(list)[i]
    BY DEF ReadsAgree
  <2> DEFINE s == Items(list)
  <2>1. /\ list = NoFile \/ Stored(list)
        /\ IndexFile(lidx) /\ Ends(lidx) = ItemEnds(Len(s))
    BY <1>1 DEF ListInv, WholeFiles, IndexAgrees, Usable
  <2>2. /\ s \in Seq(Entry) /\ Len(s) \in Nat /\ (list = NoFile => s = <<>>)
        /\ list # NoFile => list = Encode(s)
    BY <2>1, ListFacts
  <2>3. Len(Ends(lidx)) = Len(s) /\ \A i \in 1..Len(s) : Ends(lidx)[i] = 2 * i
    BY <2>1, <2>2, ItemEndsCells, ZenonT(60)
  <2>4. ASSUME NEW i \in 1..Len(s) PROVE OpenedItem(i) = s[i]
    <3>1. list = Encode(s)
      BY <2>2
    <3>2. lidx \in Seq(Nat) /\ lidx # <<>>
      BY <2>1 DEF IndexFile
    <3>3. Len(lidx) = Len(s) + 1 /\ lidx[i + 1] = 2 * i /\ i \in 1..Len(lidx)
      <4>1. /\ Len(Ends(lidx)) = Len(lidx) - 1 /\ Len(lidx) \in Nat \ {0}
            /\ \A k \in 1..(Len(lidx) - 1) : Ends(lidx)[k] = lidx[k + 1]
        BY <3>2, EndsOfIndex
      <4>2. Len(lidx) - 1 = Len(s)
        BY <2>3, <4>1
      <4>3. lidx[i + 1] = 2 * i
        BY <2>3, <4>1, <4>2
      <4>4. \A a, b \in Nat : a - 1 = b => a = b + 1 /\ 1..b \subseteq 1..a
        OBVIOUS
      <4>5. Len(lidx) = Len(s) + 1 /\ 1..Len(s) \subseteq 1..Len(lidx)
        BY <2>2, <4>1, <4>2, <4>4
      <4> QED BY <4>3, <4>5
    <3> DEFINE start == IF i = 1 THEN 0 ELSE lidx[i]
    <3>4. start \in Nat
      <4>1. \A k \in 1..Len(lidx) : lidx[k] \in Nat
        BY <3>2
      <4>2. i \in 1..Len(lidx)
        BY <3>3
      <4>3. lidx[i] \in Nat /\ 0 \in Nat
        BY <4>1, <4>2
      <4> QED BY <4>3
    <3>5. OpenedItem(i) = list[start + (lidx[i + 1] - start) - 1]
      BY DEF OpenedItem, list_load_one
    <3> HIDE DEF start
    <3>6. start + (lidx[i + 1] - start) - 1 = 2 * i - 1
      BY <3>3, <3>4
    <3>7. Encode(s)[2 * i - 1] = s[i]
      BY <2>2, EncodeCells
    <3> QED BY <3>1, <3>5, <3>6, <3>7
  <2> QED BY <2>3, <2>4
<1> QED BY <1>1, AlwaysListInv, PTL
-----------------------------------------------------------------------------
(* SMQUEUE.                                                                *)

(* Popping down to n keeps the newest n elements in place. *)
LEMMA LastNProperties ==
  ASSUME NEW s \in Seq(Stanza), NEW n \in Nat
  PROVE  /\ LastN(s, n) \in Seq(Stanza)
         /\ Len(LastN(s, n)) = Min2(Len(s), n)
         /\ \A i \in 1..Len(LastN(s, n)) : LastN(s, n)[i] = s[Len(s) - Len(LastN(s, n)) + i]
<1>1. CASE Len(s) <= n
  BY <1>1 DEF LastN, Min2
<1>2. CASE Len(s) > n
  <2>1. LastN(s, n) = SubSeq(s, Len(s) - n + 1, Len(s))
    BY <1>2 DEF LastN
  <2>2. /\ LastN(s, n) \in Seq(Stanza) /\ Len(LastN(s, n)) = n
        /\ \A i \in 1..n : LastN(s, n)[i] = s[(Len(s) - n + 1) + i - 1]
    BY <1>2, <2>1
  <2> QED BY <1>2, <2>2 DEF Min2
<1> QED BY <1>1, <1>2

(* Tail drops the oldest element and shifts the others down. *)
LEMMA TailItems ==
  ASSUME NEW s \in Seq(Stanza), s # <<>>
  PROVE  /\ Tail(s) \in Seq(Stanza) /\ Len(Tail(s)) = Len(s) - 1
         /\ \A i \in 1..Len(Tail(s)) : Tail(s)[i] = s[i + 1]
OBVIOUS

(* A new smqueue satisfies the invariant.                                  *)
LEMMA SmqInitInv == SmqInit => SmqInv
BY QueueSizeAssumption, MaxPushAssumption
DEF SmqInit, SmqInv, NewQueue, SmqTypeOK, CountersOrdered, HeldCount, HeldAreNewest,
    CountUnacked, Min2

(* u is the end of s; what HeldAreNewest says of the queue and of sent. *)
EndOf(u, s) ==
  Len(u) <= Len(s) /\ \A i \in 1..Len(u) : u[i] = s[Len(s) - Len(u) + i]

(* A suffix without its first element is a suffix (oldest dropped).        *)
LEMMA EndsTail ==
  ASSUME NEW s \in Seq(Stanza), NEW u \in Seq(Stanza), u # <<>>, EndOf(u, s)
  PROVE  EndOf(Tail(u), s)
<1>1. /\ Tail(u) \in Seq(Stanza) /\ Len(Tail(u)) = Len(u) - 1
      /\ \A i \in 1..Len(Tail(u)) : Tail(u)[i] = u[i + 1]
  BY TailItems
<1>2. Len(u) \in Nat /\ Len(s) \in Nat
  OBVIOUS
<1>3. ASSUME NEW i \in 1..Len(Tail(u))
      PROVE  Tail(u)[i] = s[Len(s) - Len(Tail(u)) + i]
  <2>1. i + 1 \in 1..Len(u) /\ Len(s) - Len(u) + (i + 1) = Len(s) - Len(Tail(u)) + i
    BY <1>1, <1>2
  <2> QED BY <1>1, <2>1 DEF EndOf
<1> QED BY <1>1, <1>2, <1>3 DEF EndOf

(* Pushing extends both the history and its suffix.                        *)
LEMMA EndsAppend ==
  ASSUME NEW s \in Seq(Stanza), NEW u \in Seq(Stanza), NEW v \in Stanza, EndOf(u, s)
  PROVE  EndOf(Append(u, v), Append(s, v))
<1>1. Len(u) \in Nat /\ Len(s) \in Nat /\ Len(u) <= Len(s)
  BY DEF EndOf
<1>2. Len(Append(u, v)) = Len(u) + 1 /\ Len(Append(s, v)) = Len(s) + 1
  OBVIOUS
<1>3. ASSUME NEW i \in 1..(Len(u) + 1)
      PROVE  Append(u, v)[i] = Append(s, v)[(Len(s) + 1) - (Len(u) + 1) + i]
  <2>1. CASE i = Len(u) + 1
    <3>1. (Len(s) + 1) - (Len(u) + 1) + i = Len(s) + 1
      BY <1>1, <2>1
    <3> QED BY <2>1, <3>1
  <2>2. CASE i \in 1..Len(u)
    <3>1. /\ (Len(s) + 1) - (Len(u) + 1) + i = Len(s) - Len(u) + i
          /\ Len(s) - Len(u) + i \in 1..Len(s)
      BY <1>1, <2>2
    <3>2. u[i] = s[Len(s) - Len(u) + i]
      BY <2>2 DEF EndOf
    <3>3. Append(u, v)[i] = u[i] /\ Append(s, v)[Len(s) - Len(u) + i] = s[Len(s) - Len(u) + i]
      BY <2>2, <3>1
    <3> QED BY <3>1, <3>2, <3>3
  <2> QED BY <1>1, <2>1, <2>2
<1>4. Len(u) + 1 <= Len(s) + 1
  BY <1>1
<1> QED BY <1>2, <1>3, <1>4 DEF EndOf

(* The newest n of a suffix are a suffix (ack pops the old end).           *)
LEMMA EndsLastN ==
  ASSUME NEW s \in Seq(Stanza), NEW u \in Seq(Stanza), NEW n \in Nat, EndOf(u, s)
  PROVE  EndOf(LastN(u, n), s)
<1> DEFINE w == LastN(u, n)
<1>1. /\ w \in Seq(Stanza) /\ Len(w) = Min2(Len(u), n)
      /\ \A i \in 1..Len(w) : w[i] = u[Len(u) - Len(w) + i]
  BY LastNProperties
<1> HIDE DEF w
<1>2. Len(u) \in Nat /\ Len(s) \in Nat /\ Len(w) \in Nat /\ Len(u) <= Len(s)
  BY <1>1 DEF EndOf
<1>3. Len(w) <= Len(u)
  BY <1>1, <1>2 DEF Min2
<1>4. ASSUME NEW i \in 1..Len(w)
      PROVE  w[i] = s[Len(s) - Len(w) + i]
  <2>1. /\ Len(u) - Len(w) + i \in 1..Len(u)
        /\ Len(s) - Len(u) + (Len(u) - Len(w) + i) = Len(s) - Len(w) + i
    BY <1>2, <1>3
  <2>2. u[Len(u) - Len(w) + i] = s[Len(s) - Len(u) + (Len(u) - Len(w) + i)]
    BY <2>1 DEF EndOf
  <2> QED BY <1>1, <2>1, <2>2
<1>5. Len(w) <= Len(s)
  BY <1>2, <1>3
<1>6. EndOf(w, s)
  BY <1>4, <1>5 DEF EndOf
<1> QED BY <1>6 DEF w

(* What the invariant says of a state, with every number's type spelled out. *)
LEMMA InvFacts ==
  ASSUME SmqInv
  PROVE  /\ q = [head |-> q.head, tail |-> q.tail, queue |-> q.queue]
         /\ q.head \in 0..MaxPush /\ q.tail \in 0..MaxPush /\ q.queue \in Seq(Stanza)
         /\ sent \in Seq(Stanza) /\ drained \in 0..MaxPush
         /\ Len(sent) \in Nat /\ Len(q.queue) \in Nat
         /\ q.head = Len(sent) /\ q.tail <= q.head /\ drained <= q.head
         /\ Len(q.queue) = Min2(QueueSize, Min2(q.head - q.tail, q.head - drained))
         /\ EndOf(q.queue, sent)
<1> USE QueueSizeAssumption, MaxPushAssumption
<1>1. /\ q \in [head : 0..MaxPush, tail : 0..MaxPush, queue : Seq(Stanza)]
      /\ sent \in Seq(Stanza) /\ drained \in 0..MaxPush
      /\ q.head = Len(sent) /\ q.tail <= q.head /\ drained <= q.head
      /\ Len(q.queue) = Min2(QueueSize, Min2(q.head - q.tail, q.head - drained))
      /\ \A i \in 1..Len(q.queue) : q.queue[i] = sent[Len(sent) - Len(q.queue) + i]
  BY DEF SmqInv, SmqTypeOK, CountersOrdered, HeldCount, HeldAreNewest, CountUnacked
<1>2. /\ q = [head |-> q.head, tail |-> q.tail, queue |-> q.queue]
      /\ q.head \in 0..MaxPush /\ q.tail \in 0..MaxPush /\ q.queue \in Seq(Stanza)
  BY <1>1
<1>3. Len(q.queue) \in Nat /\ Len(sent) \in Nat
  BY <1>1, <1>2
<1>4. Len(q.queue) <= Len(sent)
  BY <1>1, <1>2, <1>3 DEF Min2
<1> QED BY <1>1, <1>2, <1>3, <1>4 DEF EndOf

(* The invariant of the next state from its parts. *)
LEMMA SmqNextInv ==
  ASSUME NEW hd \in 0..MaxPush, NEW tl \in 0..MaxPush, NEW u \in Seq(Stanza),
         q' = [head |-> hd, tail |-> tl, queue |-> u],
         sent' \in Seq(Stanza), drained' \in 0..MaxPush,
         acked' \in Seq(Stanza), err' \in {"none", "head", "tail"},
         hd = Len(sent'), tl <= hd, drained' <= hd,
         Len(u) = Min2(QueueSize, Min2(hd - tl, hd - drained')), EndOf(u, sent')
  PROVE  SmqInv'
<1>1. SmqTypeOK'
  <2>1. q' \in [head : 0..MaxPush, tail : 0..MaxPush, queue : Seq(Stanza)]
    OBVIOUS
  <2> QED BY <2>1 DEF SmqTypeOK
<1>2. q'.head = hd /\ q'.tail = tl /\ q'.queue = u
  OBVIOUS
<1>3. CountersOrdered' /\ HeldCount'
  BY <1>2 DEF CountersOrdered, HeldCount, CountUnacked
<1>4. HeldAreNewest'
  BY <1>2 DEF HeldAreNewest, EndOf
<1> QED BY <1>1, <1>3, <1>4 DEF SmqInv

(* smqueue:push keeps the invariant.                                       *)
LEMMA PushInv ==
  ASSUME SmqInv, NEW v \in Stanza, SmqPush(v)
  PROVE  SmqInv'
<1> USE QueueSizeAssumption, MaxPushAssumption
<1> DEFINE kept == IF Len(q.queue) >= QueueSize THEN Tail(q.queue) ELSE q.queue
           u == Append(kept, v)
<1>1. /\ Len(sent) < MaxPush /\ sent' = Append(sent, v) /\ drained' = drained
      /\ acked' = <<>> /\ err' = "none"
      /\ q' = [q EXCEPT !.head = q.head + 1, !.queue = u]
  BY DEF SmqPush, Push
<1>2. /\ kept \in Seq(Stanza) /\ EndOf(kept, sent)
      /\ Len(kept) = IF Len(q.queue) >= QueueSize THEN Len(q.queue) - 1 ELSE Len(q.queue)
  <2>1. CASE Len(q.queue) >= QueueSize
    <3>1. q.queue # <<>>
      BY <2>1, InvFacts
    <3> QED BY <2>1, <3>1, InvFacts, EndsTail, TailItems
  <2>2. CASE ~(Len(q.queue) >= QueueSize)
    BY <2>2, InvFacts
  <2> QED BY <2>1, <2>2
<1> HIDE DEF kept
<1>3. u \in Seq(Stanza) /\ Len(u) = Len(kept) + 1
  BY <1>2
<1>4. sent' \in Seq(Stanza) /\ Len(sent') = Len(sent) + 1
  BY <1>1, InvFacts
<1>5. EndOf(u, sent')
  BY <1>1, <1>2, InvFacts, EndsAppend
<1> HIDE DEF u
<1>6. q' = [head |-> q.head + 1, tail |-> q.tail, queue |-> u]
  BY <1>1, InvFacts
<1>7. q.head + 1 \in 0..MaxPush /\ drained' <= q.head + 1 /\ q.tail <= q.head + 1
  BY <1>1, InvFacts
<1>8. Len(u) = Min2(QueueSize, Min2((q.head + 1) - q.tail, (q.head + 1) - drained'))
  <2> DEFINE n == Len(q.queue)
             m == Len(u)
             h == q.head
             k == q.tail
             d == drained
  <2>1. /\ n \in Nat /\ k \in Nat /\ h \in Nat /\ d \in Nat /\ k <= h /\ d <= h
        /\ n = Min2(QueueSize, Min2(h - k, h - d))
    BY InvFacts
  <2>2. m \in Nat /\ m = (IF n >= QueueSize THEN n - 1 ELSE n) + 1
    BY <1>2, <1>3
  <2>3. drained' = d
    BY <1>1
  <2> HIDE DEF n, m, h, k, d
  <2>4. m = Min2(QueueSize, Min2((h + 1) - k, (h + 1) - d))
    BY <2>1, <2>2 DEF Min2
  <2> QED BY <2>3, <2>4 DEF m, h, k
<1>9. q.head + 1 = Len(sent')
  BY <1>4, InvFacts
<1>10. /\ acked' \in Seq(Stanza) /\ err' \in {"none", "head", "tail"}
       /\ drained' \in 0..MaxPush /\ q.tail \in 0..MaxPush
  BY <1>1, InvFacts
<1> QED BY <1>3, <1>4, <1>5, <1>6, <1>7, <1>8, <1>9, <1>10, SmqNextInv

(* smqueue:ack keeps the invariant, whatever h is.                         *)
LEMMA AckInv ==
  ASSUME SmqInv, NEW h \in 0..(MaxPush + 1), SmqAck(h)
  PROVE  SmqInv'
<1> USE QueueSizeAssumption, MaxPushAssumption
<1>1. UNCHANGED <<sent, drained>> /\ err' = AckError(q, h)
  BY DEF SmqAck
<1>2. err' \in {"none", "head", "tail"}
  BY <1>1 DEF AckError
<1>3. CASE err' = "none"
  <2> DEFINE u == LastN(q.queue, q.head - h)
  <2>1. q.tail <= h /\ h <= q.head
    <3>1. q.head \in Nat /\ q.tail \in Nat /\ h \in Nat BY InvFacts
    <3> QED BY <1>3, <1>1, <3>1 DEF AckError
  <2>2. /\ q' = [q EXCEPT !.tail = h, !.queue = u]
        /\ acked' = SubSeq(q.queue, 1, Len(q.queue) - Len(u))
    BY <1>3, InvFacts DEF SmqAck, Ack, AckedBy
  <2>3. q.head - h \in Nat
    BY <2>1, InvFacts
  <2>4. /\ u \in Seq(Stanza) /\ Len(u) = Min2(Len(q.queue), q.head - h) /\ EndOf(u, sent)
    BY <2>3, InvFacts, LastNProperties, EndsLastN
  <2> HIDE DEF u
  <2>5. Len(u) \in Nat /\ Len(u) <= Len(q.queue)
    <3>1. Len(q.queue) \in Nat BY InvFacts
    <3> QED BY <2>3, <2>4, <3>1 DEF Min2
  <2>6. acked' \in Seq(Stanza)
    <3>1. Len(q.queue) - Len(u) \in 0..Len(q.queue)
      BY <2>5, InvFacts
    <3>2. q.queue \in Seq(Stanza) BY InvFacts
    <3>3. SubSeq(q.queue, 1, Len(q.queue) - Len(u)) \in Seq(Stanza) BY ONLY <3>1, <3>2
    <3> QED BY <3>3, <2>2
  <2>7. q' = [head |-> q.head, tail |-> h, queue |-> u]
    BY <2>2, InvFacts
  <2>8. h \in 0..MaxPush
    <3>1. q.head \in 0..MaxPush BY InvFacts
    <3> QED BY <2>1, <3>1
  <2>9. Len(u) = Min2(QueueSize, Min2(q.head - h, q.head - drained'))
    <3> DEFINE n == Len(q.queue)
               m == Len(u)
               top == q.head
               k == q.tail
               d == drained
    <3>1. /\ n \in Nat /\ k \in Nat /\ top \in Nat /\ d \in Nat /\ d <= top
          /\ n = Min2(QueueSize, Min2(top - k, top - d))
      BY InvFacts
    <3>2. h \in Nat /\ k <= h /\ h <= top /\ m = Min2(n, top - h)
      BY <2>1, <2>4, <2>8
    <3>3. drained' = d
      BY <1>1
    <3> HIDE DEF n, m, top, k, d
    <3>4. m = Min2(QueueSize, Min2(top - h, top - d))
      BY <3>1, <3>2 DEF Min2
    <3> QED BY <3>3, <3>4 DEF m, top
  <2> QED BY <1>1, <1>2, <2>1, <2>4, <2>6, <2>7, <2>8, <2>9, InvFacts, SmqNextInv
<1>4. CASE err' # "none"
  <2>1. q' = q /\ acked' = <<>>
    BY <1>4 DEF SmqAck
  <2>2. q' = [head |-> q.head, tail |-> q.tail, queue |-> q.queue] /\ acked' \in Seq(Stanza)
    BY <2>1, InvFacts
  <2> QED BY <1>1, <1>2, <2>2, InvFacts, SmqNextInv
<1> QED BY <1>3, <1>4

(* Iterating with consume keeps the invariant.                             *)
LEMMA ConsumeInv ==
  ASSUME SmqInv, SmqConsume
  PROVE  SmqInv'
<1> USE QueueSizeAssumption, MaxPushAssumption
<1>1. /\ q' = [q EXCEPT !.queue = <<>>] /\ drained' = Len(sent) /\ acked' = <<>>
      /\ err' = "none" /\ sent' = sent
  BY DEF SmqConsume, Consume
<1>2. q' = [head |-> q.head, tail |-> q.tail, queue |-> <<>>]
  BY <1>1, InvFacts
<1>3. <<>> \in Seq(Stanza) /\ Len(<<>>) = 0 /\ EndOf(<<>>, sent)
  BY InvFacts DEF EndOf
<1>4. Len(<<>>) = Min2(QueueSize, Min2(q.head - q.tail, q.head - drained'))
  BY <1>1, <1>3, InvFacts DEF Min2
<1>5. drained' \in 0..MaxPush /\ drained' <= q.head
  BY <1>1, InvFacts
<1>6. acked' \in Seq(Stanza) /\ err' \in {"none", "head", "tail"} /\ sent' \in Seq(Stanza)
      /\ q.head = Len(sent')
  BY <1>1, InvFacts
<1> QED BY <1>1, <1>2, <1>3, <1>4, <1>5, <1>6, InvFacts, SmqNextInv

(* For every capacity: whatever the peer acknowledges, the queue holds     *)
(* exactly the newest unacknowledged stanzas, in order.                    *)
THEOREM SmqInvariant == SmqSpec => []SmqInv
<1>1. SmqInv /\ [SmqNext]_smqVars => SmqInv'
  <2> SUFFICES ASSUME SmqInv, [SmqNext]_smqVars PROVE SmqInv'
    OBVIOUS
  <2>1. CASE UNCHANGED smqVars
    BY <2>1 DEF smqVars, SmqInv, SmqTypeOK, CountersOrdered, HeldCount, HeldAreNewest, CountUnacked
  <2> QED BY <2>1, PushInv, AckInv, ConsumeInv DEF SmqNext
<1> QED BY <1>1, SmqInitInv, PTL DEF SmqSpec

(* A suffix, element by element, is the subsequence of the newest.         *)
LEMMA SubSeqIsSuffix ==
  ASSUME NEW s \in Seq(Stanza), NEW u \in Seq(Stanza), Len(u) <= Len(s),
         \A i \in 1..Len(u) : u[i] = s[Len(s) - Len(u) + i]
  PROVE  u = SubSeq(s, Len(s) - Len(u) + 1, Len(s))
OBVIOUS

(* For every capacity: a session that resumable() lets resume is resent    *)
(* all of its unacknowledged stanzas and nothing else, and resumption is   *)
(* refused only after an overflow or after the stanzas were given up.      *)
THEOREM ResumptionIsLossless == SmqSpec => []ResumeIsLossless
<1>1. SmqInv => ResumeIsLossless
  <2> SUFFICES ASSUME SmqInv PROVE ResumesAll /\ RefusalHasReason
    BY DEF ResumeIsLossless
  <2> USE QueueSizeAssumption, MaxPushAssumption
  <2>1. /\ q \in [head : 0..MaxPush, tail : 0..MaxPush, queue : Seq(Stanza)]
        /\ sent \in Seq(Stanza) /\ drained \in 0..MaxPush
        /\ q.head = Len(sent) /\ q.tail <= q.head /\ drained <= q.head
        /\ Len(q.queue) = Min2(QueueSize, Min2(q.head - q.tail, q.head - drained))
        /\ \A i \in 1..Len(q.queue) : q.queue[i] = sent[Len(sent) - Len(q.queue) + i]
    BY DEF SmqInv, SmqTypeOK, CountersOrdered, HeldCount, HeldAreNewest, CountUnacked
  <2>2. ResumesAll
    <3> SUFFICES ASSUME Resumable(q) PROVE q.queue = SubSeq(sent, q.tail + 1, q.head)
      BY DEF ResumesAll
    <3>1. Len(q.queue) = q.head - q.tail /\ Len(q.queue) <= Len(sent)
      BY <2>1 DEF Resumable, Min2
    <3>2. q.queue = SubSeq(sent, Len(sent) - Len(q.queue) + 1, Len(sent))
      BY <3>1, <2>1, SubSeqIsSuffix
    <3>3. Len(sent) - Len(q.queue) = q.tail
      BY <3>1, <2>1
    <3> QED BY <3>2, <3>3, <2>1
  <2>3. RefusalHasReason
    BY <2>1 DEF RefusalHasReason, Resumable, CountUnacked, Min2
  <2> QED BY <2>2, <2>3
<1> QED BY <1>1, SmqInvariant, PTL

(* What a slice of a sequence holds; empty when it ends before it starts.  *)
LEMMA SliceProperties ==
  ASSUME NEW s \in Seq(Stanza), NEW b \in 1..(Len(s) + 1), NEW e \in (b - 1)..Len(s)
  PROVE  /\ SubSeq(s, b, e) \in Seq(Stanza) /\ Len(SubSeq(s, b, e)) = e - b + 1
         /\ \A i \in 1..(e - b + 1) : SubSeq(s, b, e)[i] = s[b + i - 1]
OBVIOUS

(* A slice that ends before it starts is empty.                            *)
LEMMA SliceEmpty ==
  ASSUME NEW s, NEW b \in Int, NEW e \in Int, e < b
  PROVE  SubSeq(s, b, e) = <<>>
OBVIOUS

(* The first n elements of a suffix are what the history holds from where  *)
(* the suffix starts.                                                      *)
LEMMA PrefixOfSuffix ==
  ASSUME NEW s \in Seq(Stanza), NEW u \in Seq(Stanza), EndOf(u, s), NEW n \in 0..Len(u)
  PROVE  SubSeq(u, 1, n) = SubSeq(s, Len(s) - Len(u) + 1, Len(s) - Len(u) + n)
<1> DEFINE a == Len(s) - Len(u)
           x == SubSeq(u, 1, n)
           y == SubSeq(s, a + 1, a + n)
<1>1. Len(u) \in Nat /\ Len(s) \in Nat /\ Len(u) <= Len(s) /\ n \in Nat /\ n <= Len(u)
  BY DEF EndOf
<1>2. a \in Nat /\ a + n <= Len(s)
  BY <1>1
<1>3. x \in Seq(Stanza) /\ Len(x) = n /\ \A i \in 1..n : x[i] = u[i]
  BY <1>1
<1>4. \A i \in 1..Len(u) : u[i] = s[a + i]
  BY DEF EndOf
<1> HIDE DEF a
<1>5. y \in Seq(Stanza) /\ Len(y) = n /\ \A i \in 1..n : y[i] = s[a + i]
  <2>1. /\ a + 1 \in 1..(Len(s) + 1) /\ a + n \in ((a + 1) - 1)..Len(s)
        /\ (a + n) - (a + 1) + 1 = n /\ \A i \in 1..n : (a + 1) + i - 1 = a + i
    BY <1>1, <1>2
  <2>2. /\ y \in Seq(Stanza) /\ Len(y) = (a + n) - (a + 1) + 1
        /\ \A i \in 1..((a + n) - (a + 1) + 1) : y[i] = s[(a + 1) + i - 1]
    BY <2>1, SliceProperties
  <2> QED BY <2>1, <2>2
<1>6. \A i \in 1..n : x[i] = y[i]
  BY <1>1, <1>3, <1>4, <1>5
<1> HIDE DEF x, y
<1>7. x = y
  BY <1>1, <1>3, <1>5, <1>6
<1> QED BY <1>7 DEF x, y, a

(* For every capacity and every number the peer claims: an accepted ack    *)
(* returns exactly the newly acknowledged stanzas the queue still held,    *)
(* oldest first, and a refused one returns and changes nothing.            *)
THEOREM AckReturnsAckedHolds == SmqSpec => AckReturnsAcked
<1> USE QueueSizeAssumption, MaxPushAssumption
<1>1. ASSUME SmqInv, NEW h \in 0..(MaxPush + 1), SmqAck(h)
      PROVE  IF h \in q.tail..q.head
               THEN acked' = SubSeq(sent, q.head - Len(q.queue) + 1, h)
               ELSE q' = q /\ acked' = <<>>
  <2>1. CASE h \in q.tail..q.head
    <3> DEFINE u == LastN(q.queue, q.head - h)
               n == Len(q.queue) - Len(u)
    <3>1. q.tail <= h /\ h <= q.head /\ h \in Nat /\ q.head \in Nat /\ q.tail \in Nat
      BY <1>1, <2>1, InvFacts
    <3>2. AckError(q, h) = "none"
      BY <3>1 DEF AckError
    <3>3. acked' = SubSeq(q.queue, 1, n)
      BY <1>1, <3>2 DEF SmqAck, Ack, AckedBy
    <3>4. Len(u) = Min2(Len(q.queue), q.head - h)
      <4>1. q.queue \in Seq(Stanza) BY <1>1, InvFacts
      <4>2. q.head - h \in Nat BY <3>1
      <4> QED BY ONLY <4>1, <4>2, LastNProperties
    <3> HIDE DEF u
    <3>5. n \in 0..Len(q.queue)
      <4>1. Len(q.queue) \in Nat BY <1>1, InvFacts
      <4> QED BY <3>1, <3>4, <4>1 DEF Min2
    <3>6. acked' = SubSeq(sent, Len(sent) - Len(q.queue) + 1, Len(sent) - Len(q.queue) + n)
      BY <1>1, <3>3, <3>5, InvFacts, PrefixOfSuffix
    <3>7. CASE q.head - h <= Len(q.queue)
      <4>1. Len(sent) = q.head /\ Len(q.queue) \in Nat
        BY <1>1, InvFacts
      <4>2. Len(u) = q.head - h
        BY <3>1, <3>4, <3>7, <4>1 DEF Min2
      <4>3. Len(sent) - Len(q.queue) + n = h
        BY <3>1, <4>1, <4>2
      <4> QED BY <2>1, <3>6, <4>1, <4>3
    <3>8. CASE q.head - h > Len(q.queue)
      <4>0. Len(q.queue) \in Nat
        BY <1>1, InvFacts
      <4>4. Len(u) = Len(q.queue)
        BY <3>1, <3>4, <3>8, <4>0 DEF Min2
      <4>1. n = 0 /\ h < q.head - Len(q.queue) + 1 /\ q.head - Len(q.queue) \in Nat
        <5>1. n = 0 BY <4>0, <4>4
        <5>2. h < q.head - Len(q.queue) BY <3>1, <3>8, <4>0
        <5> QED BY <3>1, <4>0, <5>1, <5>2
      <4>2. acked' = <<>>
        BY <3>3, <4>1, SliceEmpty
      <4>3. SubSeq(sent, q.head - Len(q.queue) + 1, h) = <<>>
        BY <3>1, <4>1, SliceEmpty
      <4> QED BY <2>1, <4>2, <4>3
    <3>9. Len(q.queue) \in Nat
      BY <1>1, InvFacts
    <3> QED BY <3>1, <3>7, <3>8, <3>9
  <2>2. CASE h \notin q.tail..q.head
    <3>1. AckError(q, h) # "none"
      <4>1. q.head \in Nat /\ q.tail \in Nat /\ h \in Nat BY <1>1, InvFacts
      <4> QED BY <2>2, <4>1 DEF AckError
    <3> QED BY <1>1, <2>2, <3>1 DEF SmqAck
  <2> QED BY <2>1, <2>2
<1>2. SmqInv /\ [SmqNext]_smqVars =>
        [\A h \in 0..(MaxPush + 1) : SmqAck(h) =>
           IF h \in q.tail..q.head
             THEN acked' = SubSeq(sent, q.head - Len(q.queue) + 1, h)
             ELSE q' = q /\ acked' = <<>>]_smqVars
  BY <1>1
<1> QED BY <1>2, SmqInvariant, PTL DEF SmqSpec, AckReturnsAcked
=============================================================================
