------------------------------ MODULE ByteRing ------------------------------
(***************************************************************************)
(* util-src/ringbuffer.c: a byte buffer in a block of alen bytes.  rpos    *)
(* and wpos are where the next byte is read and written, blen is how many  *)
(* are stored.  The block is not cleared by rb_new, so it starts with      *)
(* arbitrary bytes, and consumed bytes stay in it.                         *)
(***************************************************************************)
EXTENDS Integers, Sequences

CONSTANTS Byte,      \* the values of a char
          Chunk,     \* non-empty strings that callers write and look for
          alen,      \* bytes allocated
          NoValue    \* nil, or no value at all

(* rb_new refuses sizes below 1. *)
ASSUME AlenAssumption == alen \in Nat \ {0}
ASSUME ByteAssumption == Byte \subseteq Nat /\ Chunk \subseteq Seq(Byte) \ {<<>>}
ASSUME NoValueAssumption == NoValue \notin Seq(Nat)

VARIABLES buffer, rpos, wpos, blen,
          out        \* what the last call returned; a boolean as <<0>> or <<1>>

brVars == <<buffer, rpos, wpos, blen, out>>

Index == 0..(alen - 1)

rb_new ==
  /\ buffer \in [Index -> Byte]
  /\ rpos = 0
  /\ wpos = 0
  /\ blen = 0
  /\ out = NoValue

modpos(p) == p % alen

(* The n bytes from the read position on, in the two pieces of rb_read.    *)
Leading(n) ==
  IF rpos + n > alen
  THEN [k \in 1..(alen - rpos) |-> buffer[rpos + k - 1]]
         \o [k \in 1..(n - (alen - rpos)) |-> buffer[k - 1]]
  ELSE [k \in 1..n |-> buffer[rpos + k - 1]]

Advance(n) ==
  /\ blen' = blen - n
  /\ rpos' = modpos(rpos + n)
  /\ wpos' = modpos(wpos)
  /\ UNCHANGED buffer

(* Mutant: `does it fit' ignores what is already stored. *)
rb_write_overrun(s) ==
  /\ Len(s) <= alen
  /\ buffer' = [p \in Index |->
                  LET k == (p - wpos) % alen IN IF k < Len(s) THEN s[k + 1] ELSE buffer[p]]
  /\ blen' = blen + Len(s)
  /\ wpos' = modpos(wpos + Len(s))
  /\ rpos' = modpos(rpos)
  /\ out' = <<Len(s)>>

(* writechar once per byte; as at most alen are written each index gets    *)
(* at most one of them, the k-th at wpos + k.                              *)
rb_write(s) ==
  \/ /\ Len(s) + blen > alen
     /\ out' = NoValue
     /\ UNCHANGED <<buffer, rpos, wpos, blen>>
  \/ /\ Len(s) + blen <= alen
     /\ buffer' = [p \in Index |->
                     LET k == (p - wpos) % alen IN IF k < Len(s) THEN s[k + 1] ELSE buffer[p]]
     /\ blen' = blen + Len(s)
     /\ wpos' = modpos(wpos + Len(s))
     /\ rpos' = modpos(rpos)
     /\ out' = <<Len(s)>>

rb_discard(r) ==
  \/ /\ r > blen
     /\ out' = <<0>>
     /\ UNCHANGED <<buffer, rpos, wpos, blen>>
  \/ /\ r <= blen
     /\ Advance(r)
     /\ out' = <<1>>

rb_read(r, peek) ==
  \/ /\ r > blen
     /\ out' = NoValue
     /\ UNCHANGED <<buffer, rpos, wpos, blen>>
  \/ /\ r <= blen
     /\ out' = Leading(r)
     /\ IF peek THEN UNCHANGED <<buffer, rpos, wpos, blen>> ELSE Advance(r)

(* The bytes from offset i on are those of s, wherever the content ends. *)
MatchAt(s, i) == \A j \in 1..Len(s) : buffer[(rpos + i + j - 1) % alen] = s[j]

(* find(s) returns m.  blen - l is unsigned: when s is longer than the     *)
(* content it wraps to a huge bound and the scan goes round the whole      *)
(* block, bytes outside the content included; when it matches nothing      *)
(* there the call practically never returns and no m satisfies this.       *)
find(s, m) ==
  LET starts == IF Len(s) <= blen THEN 0..(blen - Len(s)) ELSE Index
  IN \/ m = 0 /\ rpos = wpos
     \/ m = 0 /\ Len(s) <= blen /\ \A i \in starts : ~MatchAt(s, i)
     \/ /\ rpos # wpos
        /\ \E i \in starts : /\ MatchAt(s, i)
                             /\ \A k \in 0..(i - 1) : ~MatchAt(s, k)
                             /\ m = i + Len(s)

(* rb_find pushes the m > 0 that find returns, or nothing. *)
rb_find(s) == {m \in 1..(alen + Len(s)) : find(s, m)}

rb_readuntil(s) ==
  \/ find(s, 0) /\ out' = NoValue /\ UNCHANGED <<buffer, rpos, wpos, blen>>
  \/ \E m \in rb_find(s) : rb_read(m, FALSE)

RingCalls ==
  \/ \E s \in Chunk : rb_write(s) \/ rb_readuntil(s)
  \/ \E n \in 0..(alen + 1) : rb_discard(n) \/ \E peek \in BOOLEAN : rb_read(n, peek)

ByteRingSpec == rb_new /\ [][RingCalls]_brVars
-----------------------------------------------------------------------------
(* Calls that read without consuming.                                      *)

rb_length == blen
rb_size == alen
rb_free == alen - blen

(* An offset into the content as an index into the block; offset blen, the *)
(* end of the content, may come out as alen.                               *)
wrap_pos(idx) == IF idx + rpos > alen THEN idx - (alen - rpos) ELSE rpos + idx

(* Mutant: an end beyond the content is not cut off. *)
calc_splice_positions_uncut(start, end) ==
  LET s == IF start < 0 THEN 1 + start + blen ELSE start
      s1 == IF s <= 0 THEN 1 ELSE s
      e == IF end < 0 THEN 1 + end + blen ELSE end
  IN IF s1 > e \/ e > blen THEN <<>> ELSE <<wrap_pos(s1 - 1), wrap_pos(e)>>

(* The indices of the first byte and behind the last one, or nothing.      *)
calc_splice_positions(start, end) ==
  LET s == IF start < 0 THEN 1 + start + blen ELSE start
      s1 == IF s <= 0 THEN 1 ELSE s
      e == IF end < 0 THEN 1 + end + blen ELSE end
      e1 == IF e > blen THEN blen ELSE e
  IN IF s1 > e1 THEN <<>> ELSE <<wrap_pos(s1 - 1), wrap_pos(e1)>>

Bytes(p, q) == [k \in 1..(q - p) |-> buffer[p + k - 1]]

rb_sub(start, end) ==
  LET w == calc_splice_positions(start, end)
  IN IF w = <<>> THEN <<>>
     ELSE IF w[2] <= w[1] THEN Bytes(w[1], alen) \o Bytes(0, w[2])
     ELSE Bytes(w[1], w[2])

(* The same pieces, pushed byte by byte. *)
rb_byte(start, end) == rb_sub(start, end)
-----------------------------------------------------------------------------
(* The stored bytes, oldest first. *)
Content == [k \in 1..blen |-> buffer[(rpos + k - 1) % alen]]

(* The write position is blen bytes behind the read position, and all four *)
(* numbers stay inside the block.                                          *)
ByteRingInv ==
  /\ buffer \in [Index -> Byte]
  /\ rpos \in Index
  /\ wpos \in Index
  /\ blen \in 0..alen
  /\ wpos = (rpos + blen) % alen

(* For any sequence of calls the ring behaves as a FIFO of bytes: nothing  *)
(* stored is lost, overwritten or read twice when positions wrap, stale    *)
(* bytes of the block are never returned by read or readuntil, and         *)
(* readuntil consumes exactly up to the first match.                       *)
Stream == INSTANCE ByteStream WITH content <- Content
ImplementsStream == Stream!StreamSpec

(* string.sub(c, i, j), from the Lua manual: negative indices count from   *)
(* the end, then both are cut to the string.                               *)
StringSub(c, i, j) ==
  LET From1 == IF i < 0 THEN IF Len(c) + i + 1 > 1 THEN Len(c) + i + 1 ELSE 1
               ELSE IF i = 0 THEN 1 ELSE i
      To1 == IF j < 0 THEN Len(c) + j + 1 ELSE IF j > Len(c) THEN Len(c) ELSE j
  IN SubSeq(c, From1, To1)

(* sub and byte agree with string.sub and string.byte of the content for   *)
(* every start and end, also outside the content and across the wrap       *)
(* ("buffer:sub does not match string:sub()" in the unit test, which tries *)
(* one state of one buffer); and a needle that fits into the content of a  *)
(* buffer that is not full is found where it first occurs.                 *)
ViewsMatchContent ==
  /\ LET c == Content
         around == -(alen + 1)..(alen + 1)
     IN \A i \in around : /\ rb_byte(i, i) = StringSub(c, i, i)
                           /\ \A j \in around : rb_sub(i, j) = StringSub(c, i, j)
  /\ \A s \in Chunk :
       Len(s) <= blen /\ rpos # wpos =>
         rb_find(s) = {i + Len(s) : i \in {i \in 0..blen :
                         Stream!OccursAt(s, i) /\ \A k \in 0..(i - 1) : ~Stream!OccursAt(s, k)}}
=============================================================================
