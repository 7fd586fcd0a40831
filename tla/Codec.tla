-------------------------------- MODULE Codec --------------------------------
(***************************************************************************)
(* The pure functions of util-src that the rest of Prosody takes for       *)
(* granted: base64 and the UTF-8 check of encodings.c, the string bit      *)
(* operations of strbitop.c and move of table.c, each written as the C     *)
(* code computes it and compared with what it is a definition of.          *)
(*                                                                         *)
(* A behaviour picks one of them and feeds it an input, byte by byte.      *)
(***************************************************************************)
EXTENDS Integers, Sequences
LOCAL INSTANCE SequencesExt

CONSTANTS Base64Bytes,   \* the bytes of base64 inputs
          Utf8Bytes,     \* the bytes of UTF-8 inputs: those at which the code turns
          BitBytes,      \* the bytes of the bit operations' inputs
          MaxInput,      \* bound: the length of an input
          MaxInteger     \* LUA_MAXINTEGER, scaled down; the least is -MaxInteger - 1

VARIABLES alg,     \* what is tried
          input

codecVars == <<alg, input>>

CodecInit == alg \in {"base64", "utf8", "bits", "move"} /\ input = <<>>

(* the values of a lua_Integer *)
Lua_Integer == (-MaxInteger - 1)..MaxInteger

Feed(x) ==
  /\ Len(input) < (IF alg = "move" THEN 3 ELSE MaxInput)
  /\ x \in (CASE alg = "base64" -> Base64Bytes [] alg = "utf8" -> Utf8Bytes
              [] alg = "bits" -> BitBytes [] alg = "move" -> Lua_Integer)
  /\ input' = Append(input, x) /\ UNCHANGED alg

CodecNext == \E x \in Base64Bytes \cup Utf8Bytes \cup BitBytes \cup Lua_Integer : Feed(x)

CodecSpec == CodecInit /\ [][CodecNext]_codecVars

-----------------------------------------------------------------------------
(* BASE64.  A character of the alphabet is its value; the others are numbers
   beyond it. *)
Pad == 64      \* =
Blank == 65    \* white space, skipped
Alien == 66    \* any other character: decode returns nothing
Nothing64 == <<-1>>

(* base64_encode: n bytes as four characters *)
base64_encode(c1, c2, c3, n) ==
  LET tuple == c3 + 256 * (c2 + 256 * c1)
  IN [i \in 1..4 |-> IF i > n + 1 THEN Pad ELSE (tuple \div 64^(4 - i)) % 64]

Lbase64_encode(s) ==
  LET l == Len(s) IN
  [k \in 1..(4 * (l \div 3)) |->
     LET g == 3 * ((k - 1) \div 4) IN base64_encode(s[g + 1], s[g + 2], s[g + 3], 3)[((k - 1) % 4) + 1]]
  \o CASE l % 3 = 0 -> <<>>
       [] l % 3 = 1 -> base64_encode(s[l], 0, 0, 1)
       [] l % 3 = 2 -> base64_encode(s[l - 1], s[l], 0, 2)

(* base64_decode: n characters, zero filled, as n - 1 bytes *)
base64_decode(t) ==
  LET c == [i \in 1..4 |-> IF i <= Len(t) THEN t[i] ELSE 0]
      tuple == c[4] + 64 * (c[3] + 64 * (c[2] + 64 * c[1]))
  IN [i \in 1..(Len(t) - 1) |-> (tuple \div 256^(3 - i)) % 256]

(* Mutant: a padded group is not forgotten once it is decoded. *)
DecodeChar_keep(st, c) ==
  IF st.out = Nothing64 \/ c = Blank THEN st
  ELSE IF c = Alien THEN [st EXCEPT !.out = Nothing64]
  ELSE IF c = Pad /\ st.t # <<>> THEN [st EXCEPT !.out = @ \o base64_decode(st.t)]
  ELSE IF c = Pad THEN st
  ELSE IF Len(st.t) = 3 THEN [t |-> <<>>, out |-> st.out \o base64_decode(Append(st.t, c))]
  ELSE [st EXCEPT !.t = Append(@, c)]

(* One turn of Lbase64_decode's loop.  t holds the characters of a group that is
   not complete yet. *)
DecodeChar(st, c) ==
  IF st.out = Nothing64 \/ c = Blank THEN st
  ELSE IF c = Alien THEN [st EXCEPT !.out = Nothing64]
  ELSE IF c = Pad THEN [t |-> <<>>, out |-> IF st.t = <<>> THEN st.out ELSE st.out \o base64_decode(st.t)]
  ELSE IF Len(st.t) = 3 THEN [t |-> <<>>, out |-> st.out \o base64_decode(Append(st.t, c))]
  ELSE [st EXCEPT !.t = Append(@, c)]

(* The loop ends at the terminating NUL; what is in t then is dropped. *)
Lbase64_decode(s) == FoldLeft(DecodeChar, [t |-> <<>>, out |-> <<>>], s).out

(* decode is a left inverse of encode whatever the length is modulo three, a
   blank may stand between any two characters, and the decoder starts anew
   after the padding, so that encodings may follow one another. *)
Base64Inverse ==
  alg = "base64" =>
    \A n \in 0..Len(input) :
      LET e == Lbase64_encode(SubSeq(input, 1, n))
          f == Lbase64_encode(SubSeq(input, n + 1, Len(input)))
      IN /\ Len(e) = 4 * ((n + 2) \div 3)
         /\ Lbase64_decode(e \o f) = input
         /\ \A k \in 0..Len(e) :
              Lbase64_decode(SubSeq(e, 1, k) \o <<Blank>> \o SubSeq(e, k + 1, Len(e)) \o f) = input
         /\ Lbase64_decode(e \o <<Alien>> \o f) = Nothing64

-----------------------------------------------------------------------------
(* UTF-8.  utf8_decode counts the continuation bytes that bits 6, 5, ... of the
   first byte ask for; byte number Len + 1 of a string is its NUL. *)
At8(s, p) == IF p <= Len(s) THEN s[p] ELSE 0
Continues(b) == b \div 64 = 2
Ones(c) == CHOOSE n \in 0..7 : (\A k \in 1..n : (c \div 2^(7 - k)) % 2 = 1)
                               /\ (n < 7 => (c \div 2^(6 - n)) % 2 = 0)

(* Mutant: an off-by-one lets an overlong form through. *)
limits_low == <<255, 126, 2047, 65535>>

(* the greatest value that fewer continuation bytes can carry *)
limits == <<255, 127, 2047, 65535>>

(* The length of the sequence at p, 0 when it is invalid. *)
utf8_decode(s, p) ==
  LET c == At8(s, p)
      count == Ones(c)
      res == FoldLeft(LAMBDA r, b : r * 64 + (b % 64), 0, [i \in 1..count |-> At8(s, p + i)])
             + ((c * 2^count) % 128) * 32^count
      invalid == \/ \E i \in 1..count : ~Continues(At8(s, p + i))
                 \/ count > 3
                 \/ res > 1114111 \/ res <= limits[count + 1] \/ (55296 <= res /\ res <= 57343)
  IN IF c < 128 THEN 1 ELSE IF invalid THEN 0 ELSE count + 1

(* check_utf8: decode until the NUL after the last byte was decoded *)
check_utf8(s) ==
  LET Decode[pos \in 1..(Len(s) + 2)] ==
        \/ pos = Len(s) + 2
        \/ LET n == utf8_decode(s, pos) IN n > 0 /\ Decode[pos + n]
  IN Decode[1]

(* RFC 3629: the well formed sequences *)
In(b, lo, hi) == lo <= b /\ b <= hi
WellFormed(q) ==
  CASE Len(q) = 1 -> In(q[1], 0, 127)
    [] Len(q) = 2 -> In(q[1], 194, 223) /\ In(q[2], 128, 191)
    [] Len(q) = 3 ->
         /\ In(q[3], 128, 191)
         /\ \/ q[1] = 224 /\ In(q[2], 160, 191)
            \/ (In(q[1], 225, 236) \/ In(q[1], 238, 239)) /\ In(q[2], 128, 191)
            \/ q[1] = 237 /\ In(q[2], 128, 159)
    [] Len(q) = 4 ->
         /\ In(q[3], 128, 191) /\ In(q[4], 128, 191)
         /\ \/ q[1] = 240 /\ In(q[2], 144, 191)
            \/ In(q[1], 241, 243) /\ In(q[2], 128, 191)
            \/ q[1] = 244 /\ In(q[2], 128, 143)

IsUtf8(s) ==
  LET From[p \in 1..(Len(s) + 1)] ==
        p = Len(s) + 1 \/ \E n \in 1..4 : p + n <= Len(s) + 1 /\ WellFormed(SubSeq(s, p, p + n - 1)) /\ From[p + n]
  IN From[1]

(* check_utf8, which decides what libidn is handed and what utf8.valid tells
   mod_c2s and the JID code, accepts exactly the strings of RFC 3629: no
   overlong form, no surrogate, nothing above U+10FFFF, nothing cut short. *)
Utf8Exact == alg = "utf8" => (check_utf8(input) <=> IsUtf8(input))

-----------------------------------------------------------------------------
(* STRBITOP *)
KeyByte(b, i) == b[((i - 1) % Len(b)) + 1]

Bit(x, k) == (x \div 2^(7 - k)) % 2    \* bit k of a byte, the highest is bit 0

(* x & y, x | y and x ^ y *)
ByteOp(op, x, y) ==
  LET Sets(n) == CASE op = "and" -> n = 2 [] op = "or" -> n > 0 [] op = "xor" -> n = 1
  IN FoldLeft(LAMBDA r, k : 2 * r + IF Sets(Bit(x, k) + Bit(y, k)) THEN 1 ELSE 0,
              0, <<0, 1, 2, 3, 4, 5, 6, 7>>)

(* sand, sor and sxor combine a with b, which is repeated as often as needed;
   with an empty string they return a. *)
strop(op, a, b) ==
  IF a = <<>> \/ b = <<>> THEN a ELSE [i \in DOMAIN a |-> ByteOp(op, a[i], KeyByte(b, i))]
strop_and(a, b) == strop("and", a, b)
strop_or(a, b) == strop("or", a, b)
strop_xor(a, b) == strop("xor", a, b)

clz(c) == CHOOSE n \in 0..8 : (\A k \in 0..(n - 1) : Bit(c, k) = 0) /\ (n < 8 => Bit(c, n) = 1)

strop_common_prefix_bits(a, b) ==
  LET min_len == IF Len(a) < Len(b) THEN Len(a) ELSE Len(b)
      diff == {i \in 1..min_len : a[i] # b[i]}
      i == CHOOSE d \in diff : \A o \in diff : d <= o
  IN IF diff = {} THEN min_len * 8 ELSE (i - 1) * 8 + clz(ByteOp("xor", a[i], b[i]))

(* Bit n of a string, the first is bit 0 *)
StringBit(s, n) == Bit(s[(n \div 8) + 1], n % 8)

(* Masking a frame with a key and masking it again gives the frame back, also
   when the key is shorter (net.websocket.frames); the bits that sor sets are
   those that either sand or sxor does; and two addresses agree on exactly the
   bits that common_prefix_bits counts (util.ip). *)
BitsExact ==
  alg = "bits" =>
    \A n \in 0..Len(input) :
      LET a == SubSeq(input, 1, n)
          b == SubSeq(input, n + 1, Len(input))
          bits == strop_common_prefix_bits(a, b)
      IN /\ strop_xor(strop_xor(a, b), b) = a
         /\ b # <<>> => \A i \in DOMAIN a :
              strop_or(a, b)[i] = strop_and(a, b)[i] + strop_xor(a, b)[i]
         /\ b # <<>> => \A k \in 0..(8 * Len(a) - 1) :
              StringBit(strop_xor(a, b), k) = (StringBit(a, k) + StringBit(b, k % (8 * Len(b)))) % 2
         /\ \A k \in 0..(bits - 1) : StringBit(a, k) = StringBit(b, k)
         /\ bits < 8 * Len(a) /\ bits < 8 * Len(b) => StringBit(a, bits) # StringBit(b, bits)

-----------------------------------------------------------------------------
(* TABLE.  move(a1, f, e, t [, a2]): copies a1[f..e] to a2[t..], one element at a
   time, from the front or from the back.  Its arguments must not make the
   integers wrap around. *)
MoveAccepted(f, e, t) ==
  e >= f => /\ f > 0 \/ e < MaxInteger + f
            /\ t <= MaxInteger - (e - f + 1) + 1

(* Mutant: the overlap of a single element is not seen. *)
Forward_off(f, e, t, same) == t >= e \/ t <= f \/ ~same

Forward(f, e, t, same) == t > e \/ t <= f \/ ~same

Lmove(a1, a2, f, e, t, same) ==
  LET n == e - f + 1
      order == [k \in 1..n |-> IF Forward(f, e, t, same) THEN k - 1 ELSE n - k]
      Copy(tab, i) == [tab EXCEPT ![t + i] = IF same THEN tab[f + i] ELSE a1[f + i]]
  IN IF e < f THEN a2 ELSE FoldLeft(Copy, a2, order)

(* move has the elements arrive as they were before the call, also when the
   source and the destination overlap in one table, and touches nothing else;
   and it refuses just the arguments for which an index, or the number of
   elements, is not a lua_Integer. *)
MoveIsExact ==
  alg = "move" /\ Len(input) = 3 =>
    LET f == input[1]
        e == input[2]
        t == input[3]
        n == e - f + 1
        a1 == [i \in Lua_Integer |-> i]
        a2 == [i \in Lua_Integer |-> 100]
        Moved(a) == [i \in Lua_Integer |-> IF t <= i /\ i < t + n THEN a1[f + (i - t)] ELSE a[i]]
    IN /\ MoveAccepted(f, e, t) <=> (e >= f => n <= MaxInteger /\ t + n - 1 <= MaxInteger)
       /\ MoveAccepted(f, e, t) =>
            /\ Lmove(a1, a1, f, e, t, TRUE) = Moved(a1)
            /\ Lmove(a1, a2, f, e, t, FALSE) = Moved(a2)

(* Both byte loops index exactly what they should, at every boundary: the key
   that wraps, the first bit that differs, the overlapping copy. *)
LoopsExact == BitsExact /\ MoveIsExact
=============================================================================
