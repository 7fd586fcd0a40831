----------------------------- MODULE ByteStream -----------------------------
(***************************************************************************)
(* What util.ringbuffer promises its callers: a first-in first-out stream  *)
(* of at most alen bytes.  A write that does not fit and a read of more    *)
(* than is stored change nothing.  Module ByteRing implements it.          *)
(***************************************************************************)
EXTENDS Naturals, Sequences

CONSTANTS Byte,     \* the bytes
          Chunk,    \* the strings callers write and look for
          alen,     \* capacity
          NoValue   \* nil

VARIABLES content,  \* the bytes written and not yet consumed
          out       \* what the last call returned

streamVars == <<content, out>>

First(n) == [k \in 1..n |-> content[k]]
From(n)  == [k \in 1..(Len(content) - n) |-> content[n + k]]

StreamInit == content = <<>> /\ out = NoValue

Write(s) ==
  IF Len(content) + Len(s) <= alen
  THEN content' = content \o s /\ out' = <<Len(s)>>
  ELSE content' = content /\ out' = NoValue

Discard(n) ==
  IF n <= Len(content)
  THEN content' = From(n) /\ out' = <<1>>
  ELSE content' = content /\ out' = <<0>>

Read(n, peek) ==
  IF n <= Len(content)
  THEN content' = (IF peek THEN content ELSE From(n)) /\ out' = First(n)
  ELSE content' = content /\ out' = NoValue

(* s occurs in the stream behind its first i bytes. *)
OccursAt(s, i) ==
  i + Len(s) <= Len(content) /\ \A k \in 1..Len(s) : content[i + k] = s[k]

(* Reading up to s consumes exactly the bytes up to the end of its first   *)
(* occurrence; or the call finds nothing and consumes nothing.             *)
ReadUntil(s) ==
  \/ \E i \in 0..Len(content) :
       /\ OccursAt(s, i)
       /\ \A k \in 0..(i - 1) : ~OccursAt(s, k)
       /\ content' = From(i + Len(s))
       /\ out' = First(i + Len(s))
  \/ content' = content /\ out' = NoValue

StreamNext ==
  \/ \E s \in Chunk : Write(s) \/ ReadUntil(s)
  \/ \E n \in 0..(alen + 1) : Discard(n) \/ \E peek \in BOOLEAN : Read(n, peek)

StreamSpec == StreamInit /\ [][StreamNext]_streamVars
=============================================================================
