------------------------------ MODULE ListStore ------------------------------
(***************************************************************************)
(* An item list on disk: pposix.atomic_append (util-src/pposix.c) and the  *)
(* list functions of util/datamanager.lua that rest on it.  A store is two *)
(* files: .list holds the items, .lidx holds a magic number and the offset *)
(* of the end of every item, and is rebuilt from .list when it is missing. *)
(* Every function touches the two files one after the other, and the       *)
(* process may die in between: what is left is what the next run starts    *)
(* from.                                                                   *)
(*                                                                         *)
(* A file is a sequence of cells.  An item x is two cells, x and Eol, so   *)
(* that a write may stop half way.  An index entry is one cell.            *)
(***************************************************************************)
EXTENDS Integers, Sequences, FiniteSets

CONSTANTS Entry,      \* the items a caller stores
          MaxEntries  \* bound: items in the list, cells in the index when an item is added

Eol == 0

(* an item is no part of the encoding *)
ASSUME ListBounds ==
  MaxEntries \in Nat \ {0} /\ Entry # {} /\ Entry \subseteq Nat \ {Eol}

Magic == 7767639 + 1
NoFile == <<-1>>

VARIABLES
  list, lidx,     \* the two files, NoFile when they do not exist
  step,           \* where in the running function we are, "idle" when none runs
  offset,         \* list_append: where the item went, 0 when no index entry is to follow
  scratch,        \* what atomic_store or list_shift wrote to the scratch file, if it is still to be used
  before, after,  \* history: the items when the function began, and those it is to leave
  replaced,       \* history: list_append replaced a list it could not open
  torn,           \* history: a cut off write could not be taken back
  skew            \* history: an item was stored and the index was not told

listVars == <<list, lidx, step, offset, scratch, before, after, replaced, torn, skew>>

ListInit ==
  /\ list = NoFile /\ lidx = NoFile /\ step = "idle" /\ offset = 0 /\ scratch = <<>>
  /\ before = <<>> /\ after = <<>> /\ replaced = FALSE /\ torn = FALSE /\ skew = FALSE

Encode(s) == [k \in 1..(2 * Len(s)) |-> IF k % 2 = 1 THEN s[(k + 1) \div 2] ELSE Eol]
Items(f) == IF f = NoFile THEN <<>> ELSE [k \in 1..(Len(f) \div 2) |-> f[2 * k - 1]]
Whole(f) == f = NoFile \/ f = Encode(Items(f))
SizeOf(f) == IF f = NoFile THEN 0 ELSE Len(f)

(* Mutant: a failed append is not cut off again. *)
lc_atomic_append_uncut(f, data) ==
     {[file |-> f \o data, res |-> "ok"]}
  \cup {[file |-> f \o SubSeq(data, 1, k), res |-> r]
          : k \in 0..Len(data), r \in {"fail", "raise", "crash"}}

(* The outcomes of atomic_append(f, data): all written and flushed; nothing,
   because fallocate refused it or because ftruncate took the written part
   back; a Lua error with the written part left, when ftruncate failed too;
   and the part written when the process died. *)
lc_atomic_append(f, data) ==
     {[file |-> f \o data, res |-> "ok"], [file |-> f, res |-> "fail"]}
  \cup {[file |-> f \o SubSeq(data, 1, k), res |-> r]
          : k \in 0..Len(data), r \in {"raise", "crash"}}

(* The outcomes of atomic_store(f, data): the scratch file is renamed over f,
   or f is as it was. *)
atomic_store(f, data) == {[file |-> data, res |-> "ok"], [file |-> f, res |-> "fail"]}

(* append, and where in the file the data went.  The file is opened for update
   and appended to; "close" is a failing fclose after everything was written.
   When it cannot be opened, because it is not there or for any other reason,
   the data is stored in its place. *)
appendTo(f, data) ==
  {[file |-> o.file, res |-> o.res, pos |-> 0] : o \in atomic_store(f, data)}
  \cup IF f = NoFile THEN {}
       ELSE {[file |-> o.file, res |-> o.res, pos |-> SizeOf(f)] :
               o \in lc_atomic_append(f, data) \cup {[file |-> f \o data, res |-> "close"]}}

Begin(new) == step = "idle" /\ before' = Items(list) /\ after' = new /\ replaced' = FALSE

(* get_list_index: the index file is used when it starts with the magic number *)
Usable(x) == x # NoFile /\ x # <<>> /\ x[1] = Magic
Ends(x) == SubSeq(x, 2, Len(x))

(* history: an index that is gone is no longer behind *)
StillBehind == skew /\ lidx # NoFile

(* build_list_index and store_list_index: one entry per line of the list *)
LineEnds(f) == {k \in DOMAIN f : f[k] = Eol \/ k = Len(f)}
build_list_index(f) ==
  [n \in 1..Cardinality(LineEnds(f)) |->
     CHOOSE k \in LineEnds(f) : Cardinality({j \in LineEnds(f) : j <= k}) = n]
store_list_index(f) == <<Magic>> \o build_list_index(f)

-----------------------------------------------------------------------------
(* list_append(data): first the list file.  Only after "ok" does the function
   go on to the index. *)
list_append(x) ==
  /\ step = "idle" /\ before' = Items(list) /\ after' = Append(Items(list), x)
  /\ SizeOf(list) <= 2 * (MaxEntries - 1) /\ SizeOf(lidx) <= MaxEntries
  /\ \E o \in appendTo(list, <<x, Eol>>) :
        /\ list' = o.file
        /\ step' = IF o.res = "ok" THEN "index" ELSE "idle"
        /\ offset' = IF o.res = "ok" THEN o.pos ELSE 0
        /\ replaced' = (o.res = "ok" /\ o.pos # SizeOf(list))
        /\ torn' = (torn \/ (o.res \in {"raise", "crash"} /\ SizeOf(o.file) = SizeOf(list) + 1))
        /\ skew' = (StillBehind \/ (o.res # "ok" /\ o.file # list /\ Usable(lidx)))
  /\ UNCHANGED <<lidx, scratch>>

(* One of the two was the first entry of its file and the other was not. *)
Mismatch(off) == (offset = 0) # (off = 0)

(* ... then the index: the end of the item, after the magic number if it is the
   first.  After a failure, or when only one of the two was first, the index is
   to be dropped. *)
list_append_index ==
  /\ step = "index"
  /\ LET data == (IF offset = 0 THEN <<Magic>> ELSE <<>>) \o <<offset + 2>>
     IN \E o \in appendTo(lidx, data) :
          /\ lidx' = o.file
          /\ \/ /\ o.res = "ok" /\ ~Mismatch(o.pos) /\ step' = "idle" /\ before' = after
                /\ UNCHANGED <<torn, skew>>
             \/ /\ o.res \in {"fail", "close"} \/ (o.res = "ok" /\ Mismatch(o.pos))
                /\ step' = "drop" /\ UNCHANGED <<before, torn, skew>>
             \/ /\ o.res \in {"raise", "crash"} /\ step' = "idle"
                /\ torn' \in {torn, TRUE}   \* part of an entry may be left
                /\ skew' = (skew \/ (Usable(o.file) /\ (Mismatch(o.pos) \/ o.file # lidx \o data)))
                /\ UNCHANGED before
  /\ offset' = 0
  /\ UNCHANGED <<list, scratch, after, replaced>>

list_append_drop ==
  /\ step = "drop"
  /\ lidx' = NoFile /\ step' = "idle" /\ before' = after
  /\ UNCHANGED <<list, offset, scratch, after, replaced, torn, skew>>

(* Mutant: the index of the old list is left. *)
list_store_keep(s) ==
  /\ Begin(s)
  /\ step' = "store" /\ scratch' = Encode(s) /\ skew' = StillBehind
  /\ UNCHANGED <<list, lidx, offset, torn>>

(* list_store(data): the index goes first, then the list is replaced, and an
   empty list is unlinked. *)
list_store(s) ==
  /\ Begin(s)
  /\ lidx' = NoFile /\ step' = "store" /\ scratch' = Encode(s) /\ skew' = StillBehind
  /\ UNCHANGED <<list, offset, torn>>

list_store_list ==
  /\ step = "store"
  /\ \E o \in atomic_store(list, scratch) :
        /\ list' = o.file
        /\ step' = IF o.res = "ok" /\ scratch = <<>> THEN "unlink" ELSE "idle"
        /\ before' = IF o.res = "ok" THEN after ELSE before
        /\ torn' = (torn /\ o.res = "fail")
  /\ scratch' = <<>>
  /\ UNCHANGED <<lidx, offset, after, replaced, skew>>

Unlink ==
  /\ step = "unlink"
  /\ list' = NoFile /\ step' = "idle" /\ before' = after
  /\ UNCHANGED <<lidx, offset, scratch, after, replaced, torn, skew>>

(* get_list_index reads the index when it can be opened and starts with the
   magic number, and builds a new one of the list otherwise. *)
get_list_index ==
  {[ends |-> build_list_index(list), built |-> TRUE]}
  \cup IF Usable(lidx) THEN {[ends |-> Ends(lidx), built |-> FALSE]} ELSE {}

(* list_open: the only thing it changes is that get_list_index stores the index
   it builds.  (When that fails nobody looks, and nothing has changed.) *)
list_open ==
  /\ Begin(Items(list)) /\ list # NoFile
  /\ lidx' = store_list_index(list) /\ skew' = StillBehind
  /\ UNCHANGED <<list, step, offset, scratch, torn>>

(* list_shift(trim_to): drop the items before trim_to.  The rest of the list is
   copied to the scratch file; the index is deleted; the scratch file takes the
   list's place.  With no such item in the index everything is deleted. *)
list_shift(trim_to) ==
  /\ Begin(SubSeq(Items(list), trim_to, Len(Items(list))))
  /\ list # NoFile /\ lidx # <<Magic>>
  /\ \E x \in get_list_index :
       \/ /\ trim_to > Len(x.ends)
          /\ lidx' = NoFile /\ step' = "unlink" /\ UNCHANGED scratch
       \/ /\ trim_to <= Len(x.ends)
          /\ scratch' = SubSeq(list, x.ends[trim_to - 1] + 1, Len(list))
          /\ lidx' = NoFile /\ step' = "rename"
       \/ /\ trim_to <= Len(x.ends)   \* the copy failed
          /\ lidx' \in IF x.built THEN {lidx, store_list_index(list)} ELSE {lidx}
          /\ UNCHANGED <<step, scratch>>
  /\ skew' = StillBehind
  /\ UNCHANGED <<list, offset, torn>>

list_shift_rename ==
  /\ step = "rename"
  /\ \E o \in {[file |-> scratch, res |-> "ok"], [file |-> list, res |-> "fail"]} :
        /\ list' = o.file
        /\ before' = IF o.res = "ok" THEN after ELSE before
  /\ step' = "idle" /\ scratch' = <<>>
  /\ UNCHANGED <<lidx, offset, after, replaced, torn, skew>>

(* The process dies between two steps of a function, and is started again. *)
Restart ==
  /\ step # "idle"
  /\ step' = "idle" /\ offset' = 0 /\ scratch' = <<>>
  /\ skew' = (skew \/ (step \in {"index", "drop"} /\ Usable(lidx)))
  /\ UNCHANGED <<list, lidx, before, after, replaced, torn>>

ListNext ==
  \/ \E x \in Entry : list_append(x)
  \/ list_append_index \/ list_append_drop
  \/ \E s \in {<<>>} \cup {<<x, y>> : x, y \in Entry} : list_store(s)
  \/ list_store_list \/ Unlink \/ list_open
  \/ \E n \in 2..MaxEntries : list_shift(n)
  \/ list_shift_rename \/ Restart

ListSpec == ListInit /\ [][ListNext]_listVars

-----------------------------------------------------------------------------
(* list_load_one: the range is run as code, every item(...) in it replaces the
   one before. *)
list_load_one(start, length) == list[start + length - 1]

(* Item i of an opened list: index_mt gives the range, the magic number stands
   where the start of the first item would be. *)
OpenedItem(i) ==
  LET start == IF i = 1 THEN 0 ELSE lidx[i] IN list_load_one(start, lidx[i + 1] - start)

(* list_append could not open the list: its own item is there and no other. *)
Alone == replaced /\ Items(list) = <<after[Len(after)]>>

(* Whatever step of whatever function fails and wherever the process dies, the
   list holds whole items, and they are the ones that were there when the
   function began or the ones it was to leave: atomic_append takes a part
   written back, atomic_store and list_shift rename, and a failing call reports
   a list that is as it was.  The one exception is a list_append that could not
   open the list: it leaves its own item and no other.  (Not claimed: after
   ftruncate failed or a write was interrupted, torn; nor for a list_shift that
   used an index that had missed an item, skew.) *)
AllOrNothing ==
  ~torn /\ ~skew =>
    /\ Whole(list)
    /\ Items(list) \in {before, after} \/ Alone

(* Reading the list through its index, as mod_storage_internal does, gives what
   loading the list gives: no step of list_append, list_store or list_shift, no
   failure and no restart leaves an index that describes another list, unless
   an item was appended to the list and the index never told. *)
ReadsAgree ==
  ~torn /\ ~skew /\ step \notin {"index", "drop"} /\ Usable(lidx) =>
    /\ Len(Ends(lidx)) = Len(Items(list))
    /\ \A i \in 1..Len(Ends(lidx)) : OpenedItem(i) = Items(list)[i]

(* list_append's comment: when the offsets disagree "there's some kind of
   mismatch and we should drop the index".  So once a list_append has come to
   its end, an index that is used has an entry for every item. *)
MismatchDropsIndex ==
  step = "idle" /\ before = after /\ ~torn /\ Usable(lidx) => Len(Ends(lidx)) = Len(Items(list))
=============================================================================
