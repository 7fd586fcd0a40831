------------------------------ MODULE AsyncProofs ------------------------------
(***************************************************************************)
(* The invariants of util/async.lua for any number of runners, items and   *)
(* waits.  The inductive invariant AsyncInv speaks of the sets of members  *)
(* of stack, ticks and gqueue, none of which has a member twice; the       *)
(* lemmas on sequences say what an append or a removal does to them.       *)
(***************************************************************************)
EXTENDS Async, TLAPS

Members(s) == {s[i] : i \in DOMAIN s}
Distinct(s) == \A i, j \in DOMAIN s : s[i] = s[j] => i = j
DistinctRunners(s) == \A i, j \in DOMAIN s : s[i].r = s[j].r => i = j

(* The coroutine of a runner and runner.state. *)
StatesOK ==
  /\ \A r \in Runner : state[r] = "ready" => co[r] = "idle"
  /\ \A r \in Runner : state[r] = "running" => co[r] = "live"
  /\ \A r \in Runner : co[r] = "wait" => state[r] = "waiting"

(* The live coroutines are those on the stack. *)
StackOK ==
  /\ \A r \in Runner : co[r] = "live" => \E f \in Members(stack) : f.r = r
  /\ \A f \in Members(stack) : co[f.r] = "live"
  /\ \A f \in Members(stack) : state[f.r] = IF f.kind = "run" THEN "running" ELSE "waiting"

(* A tick is due for the runners whose item completed after a wait. *)
TicksOK == \A r \in Runner : r \in Members(ticks) <=> state[r] = "waiting" /\ co[r] = "idle"

(* What a suspended item waits for. *)
WaitsOK ==
  /\ \A r \in Runner : co[r] = "idle" => num[r] = -1 /\ where[r] = "out"
  /\ \A r \in Runner : co[r] = "wait" => num[r] > 0 \/ where[r] = "queued"

LineOK ==
  /\ \A r \in Runner : r \in Members(gqueue) <=> where[r] = "queued"
  /\ \A r \in Runner : where[r] = "queued" => co[r] = "wait" /\ num[r] = -1

GuardOK ==
  /\ \A r, s \in Runner : where[r] = "in" /\ where[s] = "in" => r = s
  /\ \A r \in Runner : where[r] = "in" => guarded
  /\ guarded => \E r \in Runner : where[r] = "in"
  /\ gqueue # <<>> => guarded

SeqsOK == DistinctRunners(stack) /\ Distinct(ticks) /\ Distinct(gqueue)

AsyncInv ==
  /\ TypeOK /\ SeqsOK /\ StatesOK /\ StackOK /\ TicksOK /\ WaitsOK /\ LineOK /\ GuardOK
  /\ ItemsOnceInOrder /\ strays = 0
-----------------------------------------------------------------------------
(* Appending a frame for a runner that is not on the stack.                *)
LEMMA StackPush ==
  ASSUME NEW s \in Seq(Frame), DistinctRunners(s), NEW f \in Frame,
         \A g \in Members(s) : g.r # f.r
  PROVE  /\ Append(s, f) \in Seq(Frame)
         /\ DistinctRunners(Append(s, f))
         /\ Members(Append(s, f)) = Members(s) \union {f}
<1>1. /\ Append(s, f) \in Seq(Frame)
      /\ Len(Append(s, f)) = Len(s) + 1
      /\ \A i \in 1..Len(s) : Append(s, f)[i] = s[i]
      /\ Append(s, f)[Len(s) + 1] = f
  OBVIOUS
<1>2. DOMAIN Append(s, f) = 1..(Len(s) + 1) /\ DOMAIN s = 1..Len(s) /\ Len(s) \in Nat
  BY <1>1
<1>3. Members(Append(s, f)) = Members(s) \union {f}
  BY <1>1, <1>2 DEF Members
<1>4. \A i \in DOMAIN s : s[i].r # f.r
  BY DEF Members
<1>5. ASSUME NEW i \in 1..(Len(s) + 1), NEW j \in 1..(Len(s) + 1),
             Append(s, f)[i].r = Append(s, f)[j].r
      PROVE  i = j
  BY <1>1, <1>2, <1>4, <1>5 DEF DistinctRunners
<1> QED  BY <1>1, <1>2, <1>3, <1>5 DEF DistinctRunners

(* Removing the top frame.                                                 *)
LEMMA StackPop ==
  ASSUME NEW s \in Seq(Frame), DistinctRunners(s), s # <<>>
  PROVE  /\ Front(s) \in Seq(Frame)
         /\ DistinctRunners(Front(s))
         /\ s[Len(s)] \in Members(s)
         /\ s[Len(s)] \in Frame
         /\ Members(Front(s)) = {g \in Members(s) : g.r # s[Len(s)].r}
<1>1. Len(s) \in Nat \ {0} /\ DOMAIN s = 1..Len(s)
  OBVIOUS
<1>2. /\ Front(s) \in Seq(Frame)
      /\ Len(Front(s)) = Len(s) - 1
      /\ \A i \in 1..(Len(s) - 1) : Front(s)[i] = s[i]
  BY <1>1 DEF Front
<1>3. DOMAIN Front(s) = 1..(Len(s) - 1)
  BY <1>1, <1>2
<1>4. DistinctRunners(Front(s))
  BY <1>1, <1>2, <1>3 DEF DistinctRunners
<1>5. s[Len(s)] \in Members(s) /\ s[Len(s)] \in Frame
  BY <1>1 DEF Members
<1>6. \A i \in 1..(Len(s) - 1) : s[i].r # s[Len(s)].r
  BY <1>1 DEF DistinctRunners
<1>7. Members(Front(s)) = {g \in Members(s) : g.r # s[Len(s)].r}
  <2>1. ASSUME NEW g \in Members(Front(s)) PROVE g \in Members(s) /\ g.r # s[Len(s)].r
    BY <1>1, <1>2, <1>3, <1>6 DEF Members
  <2>2. ASSUME NEW g \in Members(s), g.r # s[Len(s)].r PROVE g \in Members(Front(s))
    BY <1>1, <1>2, <1>3, <2>2 DEF Members
  <2> QED  BY <2>1, <2>2
<1> QED  BY <1>2, <1>4, <1>5, <1>7

(* Appending a runner that is not in the line.                             *)
LEMMA LinePush ==
  ASSUME NEW s \in Seq(Runner), Distinct(s), NEW r \in Runner, r \notin Members(s)
  PROVE  /\ Append(s, r) \in Seq(Runner)
         /\ Distinct(Append(s, r))
         /\ Members(Append(s, r)) = Members(s) \union {r}
<1>1. /\ Append(s, r) \in Seq(Runner)
      /\ Len(Append(s, r)) = Len(s) + 1
      /\ \A i \in 1..Len(s) : Append(s, r)[i] = s[i]
      /\ Append(s, r)[Len(s) + 1] = r
  OBVIOUS
<1>2. DOMAIN Append(s, r) = 1..(Len(s) + 1) /\ DOMAIN s = 1..Len(s) /\ Len(s) \in Nat
  BY <1>1
<1>3. Members(Append(s, r)) = Members(s) \union {r}
  BY <1>1, <1>2 DEF Members
<1>4. \A i \in DOMAIN s : s[i] # r
  BY DEF Members
<1>5. ASSUME NEW i \in 1..(Len(s) + 1), NEW j \in 1..(Len(s) + 1),
             Append(s, r)[i] = Append(s, r)[j]
      PROVE  i = j
  BY <1>1, <1>2, <1>4, <1>5 DEF Distinct
<1> QED  BY <1>1, <1>2, <1>3, <1>5 DEF Distinct

(* Taking the first of a line.                                             *)
LEMMA LinePop ==
  ASSUME NEW s \in Seq(Runner), Distinct(s), s # <<>>
  PROVE  /\ Tail(s) \in Seq(Runner)
         /\ Distinct(Tail(s))
         /\ Head(s) \in Members(s) /\ Head(s) \in Runner
         /\ Members(Tail(s)) = Members(s) \ {Head(s)}
<1>1. Len(s) \in Nat \ {0} /\ DOMAIN s = 1..Len(s) /\ Head(s) = s[1]
  OBVIOUS
<1>2. /\ Tail(s) \in Seq(Runner)
      /\ Len(Tail(s)) = Len(s) - 1
      /\ \A i \in 1..(Len(s) - 1) : Tail(s)[i] = s[i + 1]
  BY <1>1
<1>3. DOMAIN Tail(s) = 1..(Len(s) - 1)
  BY <1>1, <1>2
<1>4. ASSUME NEW i \in 1..(Len(s) - 1), NEW j \in 1..(Len(s) - 1), Tail(s)[i] = Tail(s)[j]
      PROVE  i = j
  <2>1. s[i + 1] = s[j + 1] /\ i + 1 \in DOMAIN s /\ j + 1 \in DOMAIN s
    BY <1>1, <1>2, <1>4
  <2> QED  BY <2>1, <1>1 DEF Distinct
<1>5. Head(s) \in Members(s) /\ Head(s) \in Runner
  BY <1>1 DEF Members
<1>6. \A i \in 1..(Len(s) - 1) : s[i + 1] # s[1]
  <2> SUFFICES ASSUME NEW i \in 1..(Len(s) - 1), s[i + 1] = s[1] PROVE FALSE
    OBVIOUS
  <2>1. i + 1 \in DOMAIN s /\ 1 \in DOMAIN s /\ i + 1 # 1
    BY <1>1
  <2> QED  BY <2>1 DEF Distinct
<1>7. Members(Tail(s)) = Members(s) \ {Head(s)}
  <2>1. ASSUME NEW g \in Members(Tail(s)) PROVE g \in Members(s) /\ g # Head(s)
    <3>1. PICK i \in 1..(Len(s) - 1) : g = s[i + 1]
      BY <1>2, <1>3 DEF Members
    <3>2. i + 1 \in DOMAIN s
      BY <1>1
    <3> QED  BY <3>1, <3>2, <1>1, <1>6 DEF Members
  <2>2. ASSUME NEW g \in Members(s), g # Head(s) PROVE g \in Members(Tail(s))
    <3>1. PICK i \in 1..Len(s) : g = s[i]
      BY <1>1 DEF Members
    <3>2. i - 1 \in 1..(Len(s) - 1) /\ Tail(s)[i - 1] = s[(i - 1) + 1] /\ (i - 1) + 1 = i
      BY <3>1, <2>2, <1>1, <1>2
    <3> QED  BY <3>1, <3>2, <1>3 DEF Members
  <2> QED  BY <2>1, <2>2
<1> QED  BY <1>2, <1>3, <1>4, <1>5, <1>7 DEF Distinct

(* Members of a stack are frames of runners. *)
LEMMA FrameMembers ==
  ASSUME NEW s \in Seq(Frame), NEW g \in Members(s)
  PROVE  g \in Frame /\ g.r \in Runner /\ g.kind \in {"run", "cont"}
<1>1. PICK i \in DOMAIN s : g = s[i]
  BY DEF Members
<1>2. g \in Frame
  BY <1>1
<1> QED  BY <1>2 DEF Frame

(* The empty sequence has no members. *)
LEMMA EmptyMembers == Members(<<>>) = {} /\ Distinct(<<>>) /\ DistinctRunners(<<>>)
BY DEF Members, Distinct, DistinctRunners
-----------------------------------------------------------------------------
(* The queue of one runner holds the items after the first b of g.         *)
Pending(q, g, b) == Len(q) = g - b /\ \A i \in DOMAIN q : q[i] = b + i

(* run() and enqueue() number the item they append. *)
LEMMA GiveItem ==
  ASSUME NEW q \in Seq(1..MaxItems), NEW g \in 0..MaxItems, NEW b \in 0..MaxItems,
         Pending(q, g, b), g < MaxItems
  PROVE  /\ Append(q, g + 1) \in Seq(1..MaxItems)
         /\ g + 1 \in 0..MaxItems
         /\ Pending(Append(q, g + 1), g + 1, b)
         /\ Append(q, g + 1) # <<>>
<1>0. MaxItems \in Nat
  BY AsyncAssumption
<1>1. g + 1 \in 1..MaxItems
  BY <1>0
<1>2. /\ Append(q, g + 1) \in Seq(1..MaxItems)
      /\ Len(Append(q, g + 1)) = Len(q) + 1
      /\ \A i \in 1..Len(q) : Append(q, g + 1)[i] = q[i]
      /\ Append(q, g + 1)[Len(q) + 1] = g + 1
      /\ Len(q) \in Nat /\ DOMAIN q = 1..Len(q)
  BY <1>1
<1>3. DOMAIN Append(q, g + 1) = 1..(Len(q) + 1)
  BY <1>2
<1>4. ASSUME NEW i \in 1..(Len(q) + 1) PROVE Append(q, g + 1)[i] = b + i
  <2>1. Len(q) = g - b /\ \A k \in 1..Len(q) : q[k] = b + k
    BY <1>2 DEF Pending
  <2>2. CASE i = Len(q) + 1
    BY <1>0, <1>2, <2>1, <2>2
  <2>3. CASE i # Len(q) + 1
    <3>1. i \in 1..Len(q)
      BY <1>2, <2>3
    <3> QED  BY <3>1, <1>2, <2>1
  <2> QED  BY <2>2, <2>3
<1>5. Pending(Append(q, g + 1), g + 1, b)
  <2>1. Len(q) = g - b
    BY DEF Pending
  <2>2. Len(Append(q, g + 1)) = (g + 1) - b
    BY <1>0, <1>2, <2>1
  <2> QED  BY <2>2, <1>3, <1>4 DEF Pending
<1>6. Append(q, g + 1) # <<>>
  <2>1. Len(Append(q, g + 1)) # 0
    BY <1>2
  <2>2. Len(<<>>) = 0
    OBVIOUS
  <2> QED  BY <2>1, <2>2, Zenon
<1> QED  BY <1>0, <1>1, <1>2, <1>5, <1>6

(* The runner takes its first item. *)
LEMMA TakeItem ==
  ASSUME NEW q \in Seq(1..MaxItems), NEW g \in 0..MaxItems, NEW b \in 0..MaxItems,
         Pending(q, g, b), q # <<>>
  PROVE  /\ Tail(q) \in Seq(1..MaxItems)
         /\ b + 1 \in 0..MaxItems
         /\ Pending(Tail(q), g, b + 1)
<1>0. MaxItems \in Nat
  BY AsyncAssumption
<1>1. Len(q) \in Nat \ {0} /\ DOMAIN q = 1..Len(q)
  OBVIOUS
<1>2. /\ Tail(q) \in Seq(1..MaxItems)
      /\ Len(Tail(q)) = Len(q) - 1
      /\ \A i \in 1..(Len(q) - 1) : Tail(q)[i] = q[i + 1]
  BY <1>1
<1>3. DOMAIN Tail(q) = 1..(Len(q) - 1)
  BY <1>1, <1>2
<1>4. ASSUME NEW i \in 1..(Len(q) - 1) PROVE Tail(q)[i] = (b + 1) + i
  <2>1. i + 1 \in DOMAIN q
    BY <1>1
  <2> QED  BY <2>1, <1>2 DEF Pending
<1>5. Len(q) = g - b
  BY DEF Pending
<1>6. b + 1 \in 0..MaxItems /\ Len(Tail(q)) = g - (b + 1)
  BY <1>0, <1>1, <1>2, <1>5
<1>7. Pending(Tail(q), g, b + 1)
  BY <1>3, <1>4, <1>6 DEF Pending
<1> QED  BY <1>2, <1>6, <1>7
-----------------------------------------------------------------------------
(* No runner has any work. *)
LEMMA InitInv == AsyncInit => AsyncInv
<1> SUFFICES ASSUME AsyncInit PROVE AsyncInv
  OBVIOUS
<1>0. MaxItems \in Nat /\ MaxNum \in Nat \ {0}
  BY AsyncAssumption
<1>1. TypeOK
  <2>1. <<>> \in Seq(1..MaxItems) /\ <<>> \in Seq(Runner) /\ <<>> \in Seq(Frame)
    OBVIOUS
  <2>2. queue \in [Runner -> Seq(1..MaxItems)]
    BY <2>1, Zenon DEF AsyncInit
  <2>3. gqueue \in Seq(Runner) /\ stack \in Seq(Frame) /\ ticks \in Seq(Runner)
    BY <2>1 DEF AsyncInit
  <2>4. given \in [Runner -> 0..MaxItems] /\ begun \in [Runner -> 0..MaxItems]
    BY <1>0 DEF AsyncInit
  <2>5. num \in [Runner -> -1..MaxNum]
    BY <1>0 DEF AsyncInit
  <2>6. /\ state \in [Runner -> {"ready", "running", "waiting"}]
        /\ co \in [Runner -> {"idle", "live", "wait"}]
        /\ where \in [Runner -> {"out", "queued", "in"}]
    BY DEF AsyncInit
  <2>7. guarded \in BOOLEAN
    BY Zenon DEF AsyncInit
  <2>8. strays \in 0..1
    BY DEF AsyncInit
  <2> QED  BY <2>2, <2>3, <2>4, <2>5, <2>6, <2>7, <2>8 DEF TypeOK
<1>2. SeqsOK
  BY EmptyMembers DEF AsyncInit, SeqsOK
<1>3. StatesOK /\ WaitsOK /\ GuardOK
  BY DEF AsyncInit, StatesOK, WaitsOK, GuardOK
<1>4. StackOK /\ TicksOK /\ LineOK
  BY EmptyMembers DEF AsyncInit, StackOK, TicksOK, LineOK
<1>5. ItemsOnceInOrder
  <2>1. Len(<<>>) = 0 /\ DOMAIN <<>> = {}
    OBVIOUS
  <2>2. ASSUME NEW r \in Runner PROVE queue[r] = <<>> /\ given[r] = 0 /\ begun[r] = 0
    BY DEF AsyncInit
  <2>3. ASSUME NEW r \in Runner
        PROVE  Len(queue[r]) = given[r] - begun[r] /\ DOMAIN queue[r] = {}
    BY <2>1, <2>2
  <2> QED  BY <2>3 DEF ItemsOnceInOrder
<1> QED  BY <1>1, <1>2, <1>3, <1>4, <1>5 DEF AsyncInv, AsyncInit

(* What the top of the stack says about its runner.                        *)
LEMMA TopFacts ==
  ASSUME AsyncInv, NEW r \in Runner, Running(r)
  PROVE  /\ stack # <<>> /\ Top.r = r /\ Top \in Frame /\ Top \in Members(stack)
         /\ co[r] = "live"
         /\ state[r] = IF Top.kind = "run" THEN "running" ELSE "waiting"
         /\ Front(stack) \in Seq(Frame) /\ DistinctRunners(Front(stack))
         /\ Members(Front(stack)) = {g \in Members(stack) : g.r # r}
         /\ r \notin Members(ticks) /\ r \notin Members(gqueue)
<1>1. stack \in Seq(Frame) /\ DistinctRunners(stack) /\ stack # <<>> /\ Top.r = r
  BY DEF AsyncInv, TypeOK, SeqsOK, Running
<1>2. /\ Top \in Frame /\ Top \in Members(stack)
      /\ Front(stack) \in Seq(Frame) /\ DistinctRunners(Front(stack))
      /\ Members(Front(stack)) = {g \in Members(stack) : g.r # r}
  BY <1>1, StackPop DEF Top
<1>3. co[r] = "live" /\ state[r] = IF Top.kind = "run" THEN "running" ELSE "waiting"
  BY <1>1, <1>2 DEF AsyncInv, StackOK
<1>4. r \notin Members(ticks) /\ r \notin Members(gqueue)
  BY <1>3 DEF AsyncInv, TicksOK, LineOK
<1> QED  BY <1>1, <1>2, <1>3, <1>4

(* The items of every runner other than r keep, those of r are as given.   *)
LEMMA ItemsStep ==
  ASSUME ItemsOnceInOrder, NEW r \in Runner, TypeOK, NEW q, NEW g, NEW b,
         queue' = [queue EXCEPT ![r] = q], given' = [given EXCEPT ![r] = g],
         begun' = [begun EXCEPT ![r] = b], Pending(q, g, b)
  PROVE  ItemsOnceInOrder'
BY DEF ItemsOnceInOrder, Pending, TypeOK

(* ItemsOnceInOrder for one runner. *)
LEMMA ItemsHere ==
  ASSUME ItemsOnceInOrder, TypeOK, NEW r \in Runner
  PROVE  /\ Pending(queue[r], given[r], begun[r])
         /\ queue[r] \in Seq(1..MaxItems) /\ given[r] \in 0..MaxItems /\ begun[r] \in 0..MaxItems
BY DEF ItemsOnceInOrder, Pending, TypeOK

(* A coroutine that is not active is resumed on top of the stack.          *)
LEMMA GoLive ==
  ASSUME AsyncInv, NEW r \in Runner, co[r] # "live",
         NEW k \in {"run", "cont"},
         co' = [co EXCEPT ![r] = "live"],
         state' = [state EXCEPT ![r] = IF k = "run" THEN "running" ELSE "waiting"],
         stack' = Append(stack, [r |-> r, kind |-> k])
  PROVE  /\ stack' \in Seq(Frame) /\ DistinctRunners(stack')
         /\ co' \in [Runner -> {"idle", "live", "wait"}]
         /\ state' \in [Runner -> {"ready", "running", "waiting"}]
         /\ StatesOK' /\ StackOK'
<1> DEFINE f == [r |-> r, kind |-> k]
<1>1. f \in Frame /\ f.r = r /\ f.kind = k
  BY DEF Frame
<1>2. stack \in Seq(Frame) /\ DistinctRunners(stack)
  BY DEF AsyncInv, TypeOK, SeqsOK
<1>3. \A g \in Members(stack) : g \in Frame /\ g.r \in Runner /\ g.r # r
  BY <1>2, FrameMembers DEF AsyncInv, StackOK
<1>4. /\ stack' \in Seq(Frame) /\ DistinctRunners(stack')
      /\ Members(stack') = Members(stack) \union {f}
  BY <1>1, <1>2, <1>3, StackPush
<1>5. /\ co' \in [Runner -> {"idle", "live", "wait"}]
      /\ state' \in [Runner -> {"ready", "running", "waiting"}]
  BY DEF AsyncInv, TypeOK
<1>6. /\ co'[r] = "live" /\ state'[r] = IF k = "run" THEN "running" ELSE "waiting"
      /\ \A s \in Runner : s # r => co'[s] = co[s] /\ state'[s] = state[s]
  BY DEF AsyncInv, TypeOK
<1>7. StatesOK'
  BY <1>6 DEF AsyncInv, StatesOK
<1>8. StackOK'
  <2>1. ASSUME NEW s \in Runner, co'[s] = "live" PROVE \E g \in Members(stack') : g.r = s
    BY <1>1, <1>4, <1>6, <2>1 DEF AsyncInv, StackOK
  <2>2. ASSUME NEW g \in Members(stack')
        PROVE  co'[g.r] = "live" /\ state'[g.r] = IF g.kind = "run" THEN "running" ELSE "waiting"
    BY <1>1, <1>3, <1>4, <1>6 DEF AsyncInv, StackOK
  <2> QED  BY <2>1, <2>2 DEF StackOK
<1> QED  BY <1>4, <1>5, <1>7, <1>8

(* The coroutine on top returns or yields.                                 *)
LEMMA Leave ==
  ASSUME AsyncInv, NEW r \in Runner, Running(r),
         NEW c \in {"idle", "wait"}, NEW st \in {"ready", "waiting"},
         c = "wait" => st = "waiting",
         co' = [co EXCEPT ![r] = c],
         state' = [state EXCEPT ![r] = st],
         stack' = Front(stack)
  PROVE  /\ stack' \in Seq(Frame) /\ DistinctRunners(stack')
         /\ co' \in [Runner -> {"idle", "live", "wait"}]
         /\ state' \in [Runner -> {"ready", "running", "waiting"}]
         /\ StatesOK' /\ StackOK'
<1>1. /\ stack' \in Seq(Frame) /\ DistinctRunners(stack')
      /\ Members(stack') = {g \in Members(stack) : g.r # r}
  BY TopFacts
<1>2. stack \in Seq(Frame)
  BY DEF AsyncInv, TypeOK
<1>3. \A g \in Members(stack) : g.r \in Runner
  BY <1>2, FrameMembers
<1>4. /\ co' \in [Runner -> {"idle", "live", "wait"}]
      /\ state' \in [Runner -> {"ready", "running", "waiting"}]
  BY DEF AsyncInv, TypeOK
<1>5. /\ co'[r] = c /\ state'[r] = st
      /\ \A s \in Runner : s # r => co'[s] = co[s] /\ state'[s] = state[s]
  BY DEF AsyncInv, TypeOK
<1>6. StatesOK'
  BY <1>5 DEF AsyncInv, StatesOK
<1>7. StackOK'
  <2>1. ASSUME NEW s \in Runner, co'[s] = "live" PROVE \E g \in Members(stack') : g.r = s
    BY <1>1, <1>5, <2>1 DEF AsyncInv, StackOK
  <2>2. ASSUME NEW g \in Members(stack')
        PROVE  co'[g.r] = "live" /\ state'[g.r] = IF g.kind = "run" THEN "running" ELSE "waiting"
    BY <1>1, <1>3, <1>5 DEF AsyncInv, StackOK
  <2> QED  BY <2>1, <2>2 DEF StackOK
<1> QED  BY <1>1, <1>4, <1>6, <1>7
-----------------------------------------------------------------------------
(* The invariant is preserved by run(), whether the runner is busy or not. *)
LEMMA RunInv == ASSUME AsyncInv, NEW r \in Runner, run(r) PROVE AsyncInv'
<1> DEFINE q == Append(queue[r], given[r] + 1)
<1>1. TypeOK /\ SeqsOK /\ ItemsOnceInOrder /\ strays = 0
  BY DEF AsyncInv
<1>2. given[r] < MaxItems /\ given' = [given EXCEPT ![r] = given[r] + 1] /\ StartRun(r, q, stack)
  BY DEF run
<1>3. UNCHANGED <<num, where, gqueue, guarded, ticks, strays>>
  BY DEF run, guard
<1>4. /\ q \in Seq(1..MaxItems) /\ given[r] + 1 \in 0..MaxItems /\ begun[r] \in 0..MaxItems
      /\ Pending(q, given[r] + 1, begun[r]) /\ q # <<>>
  BY <1>1, <1>2, ItemsHere, GiveItem
<1> HIDE DEF q
<1>5. CASE state[r] = "ready"
  <2>1. /\ state' = [state EXCEPT ![r] = "running"] /\ co' = [co EXCEPT ![r] = "live"]
        /\ begun' = [begun EXCEPT ![r] = begun[r] + 1] /\ queue' = [queue EXCEPT ![r] = Tail(q)]
        /\ stack' = Append(stack, [r |-> r, kind |-> "run"])
    BY <1>2, <1>4, <1>5 DEF StartRun
  <2>2. co[r] = "idle"
    BY <1>5 DEF AsyncInv, StatesOK
  <2>3. /\ stack' \in Seq(Frame) /\ DistinctRunners(stack')
        /\ co' \in [Runner -> {"idle", "live", "wait"}]
        /\ state' \in [Runner -> {"ready", "running", "waiting"}]
        /\ StatesOK' /\ StackOK'
    BY <2>1, <2>2, GoLive
  <2>4. Tail(q) \in Seq(1..MaxItems) /\ begun[r] + 1 \in 0..MaxItems
        /\ Pending(Tail(q), given[r] + 1, begun[r] + 1)
    BY <1>4, TakeItem
  <2>5. TypeOK'
    BY <1>1, <1>2, <1>3, <1>4, <2>1, <2>3, <2>4 DEF TypeOK
  <2>6. ItemsOnceInOrder'
    BY <1>1, <1>2, <2>1, <2>4, ItemsStep
  <2>7. TicksOK' /\ WaitsOK' /\ LineOK' /\ GuardOK'
    BY <1>1, <1>3, <1>5, <2>1, <2>2, ZenonT(60)
    DEF AsyncInv, TicksOK, WaitsOK, LineOK, GuardOK, TypeOK
  <2> QED  BY <1>1, <1>3, <2>3, <2>5, <2>6, <2>7 DEF AsyncInv, SeqsOK
<1>6. CASE state[r] # "ready"
  <2>1. queue' = [queue EXCEPT ![r] = q] /\ UNCHANGED <<stack, state, co, begun>>
    BY <1>2, <1>6 DEF StartRun
  <2>2. TypeOK'
    BY <1>1, <1>2, <1>3, <1>4, <2>1 DEF TypeOK
  <2>3. begun' = [begun EXCEPT ![r] = begun[r]]
    BY <1>1, <2>1 DEF TypeOK
  <2>4. ItemsOnceInOrder'
    BY <1>1, <1>2, <1>4, <2>1, <2>3, ItemsStep
  <2> QED
    BY <1>1, <1>3, <2>1, <2>2, <2>4
    DEF AsyncInv, SeqsOK, StatesOK, StackOK, TicksOK, WaitsOK, LineOK, GuardOK
<1> QED  BY <1>5, <1>6

(* ... by enqueue().                                                       *)
LEMMA EnqueueInv == ASSUME AsyncInv, NEW r \in Runner, enqueue(r) PROVE AsyncInv'
<1> DEFINE q == Append(queue[r], given[r] + 1)
<1>1. TypeOK /\ ItemsOnceInOrder
  BY DEF AsyncInv
<1>2. /\ given[r] < MaxItems /\ given' = [given EXCEPT ![r] = given[r] + 1]
      /\ queue' = [queue EXCEPT ![r] = q]
  BY <1>1 DEF enqueue, TypeOK
<1>3. UNCHANGED <<state, co, begun, num, where, gqueue, guarded, stack, ticks, strays>>
  BY DEF enqueue, guard
<1>4. /\ q \in Seq(1..MaxItems) /\ given[r] + 1 \in 0..MaxItems
      /\ Pending(q, given[r] + 1, begun[r])
  BY <1>1, <1>2, ItemsHere, GiveItem
<1> HIDE DEF q
<1>5. TypeOK'
  BY <1>1, <1>2, <1>3, <1>4 DEF TypeOK
<1>6. begun' = [begun EXCEPT ![r] = begun[r]]
  BY <1>1, <1>3 DEF TypeOK
<1>7. ItemsOnceInOrder'
  BY <1>1, <1>2, <1>4, <1>6, ItemsStep
<1> QED
  BY <1>3, <1>5, <1>7
  DEF AsyncInv, SeqsOK, StatesOK, StackOK, TicksOK, WaitsOK, LineOK, GuardOK

(* ... by next_tick's function: the runner is idle and said to wait.       *)
LEMMA TickInv == ASSUME AsyncInv, tick PROVE AsyncInv'
<1> DEFINE r == Head(ticks)
<1>1. TypeOK /\ SeqsOK /\ ItemsOnceInOrder /\ strays = 0
  BY DEF AsyncInv
<1>2. stack = <<>> /\ ticks # <<>> /\ ticks' = Tail(ticks)
  BY DEF tick
<1>3. UNCHANGED <<given, num, where, gqueue, guarded, strays>>
  BY DEF tick, guard
<1>4. /\ ticks' \in Seq(Runner) /\ Distinct(ticks') /\ r \in Members(ticks) /\ r \in Runner
      /\ Members(ticks') = Members(ticks) \ {r}
  BY <1>1, <1>2, LinePop DEF TypeOK, SeqsOK
<1>5. state[r] = "waiting" /\ co[r] = "idle"
  BY <1>4 DEF AsyncInv, TicksOK
<1>6. CASE queue[r] # <<>>
  <2>1. /\ state' = [state EXCEPT ![r] = "running"] /\ co' = [co EXCEPT ![r] = "live"]
        /\ begun' = [begun EXCEPT ![r] = begun[r] + 1]
        /\ queue' = [queue EXCEPT ![r] = Tail(queue[r])]
        /\ stack' = <<[r |-> r, kind |-> "run"]>>
    BY <1>1, <1>4, <1>6 DEF tick, TypeOK
  <2>2. stack' = Append(stack, [r |-> r, kind |-> "run"])
    BY <1>2, <2>1
  <2> HIDE DEF r
  <2>3. /\ stack' \in Seq(Frame) /\ DistinctRunners(stack')
        /\ co' \in [Runner -> {"idle", "live", "wait"}]
        /\ state' \in [Runner -> {"ready", "running", "waiting"}]
        /\ StatesOK' /\ StackOK'
    BY <1>4, <1>5, <2>1, <2>2, GoLive
  <2>4. Tail(queue[r]) \in Seq(1..MaxItems) /\ begun[r] + 1 \in 0..MaxItems
        /\ Pending(Tail(queue[r]), given[r], begun[r] + 1)
    BY <1>1, <1>4, <1>6, ItemsHere, TakeItem
  <2>5. TypeOK'
    BY <1>1, <1>3, <1>4, <2>1, <2>3, <2>4 DEF TypeOK
  <2>6. given' = [given EXCEPT ![r] = given[r]]
    BY <1>1, <1>3 DEF TypeOK
  <2>7. ItemsOnceInOrder'
    BY <1>1, <1>4, <2>1, <2>4, <2>6, ItemsStep
  <2>8. TicksOK'
    BY <1>1, <1>4, <1>5, <2>1 DEF AsyncInv, TicksOK, TypeOK
  <2>9. WaitsOK' /\ LineOK' /\ GuardOK'
    BY <1>1, <1>3, <1>4, <1>5, <2>1 DEF AsyncInv, WaitsOK, LineOK, GuardOK, TypeOK
  <2> QED  BY <1>1, <1>3, <1>4, <2>3, <2>5, <2>7, <2>8, <2>9 DEF AsyncInv, SeqsOK
<1>7. CASE queue[r] = <<>>
  <2>1. state' = [state EXCEPT ![r] = "ready"] /\ UNCHANGED <<co, begun, queue, stack>>
    BY <1>7 DEF tick
  <2> HIDE DEF r
  <2>2. /\ state'[r] = "ready" /\ \A s \in Runner : s # r => state'[s] = state[s]
    BY <1>1, <1>4, <2>1 DEF TypeOK
  <2>3. TypeOK'
    BY <1>1, <1>3, <1>4, <2>1 DEF TypeOK
  <2>4. StatesOK' /\ TicksOK'
    BY <1>4, <1>5, <2>1, <2>2 DEF AsyncInv, StatesOK, TicksOK
  <2>5. StackOK'
    BY <1>2, <2>1, EmptyMembers DEF AsyncInv, StackOK
  <2>6. ItemsOnceInOrder' /\ WaitsOK' /\ LineOK' /\ GuardOK'
    BY <1>3, <2>1 DEF AsyncInv, ItemsOnceInOrder, WaitsOK, LineOK, GuardOK
  <2> QED  BY <1>1, <1>3, <1>4, <2>1, <2>3, <2>4, <2>5, <2>6 DEF AsyncInv, SeqsOK
<1> QED  BY <1>6, <1>7

(* ... by an item that returns.                                            *)
LEMMA CompleteInv == ASSUME AsyncInv, NEW r \in Runner, complete(r) PROVE AsyncInv'
<1>1. TypeOK /\ SeqsOK /\ ItemsOnceInOrder /\ strays = 0
  BY DEF AsyncInv
<1>2. Running(r) /\ where[r] = "out" /\ num' = [num EXCEPT ![r] = -1]
  BY DEF complete
<1>3. UNCHANGED <<given, where, gqueue, guarded, strays>>
  BY DEF complete, guard
<1>4. /\ Top.r = r /\ Top \in Frame /\ co[r] = "live"
      /\ state[r] = IF Top.kind = "run" THEN "running" ELSE "waiting"
      /\ r \notin Members(ticks)
  BY <1>2, TopFacts
<1>5. num' \in [Runner -> -1..MaxNum]
  BY <1>1, <1>2, AsyncAssumption DEF TypeOK
<1>6. given' = [given EXCEPT ![r] = given[r]]
  BY <1>1, <1>3 DEF TypeOK
<1>7. CASE Top.kind = "run" /\ queue[r] # <<>>
  <2>1. /\ queue' = [queue EXCEPT ![r] = Tail(queue[r])]
        /\ begun' = [begun EXCEPT ![r] = begun[r] + 1]
        /\ UNCHANGED <<state, co, stack, ticks>>
    BY <1>1, <1>7 DEF complete, TypeOK
  <2>2. Tail(queue[r]) \in Seq(1..MaxItems) /\ begun[r] + 1 \in 0..MaxItems
        /\ Pending(Tail(queue[r]), given[r], begun[r] + 1)
    BY <1>1, <1>7, ItemsHere, TakeItem
  <2>3. TypeOK'
    BY <1>1, <1>3, <1>5, <2>1, <2>2 DEF TypeOK
  <2>4. ItemsOnceInOrder'
    BY <1>1, <1>6, <2>1, <2>2, ItemsStep
  <2>5. WaitsOK' /\ LineOK'
    BY <1>1, <1>2, <1>3, <1>4, <2>1 DEF AsyncInv, WaitsOK, LineOK, TypeOK
  <2> QED
    BY <1>1, <1>3, <2>1, <2>3, <2>4, <2>5
    DEF AsyncInv, SeqsOK, StatesOK, StackOK, TicksOK, GuardOK
<1>8. CASE Top.kind = "run" /\ queue[r] = <<>>
  <2>1. /\ state' = [state EXCEPT ![r] = "ready"] /\ co' = [co EXCEPT ![r] = "idle"]
        /\ stack' = Front(stack) /\ UNCHANGED <<queue, begun, ticks>>
    BY <1>8 DEF complete
  <2>2. /\ stack' \in Seq(Frame) /\ DistinctRunners(stack')
        /\ co' \in [Runner -> {"idle", "live", "wait"}]
        /\ state' \in [Runner -> {"ready", "running", "waiting"}]
        /\ StatesOK' /\ StackOK'
    BY <1>2, <2>1, Leave
  <2>3. TypeOK'
    BY <1>1, <1>3, <1>5, <2>1, <2>2 DEF TypeOK
  <2>4. TicksOK' /\ WaitsOK' /\ LineOK'
    BY <1>1, <1>2, <1>3, <1>4, <2>1 DEF AsyncInv, TicksOK, WaitsOK, LineOK, TypeOK
  <2>5. ItemsOnceInOrder' /\ GuardOK'
    BY <1>3, <2>1 DEF AsyncInv, ItemsOnceInOrder, GuardOK
  <2> QED  BY <1>1, <1>3, <2>1, <2>2, <2>3, <2>4, <2>5 DEF AsyncInv, SeqsOK
<1>9. CASE Top.kind # "run"
  <2>1. /\ ticks' = Append(ticks, r) /\ co' = [co EXCEPT ![r] = "idle"]
        /\ stack' = Front(stack) /\ UNCHANGED <<state, queue, begun>>
    BY <1>9 DEF complete, continued
  <2>2. state' = [state EXCEPT ![r] = "waiting"]
    BY <1>1, <1>4, <1>9, <2>1 DEF TypeOK
  <2>3. /\ stack' \in Seq(Frame) /\ DistinctRunners(stack')
        /\ co' \in [Runner -> {"idle", "live", "wait"}]
        /\ state' \in [Runner -> {"ready", "running", "waiting"}]
        /\ StatesOK' /\ StackOK'
    BY <1>2, <2>1, <2>2, Leave
  <2>4. /\ ticks' \in Seq(Runner) /\ Distinct(ticks') /\ Members(ticks') = Members(ticks) \union {r}
    BY <1>1, <1>4, <2>1, LinePush DEF TypeOK, SeqsOK
  <2>5. TypeOK'
    BY <1>1, <1>3, <1>5, <2>1, <2>3, <2>4 DEF TypeOK
  <2>6. TicksOK'
    BY <1>1, <1>4, <1>9, <2>1, <2>4 DEF AsyncInv, TicksOK, TypeOK
  <2>7. WaitsOK' /\ LineOK'
    BY <1>1, <1>2, <1>3, <1>4, <2>1 DEF AsyncInv, WaitsOK, LineOK, TypeOK
  <2>8. ItemsOnceInOrder' /\ GuardOK'
    BY <1>3, <2>1 DEF AsyncInv, ItemsOnceInOrder, GuardOK
  <2> QED  BY <1>1, <1>3, <2>3, <2>4, <2>5, <2>6, <2>7, <2>8 DEF AsyncInv, SeqsOK
<1> QED  BY <1>7, <1>8, <1>9

(* ... by an item that raises an error.                                    *)
LEMMA FailInv == ASSUME AsyncInv, NEW r \in Runner, fail(r) PROVE AsyncInv'
<1>1. TypeOK /\ SeqsOK /\ ItemsOnceInOrder /\ strays = 0
  BY DEF AsyncInv
<1>2. Running(r) /\ where[r] = "out" /\ num' = [num EXCEPT ![r] = -1]
  BY DEF fail
<1>3. UNCHANGED <<given, where, gqueue, guarded, ticks, strays>>
  BY DEF fail, guard
<1>4. /\ co[r] = "live" /\ r \notin Members(ticks)
      /\ Front(stack) \in Seq(Frame) /\ DistinctRunners(Front(stack))
      /\ Members(Front(stack)) = {g \in Members(stack) : g.r # r}
  BY <1>2, TopFacts
<1>5. num' \in [Runner -> -1..MaxNum]
  BY <1>1, <1>2, AsyncAssumption DEF TypeOK
<1>6. given' = [given EXCEPT ![r] = given[r]]
  BY <1>1, <1>3 DEF TypeOK
<1>7. CASE queue[r] # <<>>
  <2> DEFINE f == [r |-> r, kind |-> "run"]
  <2>1. /\ queue' = [queue EXCEPT ![r] = Tail(queue[r])]
        /\ begun' = [begun EXCEPT ![r] = begun[r] + 1]
        /\ state' = [state EXCEPT ![r] = "running"]
        /\ stack' = Append(Front(stack), f) /\ co' = co
    BY <1>1, <1>7 DEF fail, TypeOK
  <2>2. f \in Frame /\ f.r = r /\ f.kind = "run"
    BY DEF Frame
  <2>3. /\ stack' \in Seq(Frame) /\ DistinctRunners(stack')
        /\ Members(stack') = Members(Front(stack)) \union {f}
    BY <1>4, <2>1, <2>2, StackPush
  <2> HIDE DEF f
  <2>4. Tail(queue[r]) \in Seq(1..MaxItems) /\ begun[r] + 1 \in 0..MaxItems
        /\ Pending(Tail(queue[r]), given[r], begun[r] + 1)
    BY <1>1, <1>7, ItemsHere, TakeItem
  <2>5. TypeOK'
    BY <1>1, <1>3, <1>5, <2>1, <2>3, <2>4 DEF TypeOK
  <2>6. ItemsOnceInOrder'
    BY <1>1, <1>6, <2>1, <2>4, ItemsStep
  <2>7. state'[r] = "running" /\ \A s \in Runner : s # r => state'[s] = state[s]
    BY <1>1, <2>1 DEF TypeOK
  <2>8. StatesOK' /\ TicksOK'
    BY <1>3, <1>4, <2>1, <2>7 DEF AsyncInv, StatesOK, TicksOK
  <2>9. StackOK'
    <3>1. \A g \in Members(stack) : g.r \in Runner
      BY <1>1, FrameMembers DEF TypeOK
    <3>2. ASSUME NEW s \in Runner, co'[s] = "live" PROVE \E g \in Members(stack') : g.r = s
      BY <1>4, <2>1, <2>2, <2>3, <3>2 DEF AsyncInv, StackOK
    <3>3. ASSUME NEW g \in Members(stack')
          PROVE  co'[g.r] = "live" /\ state'[g.r] = IF g.kind = "run" THEN "running" ELSE "waiting"
      BY <1>4, <2>1, <2>2, <2>3, <2>7, <3>1 DEF AsyncInv, StackOK
    <3> QED  BY <3>2, <3>3 DEF StackOK
  <2>10. WaitsOK' /\ LineOK'
    BY <1>1, <1>2, <1>3, <1>4, <2>1 DEF AsyncInv, WaitsOK, LineOK, TypeOK
  <2>11. GuardOK'
    BY <1>3 DEF AsyncInv, GuardOK
  <2> QED  BY <1>1, <1>3, <2>3, <2>5, <2>6, <2>8, <2>9, <2>10, <2>11 DEF AsyncInv, SeqsOK
<1>8. CASE queue[r] = <<>>
  <2>1. /\ state' = [state EXCEPT ![r] = "ready"] /\ co' = [co EXCEPT ![r] = "idle"]
        /\ stack' = Front(stack) /\ UNCHANGED <<queue, begun>>
    BY <1>8 DEF fail
  <2>2. /\ stack' \in Seq(Frame) /\ DistinctRunners(stack')
        /\ co' \in [Runner -> {"idle", "live", "wait"}]
        /\ state' \in [Runner -> {"ready", "running", "waiting"}]
        /\ StatesOK' /\ StackOK'
    BY <1>2, <2>1, Leave
  <2>3. TypeOK'
    BY <1>1, <1>3, <1>5, <2>1, <2>2 DEF TypeOK
  <2>4. /\ TicksOK /\ WaitsOK /\ LineOK
        /\ state \in [Runner -> {"ready", "running", "waiting"}] /\ co \in [Runner -> {"idle", "live", "wait"}]
        /\ num \in [Runner -> -1..MaxNum]
    BY <1>1 DEF AsyncInv, TypeOK
  <2>5. TicksOK'
    BY <1>3, <1>4, <2>1, <2>4 DEF TicksOK
  <2>6. WaitsOK'
    BY <1>2, <1>3, <1>4, <2>1, <2>4 DEF WaitsOK
  <2>7. LineOK'
    BY <1>2, <1>3, <1>4, <2>1, <2>4 DEF LineOK
  <2>8. ItemsOnceInOrder' /\ GuardOK'
    BY <1>3, <2>1 DEF AsyncInv, ItemsOnceInOrder, GuardOK
  <2> QED  BY <1>1, <1>3, <2>2, <2>3, <2>5, <2>6, <2>7, <2>8 DEF AsyncInv, SeqsOK
<1> QED  BY <1>7, <1>8

(* ... by making a waiter.                                                 *)
LEMMA WaiterInv ==
  ASSUME AsyncInv, NEW r \in Runner, NEW n \in 1..MaxNum, waiter(r, n) PROVE AsyncInv'
<1>1. TypeOK
  BY DEF AsyncInv
<1>2. Running(r) /\ num' = [num EXCEPT ![r] = n]
  BY DEF waiter
<1>3. UNCHANGED <<state, co, given, begun, queue, where, gqueue, guarded, stack, ticks, strays>>
  BY DEF waiter, work, guard
<1>4. co[r] = "live"
  BY <1>2, TopFacts
<1>5. TypeOK'
  <2>1. num \in [Runner -> -1..MaxNum]
    BY <1>1 DEF TypeOK
  <2>2. n \in -1..MaxNum
    BY AsyncAssumption
  <2>3. num' \in [Runner -> -1..MaxNum]
    BY ONLY <1>2, <2>1, <2>2
  <2> QED BY <1>1, <1>3, <2>3 DEF TypeOK
<1>6. WaitsOK' /\ LineOK'
  <2>1. WaitsOK /\ LineOK /\ num \in [Runner -> -1..MaxNum]
    BY <1>1 DEF AsyncInv, TypeOK
  <2>2. \A s \in Runner : s # r => num'[s] = num[s]
    BY <1>2, <2>1
  <2>3. WaitsOK'
    BY <1>3, <1>4, <2>1, <2>2 DEF WaitsOK
  <2>4. LineOK'
    BY <1>3, <1>4, <2>1, <2>2 DEF LineOK
  <2> QED BY <2>3, <2>4
<1> QED
  BY <1>3, <1>5, <1>6
  DEF AsyncInv, SeqsOK, StatesOK, StackOK, TicksOK, GuardOK, ItemsOnceInOrder

(* ... by wait(), whether it returns or suspends the item.                 *)
LEMMA WaitInv == ASSUME AsyncInv, NEW r \in Runner, wait(r) PROVE AsyncInv'
<1>1. TypeOK /\ SeqsOK /\ strays = 0
  BY DEF AsyncInv
<1>2. Running(r) /\ num[r] >= 0
  BY DEF wait
<1>3. UNCHANGED <<given, begun, queue, where, gqueue, guarded, ticks, strays>>
  BY DEF wait, work, guard
<1>4. co[r] = "live" /\ r \notin Members(ticks) /\ num[r] \in -1..MaxNum
  BY <1>1, <1>2, TopFacts DEF TypeOK
<1>5. CASE num[r] = 0
  <2>1. num' = [num EXCEPT ![r] = -1] /\ UNCHANGED <<state, co, stack>>
    BY <1>5 DEF wait
  <2>2. TypeOK'
    BY <1>1, <1>3, <2>1, AsyncAssumption DEF TypeOK
  <2>3. WaitsOK' /\ LineOK'
    BY <1>1, <1>3, <1>4, <2>1 DEF AsyncInv, WaitsOK, LineOK, TypeOK
  <2> QED
    BY <1>3, <2>1, <2>2, <2>3
    DEF AsyncInv, SeqsOK, StatesOK, StackOK, TicksOK, GuardOK, ItemsOnceInOrder
<1>6. CASE num[r] # 0
  <2>1. /\ co' = [co EXCEPT ![r] = "wait"] /\ state' = [state EXCEPT ![r] = "waiting"]
        /\ stack' = Front(stack) /\ num' = num
    BY <1>6 DEF wait, Suspend
  <2>2. /\ stack' \in Seq(Frame) /\ DistinctRunners(stack')
        /\ co' \in [Runner -> {"idle", "live", "wait"}]
        /\ state' \in [Runner -> {"ready", "running", "waiting"}]
        /\ StatesOK' /\ StackOK'
    BY <1>2, <2>1, Leave
  <2>3. TypeOK'
    BY <1>1, <1>3, <2>1, <2>2 DEF TypeOK
  <2>4. num[r] > 0
    BY <1>2, <1>4, <1>6
  <2>5. TicksOK' /\ WaitsOK' /\ LineOK'
    BY <1>1, <1>3, <1>4, <2>1, <2>4 DEF AsyncInv, TicksOK, WaitsOK, LineOK, TypeOK
  <2>6. ItemsOnceInOrder' /\ GuardOK'
    BY <1>3, <2>1 DEF AsyncInv, ItemsOnceInOrder, GuardOK
  <2> QED  BY <1>1, <1>3, <2>2, <2>3, <2>5, <2>6 DEF AsyncInv, SeqsOK
<1> QED  BY <1>5, <1>6

(* ... by done(), which resumes the item if it is the last one.            *)
LEMMA DoneInv == ASSUME AsyncInv, NEW r \in Runner, done(r) PROVE AsyncInv'
<1>1. TypeOK /\ SeqsOK /\ strays = 0
  BY DEF AsyncInv
<1>2. num[r] > 0 /\ num' = [num EXCEPT ![r] = num[r] - 1]
  BY <1>1 DEF done, TypeOK
<1>3. UNCHANGED <<state, given, begun, queue, where, gqueue, guarded, ticks>>
  BY DEF done, work, guard
<1>4. num[r] \in -1..MaxNum /\ MaxNum \in Nat
  BY <1>1, AsyncAssumption DEF TypeOK
<1>5. num' \in [Runner -> -1..MaxNum]
  BY <1>1, <1>2, <1>4 DEF TypeOK
<1>6. co[r] # "idle" /\ where[r] # "queued"
  BY <1>2, <1>4 DEF AsyncInv, WaitsOK, LineOK
<1>7. CASE num[r] = 1 /\ co[r] = "wait"
  <2>1. /\ co' = [co EXCEPT ![r] = "live"] /\ stack' = Append(stack, [r |-> r, kind |-> "cont"])
        /\ strays' = strays
    BY <1>7 DEF done, runner_continue
  <2>2. state[r] = "waiting"
    BY <1>7 DEF AsyncInv, StatesOK
  <2>3. state' = [state EXCEPT ![r] = "waiting"]
    BY <1>1, <1>3, <2>2 DEF TypeOK
  <2>4. /\ stack' \in Seq(Frame) /\ DistinctRunners(stack')
        /\ co' \in [Runner -> {"idle", "live", "wait"}]
        /\ state' \in [Runner -> {"ready", "running", "waiting"}]
        /\ StatesOK' /\ StackOK'
    BY <1>7, <2>1, <2>3, GoLive
  <2>5. TypeOK'
    BY <1>1, <1>3, <1>5, <2>1, <2>4 DEF TypeOK
  <2>6. TicksOK' /\ WaitsOK' /\ LineOK'
    BY <1>1, <1>2, <1>3, <1>6, <1>7, <2>1 DEF AsyncInv, TicksOK, WaitsOK, LineOK, TypeOK
  <2>7. ItemsOnceInOrder' /\ GuardOK'
    BY <1>3 DEF AsyncInv, ItemsOnceInOrder, GuardOK
  <2> QED  BY <1>1, <1>3, <2>1, <2>4, <2>5, <2>6, <2>7 DEF AsyncInv, SeqsOK
<1>8. CASE ~(num[r] = 1 /\ co[r] = "wait")
  <2>1. UNCHANGED <<co, stack, strays>>
    BY <1>8 DEF done
  <2>2. TypeOK'
    BY <1>1, <1>3, <1>5, <2>1 DEF TypeOK
  <2>3. co[r] = "wait" => num'[r] > 0
    BY <1>1, <1>2, <1>4, <1>8 DEF TypeOK
  <2>4. WaitsOK' /\ LineOK'
    BY <1>1, <1>2, <1>3, <1>6, <2>1, <2>3 DEF AsyncInv, WaitsOK, LineOK, TypeOK
  <2> QED
    BY <1>3, <2>1, <2>2, <2>4
    DEF AsyncInv, SeqsOK, StatesOK, StackOK, TicksOK, GuardOK, ItemsOnceInOrder
<1> QED  BY <1>7, <1>8

(* ... by guard(id), whether the item enters or has to wait in line.       *)
LEMMA GuardEnterInv == ASSUME AsyncInv, NEW r \in Runner, guard_enter(r) PROVE AsyncInv'
<1>1. TypeOK /\ SeqsOK /\ strays = 0
  BY DEF AsyncInv
<1>2. Running(r) /\ where[r] = "out" /\ num[r] = -1
  BY DEF guard_enter
<1>3. UNCHANGED <<num, given, begun, queue, ticks, strays>>
  BY DEF guard_enter, work
<1>4. co[r] = "live" /\ r \notin Members(ticks) /\ r \notin Members(gqueue)
  BY <1>2, TopFacts
<1>5. CASE ~guarded
  <2>1. /\ guarded' = TRUE /\ where' = [where EXCEPT ![r] = "in"]
        /\ UNCHANGED <<gqueue, state, co, stack>>
    BY <1>5 DEF guard_enter
  <2>2. TypeOK'
    <3>1. guarded' \in BOOLEAN
      BY <2>1, Zenon
    <3> QED  BY <1>1, <1>3, <2>1, <3>1 DEF TypeOK
  <2>3. where'[r] = "in" /\ \A s \in Runner : s # r => where'[s] = where[s]
    BY <1>1, <2>1 DEF TypeOK
  <2>4. WaitsOK' /\ LineOK'
    BY <1>2, <1>3, <1>4, <2>1, <2>3 DEF AsyncInv, WaitsOK, LineOK
  <2>5. \A s \in Runner : where[s] # "in"
    BY <1>5 DEF AsyncInv, GuardOK
  <2>6. GuardOK'
    BY <2>1, <2>3, <2>5 DEF GuardOK
  <2> QED
    BY <1>3, <2>1, <2>2, <2>4, <2>6
    DEF AsyncInv, SeqsOK, StatesOK, StackOK, TicksOK, ItemsOnceInOrder
<1>6. CASE guarded
  <2>1. /\ co' = [co EXCEPT ![r] = "wait"] /\ state' = [state EXCEPT ![r] = "waiting"]
        /\ stack' = Front(stack) /\ where' = [where EXCEPT ![r] = "queued"]
        /\ gqueue' = Append(gqueue, r) /\ guarded' = guarded
    BY <1>6 DEF guard_enter, Suspend
  <2>2. /\ stack' \in Seq(Frame) /\ DistinctRunners(stack')
        /\ co' \in [Runner -> {"idle", "live", "wait"}]
        /\ state' \in [Runner -> {"ready", "running", "waiting"}]
        /\ StatesOK' /\ StackOK'
    BY <1>2, <2>1, Leave
  <2>3. /\ gqueue' \in Seq(Runner) /\ Distinct(gqueue')
        /\ Members(gqueue') = Members(gqueue) \union {r}
    BY <1>1, <1>4, <2>1, LinePush DEF TypeOK, SeqsOK
  <2>4. TypeOK'
    BY <1>1, <1>3, <2>1, <2>2, <2>3 DEF TypeOK
  <2>5. TicksOK' /\ WaitsOK'
    BY <1>1, <1>3, <1>4, <2>1 DEF AsyncInv, TicksOK, WaitsOK, TypeOK
  <2>6. LineOK'
    BY <1>1, <1>2, <1>3, <2>1, <2>3 DEF AsyncInv, LineOK, TypeOK
  <2>7. GuardOK'
    <3>1. \A s \in Runner : where'[s] = "in" <=> where[s] = "in"
      BY <1>1, <1>2, <2>1 DEF TypeOK
    <3> QED  BY <1>6, <2>1, <3>1 DEF AsyncInv, GuardOK
  <2>8. ItemsOnceInOrder'
    BY <1>3 DEF AsyncInv, ItemsOnceInOrder
  <2> QED  BY <1>1, <1>3, <2>2, <2>3, <2>4, <2>5, <2>6, <2>7, <2>8 DEF AsyncInv, SeqsOK
<1> QED  BY <1>5, <1>6

(* ... by exit(), which runs the next in line.                             *)
LEMMA GuardExitInv == ASSUME AsyncInv, NEW r \in Runner, guard_exit(r) PROVE AsyncInv'
<1>1. TypeOK /\ SeqsOK /\ strays = 0
  BY DEF AsyncInv
<1>2. Running(r) /\ where[r] = "in" /\ num[r] = -1
  BY DEF guard_exit
<1>3. UNCHANGED <<state, num, given, begun, queue, ticks>>
  BY DEF guard_exit, work
<1>4. co[r] = "live"
  BY <1>2, TopFacts
<1>5. CASE gqueue # <<>>
  <2> DEFINE s == Head(gqueue)
  <2>1. /\ where' = [where EXCEPT ![r] = "out", ![s] = "in"] /\ gqueue' = Tail(gqueue)
        /\ runner_continue(s, stack) /\ guarded' = guarded
    BY <1>5 DEF guard_exit
  <2>2. /\ gqueue' \in Seq(Runner) /\ Distinct(gqueue')
        /\ s \in Members(gqueue) /\ s \in Runner
        /\ Members(gqueue') = Members(gqueue) \ {s}
    BY <1>1, <1>5, <2>1, LinePop DEF TypeOK, SeqsOK
  <2> HIDE DEF s
  <2>3. where[s] = "queued" /\ co[s] = "wait" /\ num[s] = -1 /\ s # r
    BY <1>4, <2>2 DEF AsyncInv, LineOK
  <2>4. /\ co' = [co EXCEPT ![s] = "live"] /\ stack' = Append(stack, [r |-> s, kind |-> "cont"])
        /\ strays' = strays
    BY <2>1, <2>3 DEF runner_continue
  <2>5. state[s] = "waiting"
    BY <2>2, <2>3 DEF AsyncInv, StatesOK
  <2>6. state' = [state EXCEPT ![s] = "waiting"]
    BY <1>1, <1>3, <2>2, <2>5 DEF TypeOK
  <2>7. /\ stack' \in Seq(Frame) /\ DistinctRunners(stack')
        /\ co' \in [Runner -> {"idle", "live", "wait"}]
        /\ state' \in [Runner -> {"ready", "running", "waiting"}]
        /\ StatesOK' /\ StackOK'
    BY <2>2, <2>3, <2>4, <2>6, GoLive
  <2>8. /\ where'[r] = "out" /\ where'[s] = "in"
        /\ \A u \in Runner : u # r /\ u # s => where'[u] = where[u]
    BY <1>1, <2>1, <2>2, <2>3 DEF TypeOK
  <2>9. TypeOK'
    BY <1>1, <1>3, <2>1, <2>2, <2>4, <2>7 DEF TypeOK
  <2>10. TicksOK'
    BY <1>1, <1>3, <2>2, <2>3, <2>4 DEF AsyncInv, TicksOK, TypeOK
  <2>11. WaitsOK'
    BY <1>1, <1>3, <1>4, <2>2, <2>4, <2>8 DEF AsyncInv, WaitsOK, TypeOK
  <2>12. LineOK'
    BY <1>1, <1>2, <1>3, <2>2, <2>3, <2>4, <2>8, ZenonT(60) DEF AsyncInv, LineOK, TypeOK
  <2>13. GuardOK'
    <3>1. \A u \in Runner : where[u] = "in" => u = r
      BY <1>2 DEF AsyncInv, GuardOK
    <3>2. \A u \in Runner : where'[u] = "in" => u = s
      BY <2>8, <3>1
    <3>3. guarded
      BY <1>2 DEF AsyncInv, GuardOK
    <3> QED  BY <2>1, <2>2, <2>8, <3>2, <3>3 DEF GuardOK
  <2>14. ItemsOnceInOrder'
    BY <1>3 DEF AsyncInv, ItemsOnceInOrder
  <2> QED
    BY <1>1, <1>3, <2>2, <2>4, <2>7, <2>9, <2>10, <2>11, <2>12, <2>13, <2>14
    DEF AsyncInv, SeqsOK
<1>6. CASE gqueue = <<>>
  <2>1. /\ where' = [where EXCEPT ![r] = "out"] /\ guarded' = FALSE
        /\ UNCHANGED <<gqueue, co, stack, strays>>
    BY <1>6 DEF guard_exit
  <2>2. TypeOK'
    <3>1. guarded' \in BOOLEAN
      BY <2>1, Zenon
    <3> QED  BY <1>1, <1>3, <2>1, <3>1 DEF TypeOK
  <2>3. where'[r] = "out" /\ \A s \in Runner : s # r => where'[s] = where[s]
    BY <1>1, <2>1 DEF TypeOK
  <2>4. WaitsOK' /\ LineOK'
    BY <1>2, <1>3, <1>4, <2>1, <2>3 DEF AsyncInv, WaitsOK, LineOK
  <2>5. GuardOK'
    <3>1. \A s \in Runner : where'[s] # "in"
      BY <1>2, <2>3 DEF AsyncInv, GuardOK
    <3> QED  BY <1>6, <2>1, <3>1 DEF GuardOK
  <2> QED
    BY <1>3, <2>1, <2>2, <2>4, <2>5
    DEF AsyncInv, SeqsOK, StatesOK, StackOK, TicksOK, ItemsOnceInOrder
<1> QED  BY <1>5, <1>6
-----------------------------------------------------------------------------
(* Every step preserves the invariant. *)
LEMMA NextInv == ASSUME AsyncInv, [Next]_vars PROVE AsyncInv'
<1>1. CASE UNCHANGED vars
  <2>1. TypeOK'
    BY <1>1 DEF vars, AsyncInv, TypeOK
  <2>2. ItemsOnceInOrder'
    BY <1>1 DEF vars, AsyncInv, ItemsOnceInOrder
  <2>3. SeqsOK' /\ StatesOK' /\ StackOK' /\ TicksOK'
    BY <1>1 DEF vars, AsyncInv, SeqsOK, StatesOK, StackOK, TicksOK
  <2>4. WaitsOK' /\ LineOK' /\ GuardOK'
    BY <1>1 DEF vars, AsyncInv, WaitsOK, LineOK, GuardOK
  <2> QED  BY <1>1, <2>1, <2>2, <2>3, <2>4 DEF vars, AsyncInv
<1>2. CASE tick
  BY <1>2, TickInv
<1>3. ASSUME NEW r \in Runner, run(r) \/ enqueue(r) \/ done(r) \/ Step(r) PROVE AsyncInv'
  <2>1. CASE run(r)
    BY <2>1, RunInv
  <2>2. CASE enqueue(r)
    BY <2>2, EnqueueInv
  <2>3. CASE done(r)
    BY <2>3, DoneInv
  <2>4. CASE complete(r)
    BY <2>4, CompleteInv
  <2>5. CASE fail(r)
    BY <2>5, FailInv
  <2>6. CASE wait(r)
    BY <2>6, WaitInv
  <2>7. CASE guard_enter(r)
    BY <2>7, GuardEnterInv
  <2>8. CASE guard_exit(r)
    BY <2>8, GuardExitInv
  <2>9. ASSUME NEW n \in 1..MaxNum, waiter(r, n) PROVE AsyncInv'
    BY <2>9, WaiterInv
  <2> QED  BY <1>3, <2>1, <2>2, <2>3, <2>4, <2>5, <2>6, <2>7, <2>8, <2>9 DEF Step
<1> QED  BY <1>1, <1>2, <1>3 DEF Next

(* The inductive invariant holds. *)
LEMMA AsyncInvariant == Spec => []AsyncInv
<1>1. AsyncInit => AsyncInv
  BY InitInv
<1>2. AsyncInv /\ [Next]_vars => AsyncInv'
  BY NextInv
<1> QED  BY <1>1, <1>2, PTL DEF Spec

(* However run(), done() and exit() nest, no coroutine is resumed while it *)
(* is active, and runner.state tells the truth about it.                   *)
THEOREM RunnerInvariant == Spec => []RunnerInv
<1>1. AsyncInv => RunnerInv
  <2> SUFFICES ASSUME AsyncInv PROVE RunnerInv
    OBVIOUS
  <2>1. NoReentry
    BY DEF AsyncInv, SeqsOK, DistinctRunners, NoReentry
  <2>2. ASSUME NEW r \in Runner, state[r] = "ready"
        PROVE  co[r] = "idle" /\ \A i \in DOMAIN ticks : ticks[i] # r
    BY <2>2 DEF AsyncInv, StatesOK, TicksOK, Members
  <2>3. ASSUME NEW r \in Runner PROVE co[r] = "live" <=> \E i \in DOMAIN stack : stack[i].r = r
    BY DEF AsyncInv, StackOK, Members
  <2>4. ASSUME NEW r \in Runner, NEW i \in DOMAIN stack, stack[i].r = r
        PROVE  state[r] = IF stack[i].kind = "run" THEN "running" ELSE "waiting"
    BY <2>4 DEF AsyncInv, StackOK, Members
  <2>5. StateMatches
    BY <2>2, <2>3, <2>4 DEF AsyncInv, StatesOK, StateMatches
  <2> QED  BY <2>1, <2>5 DEF AsyncInv, RunnerInv
<1> QED  BY <1>1, AsyncInvariant, PTL

(* Every item is started once, in the order it was given.                  *)
THEOREM ItemsInvariant == Spec => []ItemsOnceInOrder
<1>1. AsyncInv => ItemsOnceInOrder
  BY DEF AsyncInv
<1> QED  BY <1>1, AsyncInvariant, PTL

(* The guard admits one item at a time and everyone in line is suspended.  *)
THEOREM GuardInvariant == Spec => []GuardExclusive
<1>1. AsyncInv => GuardExclusive
  <2> SUFFICES ASSUME AsyncInv PROVE GuardExclusive
    OBVIOUS
  <2>1. ASSUME NEW i \in DOMAIN gqueue
        PROVE  where[gqueue[i]] = "queued" /\ co[gqueue[i]] = "wait"
    <3>1. gqueue[i] \in Runner /\ gqueue[i] \in Members(gqueue)
      BY DEF AsyncInv, TypeOK, Members
    <3> QED  BY <3>1 DEF AsyncInv, LineOK
  <2> QED  BY <2>1 DEF AsyncInv, GuardOK, GuardExclusive
<1> QED  BY <1>1, AsyncInvariant, PTL

(* No wake-up is wasted, and when nothing is left to deliver every runner  *)
(* is ready: nobody waits for a wake-up that will not come.                *)
THEOREM NobodyIsStranded == Spec => []WakeupsMatch
<1>1. AsyncInv => WakeupsMatch
  <2> SUFFICES ASSUME AsyncInv, stack = <<>>, ticks = <<>>, \A r \in Runner : num[r] <= 0
               PROVE  \A r \in Runner : state[r] = "ready"
    BY DEF WakeupsMatch, NobodyStranded, NoStrayWakeup, AsyncInv
  <2>1. \A r \in Runner : co[r] # "live"
    BY EmptyMembers DEF AsyncInv, StackOK
  <2>2. \A r \in Runner : num[r] \in -1..MaxNum
    BY DEF AsyncInv, TypeOK
  <2>3. MaxNum \in Nat
    BY AsyncAssumption
  <2>4. \A r \in Runner : co[r] = "wait" => where[r] = "queued"
    BY <2>2, <2>3 DEF AsyncInv, WaitsOK
  <2>5. \A r \in Runner : where[r] # "in"
    BY <2>1, <2>4 DEF AsyncInv, WaitsOK, TypeOK
  <2>6. gqueue = <<>>
    BY <2>5 DEF AsyncInv, GuardOK
  <2>7. \A r \in Runner : co[r] = "idle"
    BY <2>1, <2>4, <2>6, EmptyMembers DEF AsyncInv, LineOK, TypeOK
  <2> QED  BY <2>7, EmptyMembers DEF AsyncInv, StatesOK, TicksOK, TypeOK
<1> QED  BY <1>1, AsyncInvariant, PTL
=============================================================================
