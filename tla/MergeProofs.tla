----------------------------- MODULE MergeProofs -----------------------------
(***************************************************************************)
(* What is merged or copied stays as it is, for any inputs on any heap.    *)
(* The addresses are divided into those of the inputs and the rest, and    *)
(* whatever the merge writes to is among the rest: a copy lists only       *)
(* copies, a call reads from the inputs and writes to copies.  Whatever is *)
(* live is then the inputs', a copy's under way, the merged block's or     *)
(* about to be freed, and only one of them has it.  Objects keep their     *)
(* kinds, and so the variables their types.  And the result is the union   *)
(* of the inputs: each copied block has a path, at which blocks of the     *)
(* inputs stand, and what has been taken over grows by the steps of the    *)
(* merge until it is every block of every input.                           *)
(***************************************************************************)
EXTENDS Merge, TreeProofs, Induction, SequenceTheorems

Old == {a \in Addr : given.heap[a].kind # "none"}
New == Addr \ Old

\* A heap on which the inputs are as given, and the others list no input.
HeapOk(h) == /\ h = [a \in Addr |-> h[a]]
             /\ \A a \in Old : h[a] = given.heap[a]
             /\ \A a \in New : Object(h[a], New)

Pairs  == Old \X (New \cup {Null})
Frames == [copy : BOOLEAN, src : Old, dst : New, d : Nat, subs : {Null} \cup Seq(Pairs)]
\* The calls that wait for another have matched their subblocks.
Callers == [copy : BOOLEAN, src : Old, dst : New, d : Nat, subs : Seq(Pairs)]
StackOk(s) == s \in Seq(Frames) /\ (s # <<>> => SubSeq(s, 1, Len(s) - 1) \in Seq(Callers))

\* What InputsUntouched needs of every variable to hold after the next step.
MergeInv == /\ given \in Forests /\ HeapOk(heap)
            /\ zap \subseteq New /\ root \in New \cup {Null} /\ next \in Nat \ {0}
            /\ StackOk(stack)

\* What the inputs list are inputs, and their directives list nothing.
LEMMA InputsWhole ==
  ASSUME given \in Forests
  PROVE  /\ \A a \in Old : /\ given.heap[a].dirs \in Seq(Old) /\ given.heap[a].subs \in Seq(Old)
                           /\ Object(given.heap[a], Old)
         /\ \A a \in Old : \A k \in 1..Len(given.heap[a].dirs) :
              Object(given.heap[given.heap[a].dirs[k]], New)
         /\ Inputs \in Seq(Old) /\ Inputs # <<>>
         /\ \A a \in New : Object(given.heap[a], New)
         /\ given.heap = [a \in Addr |-> given.heap[a]]
<1> DEFINE h == given.heap
<1>1. ASSUME NEW a \in Addr
      PROVE  /\ h[a] = [kind |-> h[a].kind, name |-> h[a].name, args |-> h[a].args,
                        dirs |-> h[a].dirs, subs |-> h[a].subs]
             /\ h[a].kind = "none" => h[a] = NoObject
             /\ h[a].dirs \in Seq(Addr) /\ h[a].subs \in Seq(Addr)
             /\ \A d \in Elements(h[a].dirs) :
                  h[d].kind = "directive" /\ h[d].dirs = <<>> /\ h[d].subs = <<>>
             /\ \A b \in Elements(h[a].subs) : h[b].kind = "block"
  BY ForestAssumption, Zenon
<1>2. /\ given.roots \in Seq(Addr) \ {<<>>}
      /\ \A r \in Elements(given.roots) : h[r].kind = "block"
  BY ForestAssumption, Zenon
<1> HIDE DEF h
<1>4. ASSUME NEW s \in Seq(Addr), NEW S, \A x \in Elements(s) : x \in S PROVE s \in Seq(S)
  BY <1>4 DEF Elements
<1>5. Old = {a \in Addr : h[a].kind # "none"}
  BY DEF Old, h
<1>3. Inputs \in Seq(Old) /\ Inputs # <<>>
  <2>1. \A x \in Elements(given.roots) : x \in Addr
    BY <1>2 DEF Elements
  <2> QED BY <2>1, <1>2, <1>4, <1>5 DEF Inputs
<1>6. ASSUME NEW a \in Addr, NEW s \in {h[a].dirs, h[a].subs}, NEW x \in Elements(s)
      PROVE x \in Old
  <2>1. s \in Seq(Addr)
    <3>1. h[a].dirs \in Seq(Addr) /\ h[a].subs \in Seq(Addr)
      BY <1>1, Zenon
    <3> QED BY <3>1
  <2>2. x \in Addr
    BY <2>1 DEF Elements
  <2>3. CASE s = h[a].dirs
    <3>1. h[x].kind = "directive"
      BY <1>1, <2>3
    <3> QED BY <2>2, <3>1, <1>5
  <2>4. CASE s = h[a].subs
    <3>1. h[x].kind = "block"
      BY <1>1, <2>4
    <3> QED BY <2>2, <3>1, <1>5
  <2> QED BY <2>3, <2>4
<1>7. ASSUME NEW a \in Old
      PROVE  h[a].dirs \in Seq(Old) /\ h[a].subs \in Seq(Old) /\ Object(h[a], Old)
  <2>1. a \in Addr
    BY <1>5
  <2>2. h[a].dirs \in Seq(Old) /\ h[a].subs \in Seq(Old)
    BY <2>1, <1>1, <1>4, <1>6
  <2> QED BY <2>1, <2>2, <1>1, Zenon DEF Object
<1>8. ASSUME NEW a \in Old, NEW k \in 1..Len(h[a].dirs) PROVE Object(h[h[a].dirs[k]], New)
  <2>1. a \in Addr /\ h[a].dirs[k] \in Elements(h[a].dirs)
    BY <1>5 DEF Elements
  <2> DEFINE d == h[a].dirs[k]
  <2>2. d \in Addr /\ h[d].dirs = <<>> /\ h[d].subs = <<>>
    BY <2>1, <1>1, <1>6, <1>5
  <2>3. h[d] = [kind |-> h[d].kind, name |-> h[d].name, args |-> h[d].args,
                dirs |-> h[d].dirs, subs |-> h[d].subs]
    BY <2>2, <1>1, Zenon
  <2>4. <<>> \in Seq(New)
    OBVIOUS
  <2> QED BY <2>2, <2>3, <2>4, Zenon DEF Object
<1>9. ASSUME NEW a \in New PROVE Object(h[a], New)
  <2>1. a \in Addr /\ h[a].kind = "none"
    BY <1>5 DEF New
  <2>2. h[a] = NoObject
    BY <2>1, <1>1
  <2>3. NoObject = [kind |-> "none", name |-> Null, args |-> <<>>, dirs |-> <<>>, subs |-> <<>>]
    BY DEF NoObject
  <2>4. h[a].dirs = <<>> /\ h[a].subs = <<>> /\ <<>> \in Seq(New)
    BY <2>2, <2>3
  <2> QED BY <2>1, <2>4, <1>1, Zenon DEF Object
<1>10. h = [a \in Addr |-> h[a]]
  BY ForestAssumption, Zenon DEF h
<1> QED BY <1>3, <1>7, <1>8, <1>9, <1>10, Zenon DEF h

\* An address is written that is none of the inputs'.
LEMMA StoreOk ==
  ASSUME NEW h, HeapOk(h), NEW a \in New, NEW o, Object(o, New)
  PROVE  HeapOk([h EXCEPT ![a] = o])
<1> DEFINE g == [h EXCEPT ![a] = o]
<1>1. a \in Addr /\ a \notin Old /\ h = [x \in Addr |-> h[x]]
  BY DEF New, HeapOk
<1>2. g = [x \in Addr |-> IF x = a THEN o ELSE h[x]]
  BY <1>1
<1>3. \A x \in Old : x \in Addr /\ x # a
  BY <1>1 DEF Old
<1>4. \A x \in New : x \in Addr
  BY DEF New
<1> HIDE DEF g
<1>5. /\ \A x \in Old : g[x] = given.heap[x]
      /\ \A x \in New : Object(g[x], New)
  BY <1>2, <1>3, <1>4 DEF HeapOk
<1> QED
  <2>1. g = [x \in Addr |-> g[x]]
    BY <1>2
  <2>2. HeapOk(g)
    BY <2>1, <1>5 DEF HeapOk
  <2> QED BY <2>2 DEF g

\* A copy is given a copy to list.
LEMMA ListOk ==
  ASSUME NEW h, HeapOk(h), NEW b \in New, NEW x \in New
  PROVE  HeapOk(WithDirective(h, b, x)) /\ HeapOk(WithSubblock(h, b, x))
<1> DEFINE o == h[b]
           od == [o EXCEPT !.dirs = Append(@, x)]
           os == [o EXCEPT !.subs = Append(@, x)]
<1>1. Object(o, New) /\ b \in Addr /\ h = [a \in Addr |-> h[a]]
  BY DEF HeapOk, New
<1>2. \A s \in Seq(New) : Append(s, x) \in Seq(New)
  OBVIOUS
<1>2a. PICK k, n, g, d, s : o = [kind |-> k, name |-> n, args |-> g, dirs |-> d, subs |-> s]
  BY <1>1, Zenon DEF Object
<1>3. od = [kind |-> o.kind, name |-> o.name, args |-> o.args,
            dirs |-> Append(o.dirs, x), subs |-> o.subs]
  BY <1>2a
<1>4. os = [kind |-> o.kind, name |-> o.name, args |-> o.args,
            dirs |-> o.dirs, subs |-> Append(o.subs, x)]
  BY <1>2a
<1>5. Object(od, New) /\ Object(os, New)
  <2>1. /\ o.dirs \in Seq(New) /\ o.subs \in Seq(New)
        /\ Append(o.dirs, x) \in Seq(New) /\ Append(o.subs, x) \in Seq(New)
    BY <1>1, <1>2 DEF Object
  <2> HIDE DEF o, od, os
  <2> QED BY <1>3, <1>4, <2>1 DEF Object
<1>6. WithDirective(h, b, x) = [h EXCEPT ![b] = od] /\ WithSubblock(h, b, x) = [h EXCEPT ![b] = os]
  BY <1>1 DEF WithDirective, WithSubblock
<1> HIDE DEF o, od, os
<1>7. HeapOk([h EXCEPT ![b] = od]) /\ HeapOk([h EXCEPT ![b] = os])
  BY <1>5, StoreOk
<1> QED BY <1>6, <1>7

\* What malloc gives out is none of the inputs'.
LEMMA MallocNew ==
  ASSUME HeapOk(heap), Unused # {}
  PROVE  Malloc \in New
<1>1. Malloc \in Unused
  BY DEF Malloc
<1>2. Malloc \in Addr /\ heap[Malloc].kind = "none"
  BY <1>1 DEF Unused, Live
<1> QED BY <1>2 DEF HeapOk, New, Old

\* Where the stack is not empty, its last call is one, and so are the others.
LEMMA StackFacts ==
  ASSUME StackOk(stack), stack # <<>>
  PROVE  Top \in Frames /\ Below \in Seq(Callers)
         /\ Top.src \in Old /\ Top.dst \in New /\ Top.subs \in {Null} \cup Seq(Pairs)
<1>1. \A S : \A s \in Seq(S) : s # <<>> => s[Len(s)] \in S
  OBVIOUS
<1>2. Top \in Frames /\ Below \in Seq(Callers)
  BY <1>1, Zenon DEF Top, Below, StackOk
<1> QED BY <1>2 DEF Frames

\* The least of some places is one of them.
LEMMA FirstIn ==
  ASSUME NEW n \in Nat, NEW m, m \subseteq 1..n, m # {}
  PROVE  First(m) \in m
<1>1. m \subseteq Nat
  OBVIOUS
<1>2. PICK k \in m : \A j \in m : ~(<<j, k>> \in OpToRel(<, Nat))
  BY <1>1, NatLessThanWellFounded, WFMin
<1>3. \A j \in m : k <= j
  <2>1. SUFFICES ASSUME NEW j \in m, j < k PROVE FALSE
    BY <1>1
  <2>2. <<j, k>> \in {ss \in Nat \X Nat : ss[1] < ss[2]}
    BY <1>1, <2>1
  <2>3. OpToRel(<, Nat) = {ss \in Nat \X Nat : ss[1] < ss[2]}
    BY Zenon DEF OpToRel
  <2> QED BY <1>2, <2>2, <2>3, Zenon
<1> QED BY <1>3 DEF First

\* The subblock to do next is one of those to do, and it can be taken off.
LEMMA DueFacts ==
  ASSUME NEW P, NEW pairs \in Seq(P)
  PROVE  /\ pairs # <<>> => pairs[Due(pairs)] \in P
         /\ RemoveAt(pairs, Due(pairs)) \in Seq(P)
<1> DEFINE m == {k \in 1..Len(pairs) : pairs[k][2] # Null}
<1>1. CASE pairs = <<>>
  <2>1. Due(pairs) = 1
    BY <1>1 DEF Due
  <2>2. RemoveAt(<<>>, 1) = <<>>
    BY DEF RemoveAt
  <2> QED BY <1>1, <2>1, <2>2
<1>2. CASE pairs # <<>>
  <2>0. Len(pairs) \in Nat /\ Len(pairs) >= 1
    BY <1>2
  <2>1. Due(pairs) \in 1..Len(pairs)
    <3>1. CASE m = {}
      BY <2>0, <3>1 DEF Due
    <3>2. CASE m # {}
      <4>1. m \subseteq 1..Len(pairs) /\ Due(pairs) = First(m)
        BY <3>2 DEF Due
      <4> HIDE DEF m
      <4> QED BY <2>0, <3>2, <4>1, FirstIn
    <3> QED BY <3>1, <3>2
  <2>2. \A S : \A s \in Seq(S) : \A k \in 1..Len(s) :
          s[k] \in S /\ RemoveAt(s, k) \in Seq(S)
    <3>1. ASSUME NEW S, NEW s \in Seq(S), NEW k \in 1..Len(s)
          PROVE  s[k] \in S /\ RemoveAt(s, k) \in Seq(S)
      <4>1. SubSeq(s, 1, k - 1) \in Seq(S) /\ SubSeq(s, k + 1, Len(s)) \in Seq(S)
        OBVIOUS
      <4>2. \A u, v \in Seq(S) : u \o v \in Seq(S)
        OBVIOUS
      <4> QED BY <4>1, <4>2 DEF RemoveAt
    <3> QED BY <3>1
  <2> QED BY <2>1, <2>2
<1> QED BY <1>1, <1>2
-----------------------------------------------------------------------------
\* The parts of a call: it reads an input and writes a copy.
LEMMA CallOk ==
  ASSUME NEW copy \in BOOLEAN, NEW src \in Old, NEW dst \in New
  PROVE  Call(copy, src, dst) \in Frames
BY DEF Call, Frames

\* A call with other subblocks to do.
LEMMA FrameSubs ==
  ASSUME NEW f \in Frames, NEW p \in Seq(Pairs)
  PROVE  [f EXCEPT !.subs = p] \in Frames
<1> DEFINE S == Seq(Pairs)
<1>1. p \in S
  OBVIOUS
<1>2. Frames = [copy : BOOLEAN, src : Old, dst : New, d : Nat, subs : {Null} \cup S]
  BY DEF Frames
<1> HIDE DEF S
<1> QED BY <1>1, <1>2

\* A call that has matched its subblocks may wait for another.
LEMMA CallerSubs ==
  ASSUME NEW f \in Frames, NEW p \in Seq(Pairs)
  PROVE  [f EXCEPT !.subs = p] \in Callers
<1> DEFINE S == Seq(Pairs)
<1>1. p \in S
  OBVIOUS
<1>2. /\ Frames = [copy : BOOLEAN, src : Old, dst : New, d : Nat, subs : {Null} \cup S]
      /\ Callers = [copy : BOOLEAN, src : Old, dst : New, d : Nat, subs : S]
  BY DEF Frames, Callers
<1> HIDE DEF S
<1> QED BY <1>1, <1>2

\* A call that waits for another is a call.
LEMMA CallerFrame == Callers \subseteq Frames
<1> DEFINE S == Seq(Pairs)
<1>1. /\ Frames = [copy : BOOLEAN, src : Old, dst : New, d : Nat, subs : {Null} \cup S]
      /\ Callers = [copy : BOOLEAN, src : Old, dst : New, d : Nat, subs : S]
  BY DEF Frames, Callers
<1> HIDE DEF S
<1> QED BY <1>1

\* Any call waits for none if it comes last.
LEMMA StackGrows ==
  ASSUME NEW s \in Seq(Callers)
  PROVE  StackOk(s) /\ \A f \in Frames : StackOk(Append(s, f))
<1>1. Callers \subseteq Frames
  BY CallerFrame
<1>2. \A S, T : S \subseteq T => \A q \in Seq(S) : q \in Seq(T)
  OBVIOUS
<1>3. \A S : \A q \in Seq(S) : q # <<>> => SubSeq(q, 1, Len(q) - 1) \in Seq(S)
  OBVIOUS
<1>4. \A S : \A q \in Seq(S) : \A f \in S : Append(q, f) \in Seq(S)
  OBVIOUS
<1>5. \A S : \A q \in Seq(S) : \A f : SubSeq(Append(q, f), 1, Len(Append(q, f)) - 1) = q
  OBVIOUS
<1>6. s \in Seq(Frames)
  BY <1>1, <1>2, Zenon
<1>7. StackOk(s)
  BY <1>3, <1>6, Zenon DEF StackOk
<1>8. ASSUME NEW f \in Frames PROVE StackOk(Append(s, f))
  <2>1. Append(s, f) \in Seq(Frames)
    BY <1>4, <1>6, Zenon
  <2>2. SubSeq(Append(s, f), 1, Len(Append(s, f)) - 1) = s
    BY <1>5, Zenon
  <2> QED BY <2>1, <2>2, Zenon DEF StackOk
<1> QED BY <1>7, <1>8

\* A step that does not touch the inputs' record: what remains to be seen.
LEMMA StepOk ==
  ASSUME MergeInv, given' = given, HeapOk(heap'), zap' \subseteq New,
         root' \in New \cup {Null}, next' \in Nat \ {0}, StackOk(stack')
  PROVE  MergeInv'
<1>1. New' = New /\ Old' = Old
  BY DEF New, Old
<1>2. Frames' = Frames /\ Callers' = Callers
  BY <1>1 DEF Frames, Pairs, Callers
<1>3. HeapOk(heap)'
  BY <1>1 DEF HeapOk
<1>4. StackOk(stack)'
  BY <1>2 DEF StackOk
<1> QED BY <1>1, <1>3, <1>4 DEF MergeInv

\* What is given up is a copy.
LEMMA AbortOk ==
  ASSUME MergeInv, NEW reason, Abort(reason)
  PROVE  MergeInv'
<1>1. \A k \in 1..Len(stack) : stack[k].dst \in New
  <2>1. \A S : \A s \in Seq(S) : \A k \in 1..Len(s) : s[k] \in S
    OBVIOUS
  <2>2. \A k \in 1..Len(stack) : stack[k] \in Frames
    BY <2>1, Zenon DEF MergeInv, StackOk
  <2> QED BY <2>2 DEF Frames
<1>2. /\ zap' = {stack[k].dst : k \in {j \in 1..Len(stack) : stack[j].copy}}
                  \cup ({root} \ {Null})
      /\ stack' = <<>> /\ root' = Null /\ given' = given /\ heap' = heap /\ next' = next
  BY DEF Abort
<1>3. zap' \subseteq New
  BY <1>1, <1>2 DEF MergeInv
<1>4. StackOk(<<>>)
  BY DEF StackOk
<1> QED BY <1>2, <1>3, <1>4, StepOk DEF MergeInv

\* A crash, or a failure, wherever it happens.
LEMMA StopOk ==
  ASSUME MergeInv, (\E how : Crash(how)) \/ (\E o : Fails(o))
  PROVE  MergeInv'
<1>1. ASSUME NEW how, Crash(how) PROVE MergeInv'
  BY <1>1, StepOk DEF Crash, MergeInv
<1>2. ASSUME NEW o, Fails(o) PROVE MergeInv'
  BY <1>1, <1>2, AbortOk DEF Fails
<1> QED BY <1>1, <1>2

\* A new block lists nothing.
LEMMA BlockObject ==
  ASSUME NEW name, NEW args
  PROVE  Object(Block(name, args), New)
<1>1. Block(name, args) =
        [kind |-> "block", name |-> name, args |-> args, dirs |-> <<>>, subs |-> <<>>]
  <2> DEFINE o0 == NoObject
             o1 == [o0 EXCEPT !.kind = "block"]
             o2 == [o1 EXCEPT !.name = name]
             o3 == [o2 EXCEPT !.args = args]
  <2>1. o0 = [kind |-> "none", name |-> Null, args |-> <<>>, dirs |-> <<>>, subs |-> <<>>]
    BY DEF NoObject
  <2>2. o1 = [kind |-> "block", name |-> Null, args |-> <<>>, dirs |-> <<>>, subs |-> <<>>]
    <3> HIDE DEF o0
    <3> QED BY <2>1
  <2>3. o2 = [kind |-> "block", name |-> name, args |-> <<>>, dirs |-> <<>>, subs |-> <<>>]
    <3> HIDE DEF o1
    <3> QED BY <2>2
  <2>4. o3 = [kind |-> "block", name |-> name, args |-> args, dirs |-> <<>>, subs |-> <<>>]
    <3> HIDE DEF o2
    <3> QED BY <2>3
  <2> QED BY <2>4, Zenon DEF Block
<1>2. <<>> \in Seq(New)
  OBVIOUS
<1> DEFINE o == [kind |-> "block", name |-> name, args |-> args, dirs |-> <<>>, subs |-> <<>>]
<1>3. o = [kind |-> o.kind, name |-> o.name, args |-> o.args, dirs |-> o.dirs, subs |-> o.subs]
      /\ o.dirs = <<>> /\ o.subs = <<>>
  OBVIOUS
<1> HIDE DEF o
<1>4. Object(o, New)
  BY <1>2, <1>3, Zenon DEF Object
<1> QED BY <1>1, <1>4 DEF o

\* A copy is begun of an input.
LEMMA BeginCopyOk ==
  ASSUME MergeInv, NEW b \in Old, BeginCopy(b), stack \in Seq(Callers)
  PROVE  MergeInv'
<1>1. PICK o \in Outcomes(Build(heap[b].args)) :
        \/ /\ o = "ok"
           /\ heap' = [heap EXCEPT ![Malloc] = Block(heap[b].name, heap[b].args)]
           /\ stack' = Append(stack, Call(TRUE, b, Malloc))
           /\ UNCHANGED <<zap, broken, given, root, next, outcome, clash>>
        \/ Fails(o)
  BY DEF BeginCopy
<1>2. CASE Fails(o)
  BY <1>2, StopOk
<1>3. CASE ~Fails(o)
  <2>1. o = "ok" /\ Unused # {}
    BY <1>1, <1>3 DEF Outcomes
  <2>2. Malloc \in New
    BY <2>1, MallocNew DEF MergeInv
  <2>3. Object(Block(heap[b].name, heap[b].args), New)
    BY BlockObject
  <2>4. HeapOk(heap')
    <3> DEFINE o1 == Block(heap[b].name, heap[b].args)
    <3>1. heap' = [heap EXCEPT ![Malloc] = o1] /\ Object(o1, New)
      BY <1>1, <1>3, <2>3
    <3> HIDE DEF o1
    <3>2. HeapOk([heap EXCEPT ![Malloc] = o1])
      BY <2>2, <3>1, StoreOk DEF MergeInv
    <3> QED BY <3>1, <3>2
  <2>5. StackOk(stack')
    BY <1>1, <1>3, <2>2, CallOk, StackGrows
  <2> QED BY <1>1, <1>3, <2>4, <2>5, StepOk DEF MergeInv
<1> QED BY <1>2, <1>3
-----------------------------------------------------------------------------
\* A new call is begun, or the next input.
LEMMA NextInputOk ==
  ASSUME MergeInv, NextInput
  PROVE  MergeInv'
<1>1. stack \in Seq(Callers) /\ stack = <<>>
  BY DEF NextInput
<1>2. Inputs \in Seq(Old) /\ Inputs # <<>>
  BY InputsWhole DEF MergeInv
<1>3. CASE BeginCopy(Inputs[1])
  BY <1>1, <1>2, <1>3, BeginCopyOk
<1>4. CASE /\ root # Null /\ next <= Len(Inputs)
           /\ stack' = <<Call(FALSE, Inputs[next], root)>>
           /\ UNCHANGED <<heap, zap, broken, given, root, next, outcome, clash>>
  <2>2. Call(FALSE, Inputs[next], root) \in Frames
    <3>1. \A S : \A q \in Seq(S) : \A k \in Nat \ {0} : k <= Len(q) => q[k] \in S
      OBVIOUS
    <3>2. next \in Nat \ {0} /\ root \in New
      BY <1>4 DEF MergeInv
    <3>3. Inputs[next] \in Old
      BY <1>2, <1>4, <3>1, <3>2, Zenon
    <3> QED BY <3>2, <3>3, CallOk
  <2>3. StackOk(Append(stack, Call(FALSE, Inputs[next], root)))
    BY <1>1, <2>2, StackGrows
  <2> QED BY <1>1, <1>4, <2>3, StepOk DEF MergeInv
<1>5. CASE UNCHANGED <<heap, zap, broken, given, root, next, stack, clash>>
  BY <1>5, StepOk DEF MergeInv
<1> QED BY <1>3, <1>4, <1>5, Zenon DEF NextInput

\* A directive is copied, found or in conflict.
LEMMA MergeDirectiveOk ==
  ASSUME MergeInv, MergeDirective
  PROVE  MergeInv'
<1> DEFINE dir == Src.dirs[Top.d + 1]
<1>1. /\ stack # <<>> /\ Top \in Frames /\ Below \in Seq(Callers)
      /\ Top.src \in Old /\ Top.dst \in New
  BY StackFacts DEF MergeDirective, MergeInv
<1>2. Object(heap[dir], New)
  <2>1. /\ Src = given.heap[Top.src] /\ Src.dirs \in Seq(Old)
        /\ \A k \in 1..Len(Src.dirs) : Object(given.heap[Src.dirs[k]], New)
    BY <1>1, InputsWhole DEF MergeInv, HeapOk, Src
  <2>2. Top.d + 1 \in 1..Len(Src.dirs)
    <3>1. Top.d \in Nat /\ Top.d < Len(Src.dirs)
      BY <1>1 DEF MergeDirective, Frames
    <3>2. Len(Src.dirs) \in Nat
      BY <2>1
    <3> QED BY <3>1, <3>2
  <2>3. dir \in Old
    BY <2>1, <2>2
  <2> QED BY <2>1, <2>2, <2>3 DEF MergeInv, HeapOk
<1>3. ASSUME Advance PROVE StackOk(stack')
  <2>1. [Top EXCEPT !.d = @ + 1] \in Frames
    <3> DEFINE S == {Null} \cup Seq(Pairs)
    <3>1. Frames = [copy : BOOLEAN, src : Old, dst : New, d : Nat, subs : S]
      BY DEF Frames
    <3> HIDE DEF S
    <3> QED BY <1>1, <3>1
  <2> QED BY <1>1, <1>3, <2>1, StackGrows DEF Advance
<1>4. \/ \E o \in Outcomes(Build(heap[dir].args) \cup Grow(Dst.dirs)) :
           \/ /\ o = "ok" /\ Advance
              /\ heap' = WithDirective([heap EXCEPT ![Malloc] = heap[dir]], Top.dst, Malloc)
              /\ UNCHANGED <<zap, broken, given, root, next, outcome, clash>>
           \/ Fails(o)
      \/ Advance /\ UNCHANGED <<heap, zap, broken, given, root, next, outcome, clash>>
      \/ Abort("duplicate")
      \/ Crash("NULL argument")
  BY Zenon DEF MergeDirective
<1>5. ASSUME NEW o \in Outcomes(Build(heap[dir].args) \cup Grow(Dst.dirs)),
             o = "ok", Advance,
             heap' = WithDirective([heap EXCEPT ![Malloc] = heap[dir]], Top.dst, Malloc),
             UNCHANGED <<zap, broken, given, root, next, outcome, clash>>
      PROVE  MergeInv'
  <2>1. Malloc \in New
    BY <1>5, MallocNew DEF MergeInv, Outcomes
  <2>2. HeapOk([heap EXCEPT ![Malloc] = heap[dir]])
    BY <1>2, <2>1, StoreOk DEF MergeInv
  <2>3. HeapOk(heap')
    BY <1>1, <1>5, <2>1, <2>2, ListOk
  <2> QED BY <1>3, <1>5, <2>3, StepOk DEF MergeInv
<1>6. CASE Advance /\ UNCHANGED <<heap, zap, broken, given, root, next, outcome, clash>>
  BY <1>3, <1>6, StepOk DEF MergeInv
<1> QED BY <1>4, <1>5, <1>6, StopOk, AbortOk

\* A match is a subblock of the block merged into.
LEMMA MatchIn ==
  ASSUME NEW S, Dst.subs \in Seq(S), NEW s
  PROVE  Match(s) \in S \cup {Null}
<1> DEFINE same == {j \in Compared(s) : BlockEquals(heap[Dst.subs[j]], heap[s])}
<1>1. same \subseteq 1..Len(Dst.subs)
  BY DEF Compared
<1>2. CASE same = {}
  BY <1>2 DEF Match
<1>3. CASE same # {}
  <2>1. First(same) \in same
    <3>1. Len(Dst.subs) \in Nat
      OBVIOUS
    <3> HIDE DEF same
    <3> QED BY <1>1, <1>3, <3>1, FirstIn
  <2>2. Match(s) = Dst.subs[First(same)]
    BY <1>3 DEF Match
  <2> HIDE DEF same
  <2>3. First(same) \in 1..Len(Dst.subs)
    BY <1>1, <2>1
  <2> QED BY <2>2, <2>3
<1> QED BY <1>2, <1>3

\* The subblocks are matched, each with a copy or with none.
LEMMA MatchSubblocksOk ==
  ASSUME MergeInv, MatchSubblocks
  PROVE  MergeInv'
<1> DEFINE pairs == [k \in 1..Len(Src.subs) |-> <<Src.subs[k], Match(Src.subs[k])>>]
<1>1. /\ Top \in Frames /\ Below \in Seq(Callers) /\ Top.src \in Old /\ Top.dst \in New
  BY StackFacts DEF MatchSubblocks, MergeInv
<1>2. Src.subs \in Seq(Old)
  BY <1>1, InputsWhole DEF MergeInv, HeapOk, Src
<1>3. Dst.subs \in Seq(New)
  BY <1>1 DEF MergeInv, HeapOk, Dst, Object
<1>4. \A s : Match(s) \in New \cup {Null}
  BY <1>3, MatchIn
<1>5. pairs \in Seq(Pairs)
  BY <1>2, <1>4 DEF Pairs
<1>6. CASE /\ stack' = Append(Below, [Top EXCEPT !.subs = pairs])
           /\ UNCHANGED <<heap, zap, broken, given, root, next, outcome, clash>>
  <2> HIDE DEF pairs
  <2>1. StackOk(stack')
    BY <1>1, <1>5, <1>6, FrameSubs, StackGrows
  <2> QED BY <1>6, <2>1, StepOk DEF MergeInv
<1>7. \/ Crash("NULL argument") \/ Abort("oom")
      \/ /\ stack' = Append(Below, [Top EXCEPT !.subs = pairs])
         /\ UNCHANGED <<heap, zap, broken, given, root, next, outcome, clash>>
  BY Zenon DEF MatchSubblocks
<1> QED BY <1>6, <1>7, StopOk, AbortOk

\* A subblock's call begins.
LEMMA MergeSubblockOk ==
  ASSUME MergeInv, MergeSubblock
  PROVE  MergeInv'
<1> DEFINE p == Top.subs
<1>1. /\ Top \in Frames /\ Below \in Seq(Callers) /\ p \in Seq(Pairs) /\ p # <<>>
  BY StackFacts DEF MergeSubblock, MergeInv
<1>2. p[Due(p)] \in Pairs /\ RemoveAt(p, Due(p)) \in Seq(Pairs)
  BY <1>1, DueFacts
<1> DEFINE s == p[Due(p)][1]
           m == p[Due(p)][2]
<1>3. s \in Old /\ m \in New \cup {Null}
  BY <1>2 DEF Pairs
<1>4. CASE m = Null
  <2>1. BeginCopy(s)
    BY <1>4 DEF MergeSubblock
  <2>2. stack \in Seq(Callers)
    <3>1. [Top EXCEPT !.subs = p] \in Callers /\ [Top EXCEPT !.subs = p] = Top
      BY <1>1, CallerSubs DEF Frames
    <3>2. \A S : \A q \in Seq(S) : q # <<>> => q = Append(SubSeq(q, 1, Len(q) - 1), q[Len(q)])
      OBVIOUS
    <3>3. stack = Append(Below, Top)
      BY <3>2, Zenon DEF MergeSubblock, MergeInv, StackOk, Below, Top
    <3>4. \A S : \A q \in Seq(S) : \A x \in S : Append(q, x) \in Seq(S)
      OBVIOUS
    <3> QED BY <1>1, <3>1, <3>3, <3>4, Zenon
  <2> QED BY <1>3, <2>1, <2>2, BeginCopyOk
<1>5. CASE m # Null
  <2>1. /\ stack' = Append(Append(Below, [Top EXCEPT !.subs = RemoveAt(p, Due(p))]),
                           Call(FALSE, s, m))
        /\ UNCHANGED <<heap, zap, broken, given, root, next, outcome, clash>>
    BY <1>1, <1>5 DEF MergeSubblock
  <2>2. [Top EXCEPT !.subs = RemoveAt(p, Due(p))] \in Callers
    BY <1>1, <1>2, CallerSubs
  <2>3. Call(FALSE, s, m) \in Frames
    BY <1>3, <1>5, CallOk
  <2>4. StackOk(stack')
    <3> HIDE DEF s, m, p
    <3>1. Append(Below, [Top EXCEPT !.subs = RemoveAt(p, Due(p))]) \in Seq(Callers)
      BY <1>1, <2>2
    <3> QED BY <2>1, <2>3, <3>1, StackGrows
  <2> QED BY <2>1, <2>4, StepOk DEF MergeInv
<1> QED BY <1>4, <1>5

\* A call returns to its caller.
LEMMA ReturnOk ==
  ASSUME MergeInv, Return
  PROVE  MergeInv'
<1>1. Top \in Frames /\ Below \in Seq(Callers) /\ Top.dst \in New
  BY StackFacts DEF Return, MergeInv
<1>2. CASE ~Top.copy \/ Below = <<>>
  <2>1. /\ stack' = Below /\ root' = IF Top.copy THEN Top.dst ELSE root
        /\ next' = IF Below = <<>> THEN next + 1 ELSE next
        /\ UNCHANGED <<heap, zap, broken, given, outcome, clash>>
    BY <1>2 DEF Return
  <2>2. StackOk(stack')
    BY <1>1, <2>1, StackGrows
  <2>3. next' \in Nat \ {0} /\ root' \in New \cup {Null}
    BY <1>1, <2>1 DEF MergeInv
  <2> QED BY <2>1, <2>2, <2>3, StepOk DEF MergeInv
<1>3. CASE ~(~Top.copy \/ Below = <<>>)
  <2> DEFINE caller == Below[Len(Below)]
             rest   == SubSeq(Below, 1, Len(Below) - 1)
  <2>1. caller \in Callers /\ rest \in Seq(Callers)
    <3>1. \A S : \A x \in Seq(S) : x # <<>> =>
            x[Len(x)] \in S /\ SubSeq(x, 1, Len(x) - 1) \in Seq(S)
      OBVIOUS
    <3> QED BY <1>1, <1>3, <3>1, Zenon
  <2>2. PICK o \in Grow(heap[caller.dst].subs) :
          \/ /\ o = "ok"
             /\ heap' = WithSubblock(heap, caller.dst, Top.dst)
             /\ stack' = Append(rest, [caller EXCEPT !.subs = RemoveAt(@, Due(@))])
             /\ UNCHANGED <<zap, broken, given, root, next, outcome, clash>>
          \/ Fails(o)
    BY <1>3 DEF Return
  <2>3. caller.dst \in New /\ RemoveAt(caller.subs, Due(caller.subs)) \in Seq(Pairs)
    BY <2>1, DueFacts DEF Callers
  <2>4. CASE Fails(o)
    BY <2>4, StopOk
  <2>5. CASE ~Fails(o)
    <3>1. HeapOk(heap')
      BY <1>1, <2>2, <2>3, <2>5, ListOk DEF MergeInv
    <3>2. [caller EXCEPT !.subs = RemoveAt(@, Due(@))] \in Frames
      BY <2>1, <2>3, CallerFrame, FrameSubs
    <3>3. StackOk(stack')
      BY <2>1, <2>2, <2>5, <3>2, StackGrows
    <3> QED BY <2>2, <2>5, <3>1, <3>3, StepOk DEF MergeInv
  <2> QED BY <2>4, <2>5
<1> QED BY <1>2, <1>3

\* One object is freed.
LEMMA FreeOk ==
  ASSUME MergeInv, Free
  PROVE  MergeInv'
<1>1. PICK a \in zap : /\ heap' = [heap EXCEPT ![a] = NoObject]
                       /\ zap' = (zap \ {a}) \cup Elements(Kids(heap[a]))
  BY DEF Free, FreeStep
<1>2. a \in New /\ given' = given /\ root' = root /\ next' = next /\ stack' = stack
  BY DEF Free, MergeInv
<1>3. Object(NoObject, New)
  <2>1. NoObject = [kind |-> "none", name |-> Null, args |-> <<>>, dirs |-> <<>>, subs |-> <<>>]
    BY DEF NoObject
  <2>2. <<>> \in Seq(New)
    OBVIOUS
  <2> QED BY <2>1, <2>2 DEF Object
<1>4. HeapOk(heap')
  BY <1>1, <1>2, <1>3, StoreOk DEF MergeInv
<1>5. Elements(Kids(heap[a])) \subseteq New
  <2>1. heap[a].dirs \in Seq(New) /\ heap[a].subs \in Seq(New)
    BY <1>2 DEF MergeInv, HeapOk, Object
  <2>2. \A S : \A x, y \in Seq(S) : x \o y \in Seq(S)
    OBVIOUS
  <2>3. Kids(heap[a]) \in Seq(New)
    BY <2>1, <2>2 DEF Kids
  <2> QED BY <2>3 DEF Elements
<1> QED BY <1>1, <1>2, <1>4, <1>5, StepOk DEF MergeInv
-----------------------------------------------------------------------------
\* MergeInv holds in every state.
LEMMA MergeInvAlways == Spec => []MergeInv
<1>1. Init => MergeInv
  <2> SUFFICES ASSUME Init PROVE MergeInv
    OBVIOUS
  <2>1. given \in Forests /\ heap = given.heap
    BY DEF Init
  <2>2. HeapOk(heap)
    BY <2>1, InputsWhole DEF HeapOk
  <2>3. StackOk(<<>>)
    BY DEF StackOk
  <2> QED BY <2>1, <2>2, <2>3 DEF Init, MergeInv
<1>2. MergeInv /\ [Next]_vars => MergeInv'
  <2> SUFFICES ASSUME MergeInv, [Next]_vars PROVE MergeInv'
    OBVIOUS
  <2>1. CASE UNCHANGED vars
    BY <2>1, StepOk DEF vars, MergeInv
  <2> QED BY <2>1, NextInputOk, MergeDirectiveOk, MatchSubblocksOk, MergeSubblockOk,
             ReturnOk, FreeOk DEF Next
<1> QED BY <1>1, <1>2, PTL DEF Spec

\* The inputs of config_merge_n are const: for any inputs, wherever an
\* allocation fails and whatever is freed then, they are as they were given.
THEOREM InputsNeverTouched == Spec => []InputsUntouched
<1>1. MergeInv => InputsUntouched
  BY DEF MergeInv, HeapOk, Old, InputsUntouched
<1> QED BY <1>1, MergeInvAlways, PTL
-----------------------------------------------------------------------------
\* The copies under way, and who holds what between two steps.
Copies(s) == {s[k].dst : k \in {j \in 1..Len(s) : s[j].copy}}
Held      == ((Elements(Inputs) \cup Copies(stack)) \cup ({root} \ {Null})) \cup zap

\* A call writes to a live block and will merge into live blocks.
CallLive(f, L) == f.dst \in L /\ f.subs \in {Null} \cup Seq(Addr \X (L \cup {Null}))

\* Calls s, with r as the merged block and L live: each copies to a block of its
\* own, and the outermost copies only as long as there is no merged block.
CallsOk(s, r, L) ==
  /\ \A j, k \in 1..Len(s) : s[j].copy /\ s[k].copy /\ s[j].dst = s[k].dst => j = k
  /\ \A k \in 1..Len(s) : CallLive(s[k], L)
  /\ s # <<>> => (s[1].copy <=> r = Null)

\* What OneOwner needs to hold after the next step.
Owning == /\ broken # "double free" /\ Owned(heap, Held)
          /\ CallsOk(stack, root, LiveOf(heap)) /\ root \notin Copies(stack)
          /\ outcome = "running" => zap = {}
          /\ zap # {} => stack = <<>> /\ root = Null

\* The calls s and one more.
LEMMA CallsAppend ==
  ASSUME NEW S, NEW s \in Seq(S), NEW f \in S, f.copy \in BOOLEAN, NEW r, NEW L
  PROVE  /\ Copies(Append(s, f)) = Copies(s) \cup (IF f.copy THEN {f.dst} ELSE {})
         /\ CallsOk(Append(s, f), r, L) <=>
              /\ CallsOk(s, r, L) /\ CallLive(f, L)
              /\ f.copy => f.dst \notin Copies(s)
              /\ s = <<>> => (f.copy <=> r = Null)
<1> DEFINE t == Append(s, f)
           n == Len(s)
<1>1. /\ n \in Nat /\ Len(t) = n + 1 /\ t[n + 1] = f /\ \A k \in 1..n : t[k] = s[k]
      /\ t # <<>> /\ (s = <<>> <=> n = 0)
  OBVIOUS
<1>2. 1..(n + 1) = (1..n) \cup {n + 1} /\ n + 1 \notin 1..n /\ (n # 0 => 1 \in 1..n)
  BY <1>1
<1> HIDE DEF t, n
<1>3. Copies(t) = Copies(s) \cup (IF f.copy THEN {f.dst} ELSE {})
  <2>1. \A x : x \in Copies(s) <=> \E k \in 1..n : s[k].copy /\ x = s[k].dst
    BY DEF Copies, n
  <2>2. \A x : x \in Copies(t) <=> \E k \in 1..(n + 1) : t[k].copy /\ x = t[k].dst
    BY <1>1 DEF Copies
  <2>3. \A x : x \in Copies(t) <=> x \in Copies(s) \/ (f.copy /\ x = f.dst)
    BY <1>1, <1>2, <2>1, <2>2
  <2> QED BY <2>3
<1>4. (\A j, k \in 1..(n + 1) : t[j].copy /\ t[k].copy /\ t[j].dst = t[k].dst => j = k) <=>
        /\ \A j, k \in 1..n : s[j].copy /\ s[k].copy /\ s[j].dst = s[k].dst => j = k
        /\ f.copy => f.dst \notin Copies(s)
  <2>1. f.dst \notin Copies(s) <=> \A k \in 1..n : s[k].copy => s[k].dst # f.dst
    BY DEF Copies, n
  <2> QED BY <1>1, <1>2, <2>1
<1>5. (\A k \in 1..(n + 1) : CallLive(t[k], L)) <=>
        (\A k \in 1..n : CallLive(s[k], L)) /\ CallLive(f, L)
  BY <1>1, <1>2
<1>6. (t[1].copy <=> r = Null) <=>
        IF s = <<>> THEN f.copy <=> r = Null ELSE s[1].copy <=> r = Null
  BY <1>1, <1>2
<1>7. CallsOk(t, r, L) <=>
        /\ CallsOk(s, r, L) /\ CallLive(f, L)
        /\ f.copy => f.dst \notin Copies(s)
        /\ s = <<>> => (f.copy <=> r = Null)
  BY <1>1, <1>4, <1>5, <1>6 DEF CallsOk, n
<1> QED BY <1>3, <1>7 DEF t

\* More may be live.
LEMMA LiveMore ==
  ASSUME NEW f, NEW L, NEW M, L \subseteq M, CallLive(f, L)
  PROVE  CallLive(f, M)
<1>1. \A S, T : S \subseteq T => \A q \in Seq(S) : q \in Seq(T)
  OBVIOUS
<1>2. Addr \X (L \cup {Null}) \subseteq Addr \X (M \cup {Null})
  OBVIOUS
<1>3. f.subs \in {Null} \cup Seq(Addr \X (M \cup {Null}))
  BY <1>1, <1>2, Zenon DEF CallLive
<1> QED BY <1>3 DEF CallLive

LEMMA CallsMore ==
  ASSUME NEW s, NEW r, NEW L, NEW M, L \subseteq M, CallsOk(s, r, L)
  PROVE  CallsOk(s, r, M)
BY LiveMore DEF CallsOk

\* Each object of the inputs is listed once or is a root.
LEMMA InputsOwned ==
  ASSUME given \in Forests
  PROVE  /\ Owned(given.heap, Elements(Inputs)) /\ LiveOf(given.heap) = Old
         /\ Apart(Inputs)
<1> DEFINE h == given.heap
           R == given.roots
<1>1. ASSUME NEW a \in Addr
      PROVE  /\ h[a].kind = "none" => h[a] = NoObject
             /\ h[a].dirs \in Seq(Addr) /\ h[a].subs \in Seq(Addr)
             /\ IsInjective(h[a].dirs) /\ IsInjective(h[a].subs)
             /\ Elements(h[a].dirs) \cap Elements(h[a].subs) = {}
  BY ForestAssumption, Zenon
<1>2. /\ R \in Seq(Addr) /\ IsInjective(R)
      /\ \A r \in Elements(R) : h[r].kind = "block"
  BY ForestAssumption, Zenon
<1> DEFINE listed(a) == Elements(h[a].dirs) \cup Elements(h[a].subs)
<1>3. /\ \A a, b \in Addr : a # b => listed(a) \cap listed(b) = {}
      /\ \A a \in Addr : listed(a) \cap Elements(R) = {}
      /\ \A a \in Addr : \/ h[a].kind = "none" \/ a \in Elements(R)
                         \/ \E b \in Addr : a \in listed(b)
  BY ForestAssumption, Zenon
<1>4. /\ LiveOf(h) = Old /\ h = [a \in Addr |-> h[a]]
      /\ \A a \in Old : Object(h[a], Old)
      /\ Inputs = R /\ Inputs \in Seq(Old)
  BY InputsWhole DEF LiveOf, Old, Inputs
<1>5. \A S : \A s \in Seq(S) : IsInjective(s) => Apart(s)
  BY DEF IsInjective, Apart
<1> HIDE DEF h, R
<1>6. \A a \in Addr : listed(a) = Kin(h[a])
  BY DEF Kin
<1> HIDE DEF listed
<1>7. Old \subseteq Addr
  BY DEF Old
<1>8. ASSUME NEW a \in Old PROVE Tidy(h[a])
  <2>1. /\ h[a].dirs \in Seq(Addr) /\ h[a].subs \in Seq(Addr)
        /\ IsInjective(h[a].dirs) /\ IsInjective(h[a].subs)
        /\ Elements(h[a].dirs) \cap Elements(h[a].subs) = {}
    BY <1>1, <1>7
  <2>2. Apart(h[a].dirs) /\ Apart(h[a].subs)
    BY <1>5, <2>1, Zenon
  <2> QED BY <2>1, <2>2 DEF Tidy
<1>9. Elements(Inputs) \subseteq Old
  <2>1. \A S : \A s \in Seq(S) : Elements(s) \subseteq S
    BY DEF Elements
  <2> QED BY <1>4, <2>1, Zenon
<1>10. ASSUME NEW a \in Addr, NEW b \in Addr, a \in Kin(h[b]) PROVE b \in Old
  <2>1. CASE h[b].kind = "none"
    <3>1. h[b].dirs = <<>> /\ h[b].subs = <<>>
      BY <1>1, <2>1 DEF NoObject
    <3> QED BY <1>10, <3>1 DEF Kin, Elements
  <2> QED BY <2>1, <1>4 DEF LiveOf
<1>11. \A a \in Old : a \in Elements(Inputs) \/ \E b \in Old : a \in Kin(h[b])
  BY <1>3, <1>4, <1>6, <1>7, <1>10 DEF LiveOf
<1>12. /\ \A a, b \in Old : a # b => Kin(h[a]) \cap Kin(h[b]) = {}
       /\ \A a \in Old : Kin(h[a]) \cap Elements(Inputs) = {}
  <2>1. Elements(Inputs) = Elements(R)
    BY <1>4
  <2> QED BY <1>3, <1>6, <1>7, <2>1
<1>13. Owned(h, Elements(Inputs))
  BY <1>4, <1>8, <1>9, <1>11, <1>12 DEF Owned
<1> QED BY <1>2, <1>4, <1>5, <1>13 DEF h

\* The innermost call and those that wait for it.
LEMMA TopLast ==
  ASSUME MergeInv, stack # <<>>
  PROVE  /\ stack = Append(Below, Top) /\ Below \in Seq(Frames) /\ Top \in Frames
         /\ Top.copy \in BOOLEAN
<1>1. Top \in Frames /\ Below \in Seq(Frames) /\ Top.copy \in BOOLEAN
  <2>1. Top \in Frames /\ Below \in Seq(Callers)
    BY StackFacts DEF MergeInv
  <2>2. \A S, T : S \subseteq T => \A q \in Seq(S) : q \in Seq(T)
    OBVIOUS
  <2>3. Below \in Seq(Frames)
    BY <2>1, <2>2, CallerFrame, Zenon
  <2> QED BY <2>1, <2>3 DEF Frames
<1>2. stack = Append(Below, Top)
  <2>1. \A S : \A q \in Seq(S) : q # <<>> => q = Append(SubSeq(q, 1, Len(q) - 1), q[Len(q)])
    OBVIOUS
  <2> QED BY <2>1, Zenon DEF MergeInv, StackOk, Below, Top
<1> QED BY <1>1, <1>2

\* What it does is its own, and the others' theirs.
LEMMA TopFacts ==
  ASSUME MergeInv, Owning, stack # <<>>
  PROVE  /\ Below \in Seq(Frames) /\ Top \in Frames /\ Top.copy \in BOOLEAN
         /\ CallsOk(Below, root, LiveOf(heap)) /\ CallLive(Top, LiveOf(heap))
         /\ Top.copy => Top.dst \notin Copies(Below)
         /\ Below = <<>> => (Top.copy <=> root = Null)
         /\ Copies(stack) = Copies(Below) \cup (IF Top.copy THEN {Top.dst} ELSE {})
         /\ zap = {}
<1>1. Top \in Frames /\ Below \in Seq(Frames) /\ Top.copy \in BOOLEAN /\ stack = Append(Below, Top)
  BY TopLast
<1>3. /\ Copies(stack) = Copies(Below) \cup (IF Top.copy THEN {Top.dst} ELSE {})
      /\ CallsOk(Below, root, LiveOf(heap)) /\ CallLive(Top, LiveOf(heap))
      /\ Top.copy => Top.dst \notin Copies(Below)
      /\ Below = <<>> => (Top.copy <=> root = Null)
  <2>1. CallsOk(Append(Below, Top), root, LiveOf(heap))
    BY <1>1 DEF Owning
  <2> QED BY <1>1, <2>1, CallsAppend
<1> QED BY <1>1, <1>3 DEF Owning

\* The innermost call goes on: it copies to the same block, if it copies.
LEMMA TopGoesOn ==
  ASSUME MergeInv, Owning, stack # <<>>, NEW f \in Frames, NEW L,
         f.copy = Top.copy, f.dst = Top.dst, CallLive(f, L), LiveOf(heap) \subseteq L
  PROVE  Copies(Append(Below, f)) = Copies(stack) /\ CallsOk(Append(Below, f), root, L)
<1>1. /\ Below \in Seq(Frames) /\ Top.copy \in BOOLEAN
      /\ CallsOk(Below, root, LiveOf(heap))
      /\ Top.copy => Top.dst \notin Copies(Below)
      /\ Below = <<>> => (Top.copy <=> root = Null)
      /\ Copies(stack) = Copies(Below) \cup (IF Top.copy THEN {Top.dst} ELSE {})
  BY TopFacts
<1>2. CallsOk(Below, root, L)
  BY <1>1, CallsMore
<1> QED BY <1>1, <1>2, CallsAppend

\* A step that changes nothing on the heap.
LEMMA HeapStays ==
  ASSUME Owning, UNCHANGED <<heap, given>>, zap' = {}, broken' # "double free",
         Copies(stack') \cup ({root'} \ {Null}) \cup zap'
           = Copies(stack) \cup ({root} \ {Null}) \cup zap,
         CallsOk(stack', root', LiveOf(heap)), root' \notin Copies(stack')
  PROVE  Owning'
<1>1. Held' = Held
  BY DEF Held, Inputs
<1>2. Owned(heap', Held')
  BY <1>1 DEF Owning
<1>3. CallsOk(stack', root', LiveOf(heap'))
  OBVIOUS
<1> QED BY <1>2, <1>3 DEF Owning

\* What is held is live.
LEMMA HeldLive ==
  ASSUME Owning
  PROVE  /\ Copies(stack) \subseteq LiveOf(heap) /\ root \in LiveOf(heap) \cup {Null}
         /\ LiveOf(heap) \subseteq Addr /\ Null \notin Addr /\ zap \subseteq LiveOf(heap)
BY TreeAssumption DEF Owning, Owned, Held, LiveOf

LEMMA AbortOwn ==
  ASSUME Owning, outcome = "running", NEW reason, reason # "running", Abort(reason)
  PROVE  Owning'
<1>1. zap = {} /\ Owned(heap, Held) /\ broken # "double free"
  BY DEF Owning
<1>2. /\ zap' = Copies(stack) \cup ({root} \ {Null})
      /\ outcome' = reason /\ stack' = <<>> /\ root' = Null
      /\ heap' = heap /\ broken' = broken /\ given' = given
  BY DEF Abort, Copies
<1>3. Copies(<<>>) = {} /\ \A r, L : CallsOk(<<>>, r, L)
  BY DEF Copies, CallsOk
<1>4. Held' = Held
  <2>1. Inputs' = Inputs /\ Copies(stack') = {}
    BY <1>2, <1>3 DEF Inputs
  <2> QED BY <1>1, <1>2, <2>1 DEF Held
<1>5. Owned(heap', Held')
  BY <1>1, <1>2, <1>4
<1>6. CallsOk(stack', root', LiveOf(heap')) /\ root' \notin Copies(stack')
  BY <1>2, <1>3
<1> QED BY <1>1, <1>2, <1>5, <1>6 DEF Owning

LEMMA StopOwn ==
  ASSUME Owning, outcome = "running",
         Crash("NULL list") \/ Crash("NULL argument") \/ (\E o : Fails(o))
  PROVE  Owning'
<1>1. ASSUME NEW how \in {"NULL list", "NULL argument"}, Crash(how) PROVE Owning'
  <2>1. UNCHANGED <<heap, zap, given, root, stack>> /\ broken' # "double free"
    BY <1>1 DEF Crash
  <2> QED BY <2>1, HeapStays DEF Owning
<1>2. ASSUME NEW o, Fails(o) PROVE Owning'
  BY <1>1, <1>2, AbortOwn DEF Fails
<1> QED BY <1>1, <1>2

\* A copy is begun: its block is new and held by the call.
LEMMA BeginCopyOwn ==
  ASSUME MergeInv, Owning, outcome = "running", NEW b \in Old, BeginCopy(b),
         stack = <<>> => root = Null
  PROVE  Owning'
<1>1. PICK o \in Outcomes(Build(heap[b].args)) :
        \/ /\ o = "ok"
           /\ heap' = [heap EXCEPT ![Malloc] = Block(heap[b].name, heap[b].args)]
           /\ stack' = Append(stack, Call(TRUE, b, Malloc))
           /\ UNCHANGED <<zap, broken, given, root, next, outcome, clash>>
        \/ Fails(o)
  BY DEF BeginCopy
<1>2. CASE Fails(o)
  BY <1>2, StopOwn
<1>3. CASE ~Fails(o)
  <2> DEFINE a == Malloc
             n == Block(heap[b].name, heap[b].args)
             f == Call(TRUE, b, a)
  <2>1. o = "ok" /\ Unused # {}
    BY <1>1, <1>3 DEF Outcomes
  <2>2. a \in New /\ a \in Addr /\ a \notin LiveOf(heap)
    <3>1. a \in Unused
      BY <2>1 DEF Malloc
    <3> QED BY <2>1, <3>1, MallocNew DEF MergeInv, Unused, Live, LiveOf
  <2>3. /\ n = [kind |-> n.kind, name |-> n.name, args |-> n.args,
                dirs |-> n.dirs, subs |-> n.subs]
        /\ n.kind # "none" /\ n.dirs = <<>> /\ n.subs = <<>>
    BY NewObjects
  <2>4. f \in Frames /\ f.copy = TRUE /\ f.dst = a /\ f.subs = Null
    BY <2>2, CallOk DEF Call
  <2>5. heap' = [heap EXCEPT ![a] = n] /\ stack' = Append(stack, f)
        /\ UNCHANGED <<zap, broken, given, root, outcome>>
    BY <1>1, <1>3
  <2> HIDE DEF a, n, f
  <2>6. Owned(heap', Held \cup {a}) /\ LiveOf(heap') = LiveOf(heap) \cup {a}
    BY <2>2, <2>3, <2>5, OwnedNew DEF Owning
  <2>7. /\ a \notin Copies(stack) /\ root # a /\ root \notin Copies(stack) /\ zap = {}
        /\ stack \in Seq(Frames)
    BY <2>2, HeldLive DEF Owning, MergeInv, StackOk
  <2>8. CallsOk(stack, root, LiveOf(heap'))
    BY <2>6, CallsMore DEF Owning
  <2>9. CallLive(f, LiveOf(heap'))
    BY <2>4, <2>6 DEF CallLive
  <2>10. Copies(stack') = Copies(stack) \cup {a} /\ CallsOk(stack', root, LiveOf(heap'))
    BY <2>4, <2>5, <2>7, <2>8, <2>9, CallsAppend
  <2>11. Held' = Held \cup {a}
    BY <2>5, <2>10 DEF Held, Inputs
  <2>12. Owned(heap', Held')
    BY <2>6, <2>11
  <2>13. CallsOk(stack', root', LiveOf(heap')) /\ root' \notin Copies(stack')
    BY <2>5, <2>7, <2>10
  <2> QED BY <2>5, <2>7, <2>12, <2>13 DEF Owning
<1> QED BY <1>2, <1>3

LEMMA NextInputOwn == ASSUME MergeInv, Owning, NextInput PROVE Owning'
<1>1. stack = <<>> /\ outcome = "running" /\ zap = {}
  BY DEF NextInput, Running, Owning
<1>2. Inputs \in Seq(Old) /\ Inputs # <<>>
  BY InputsWhole DEF MergeInv
<1>3. CASE root = Null /\ BeginCopy(Inputs[1])
  BY <1>1, <1>2, <1>3, BeginCopyOwn
<1>4. CASE /\ root # Null /\ next <= Len(Inputs)
           /\ stack' = <<Call(FALSE, Inputs[next], root)>>
           /\ UNCHANGED <<heap, zap, broken, given, root, next, outcome, clash>>
  <2> DEFINE f == Call(FALSE, Inputs[next], root)
  <2>1. f.copy = FALSE /\ f.dst = root /\ f.subs = Null
    BY DEF Call
  <2>2. stack' = Append(stack, f)
    BY <1>1, <1>4
  <2> HIDE DEF f
  <2>3. CallLive(f, LiveOf(heap))
    BY <1>4, <2>1, HeldLive DEF CallLive
  <2>4. Copies(stack') = Copies(stack) /\ CallsOk(stack', root, LiveOf(heap))
    <3> DEFINE S == {f}
    <3>1. f \in S /\ stack \in Seq(S)
      BY <1>1
    <3> HIDE DEF S
    <3>2. CallsOk(stack, root, LiveOf(heap)) /\ f.copy \in BOOLEAN
      BY <2>1 DEF Owning
    <3>3. /\ Copies(Append(stack, f)) = Copies(stack) \cup (IF f.copy THEN {f.dst} ELSE {})
          /\ CallsOk(Append(stack, f), root, LiveOf(heap))
      BY <1>4, <2>1, <2>3, <3>1, <3>2, CallsAppend
    <3> QED BY <2>1, <2>2, <3>3
  <2>5. broken' # "double free" /\ UNCHANGED <<heap, given, root>> /\ zap' = {}
    BY <1>1, <1>4 DEF Owning
  <2> QED BY <1>1, <2>4, <2>5, HeapStays DEF Owning
<1>5. CASE UNCHANGED <<heap, zap, broken, given, root, next, stack, clash>>
  BY <1>1, <1>5, HeapStays DEF Owning
<1> QED BY <1>3, <1>4, <1>5, Zenon DEF NextInput

\* A call with other work to do is the same call.
LEMMA SameCall ==
  ASSUME NEW f \in Frames
  PROVE  /\ \A d \in Nat : LET g == [f EXCEPT !.d = d] IN
              /\ g \in Frames /\ g.copy = f.copy /\ g.dst = f.dst /\ g.subs = f.subs
              /\ g.src = f.src /\ g.d = d
         /\ \A p \in Seq(Pairs) : LET g == [f EXCEPT !.subs = p] IN
              /\ g \in Frames /\ g.copy = f.copy /\ g.dst = f.dst /\ g.subs = p
              /\ g.src = f.src /\ g.d = f.d
<1> DEFINE S == Seq(Pairs)
<1>1. Frames = [copy : BOOLEAN, src : Old, dst : New, d : Nat, subs : {Null} \cup S]
  BY DEF Frames
<1> HIDE DEF S
<1>2. PICK c, a, b, n, q : f = [copy |-> c, src |-> a, dst |-> b, d |-> n, subs |-> q]
                           /\ c \in BOOLEAN /\ a \in Old /\ b \in New /\ q \in {Null} \cup S
  BY <1>1
<1>3. ASSUME NEW d \in Nat
      PROVE  LET g == [f EXCEPT !.d = d] IN
               /\ g \in Frames /\ g.copy = f.copy /\ g.dst = f.dst /\ g.subs = f.subs
               /\ g.src = f.src /\ g.d = d
  <2>1. [f EXCEPT !.d = d] = [copy |-> c, src |-> a, dst |-> b, d |-> d, subs |-> q]
    BY <1>2
  <2> QED BY <1>1, <1>2, <2>1
<1>4. ASSUME NEW p \in S
      PROVE  LET g == [f EXCEPT !.subs = p] IN
               /\ g \in Frames /\ g.copy = f.copy /\ g.dst = f.dst /\ g.subs = p
               /\ g.src = f.src /\ g.d = f.d
  <2>1. [f EXCEPT !.subs = p] = [copy |-> c, src |-> a, dst |-> b, d |-> n, subs |-> p]
    BY <1>2
  <2> QED BY <1>1, <1>2, <2>1
<1> QED BY <1>3, <1>4 DEF S

\* The innermost call is done with a directive.
LEMMA AdvanceOwn ==
  ASSUME MergeInv, Owning, stack # <<>>, Advance, NEW L, LiveOf(heap) \subseteq L
  PROVE  Copies(stack') = Copies(stack) /\ CallsOk(stack', root, L)
<1> DEFINE f == [Top EXCEPT !.d = Top.d + 1]
<1>1. stack' = Append(Below, f)
  BY DEF Advance
<1>2. Top \in Frames /\ CallLive(Top, LiveOf(heap))
  BY TopFacts
<1>3. Top.d + 1 \in Nat
  BY <1>2 DEF Frames
<1>4. f \in Frames /\ f.copy = Top.copy /\ f.dst = Top.dst /\ f.subs = Top.subs
  BY <1>2, <1>3, SameCall
<1> HIDE DEF f
<1>5. CallLive(f, L)
  <2>1. CallLive(Top, L)
    BY <1>2, LiveMore
  <2> QED BY <1>4, <2>1 DEF CallLive
<1> QED BY <1>1, <1>4, <1>5, TopGoesOn

\* A directive of an input lists nothing.
LEMMA DirectiveWhole ==
  ASSUME given \in Forests, NEW a \in Old, NEW k \in 1..Len(given.heap[a].dirs)
  PROVE  LET d == given.heap[a].dirs[k]
             o == given.heap[d] IN
           /\ d \in Old /\ o.kind = "directive" /\ o.dirs = <<>> /\ o.subs = <<>>
           /\ o = [kind |-> o.kind, name |-> o.name, args |-> o.args,
                   dirs |-> o.dirs, subs |-> o.subs]
<1> DEFINE h == given.heap
           d == h[a].dirs[k]
<1>1. a \in Addr /\ d \in Elements(h[a].dirs)
  BY DEF Old, Elements
<1>2. h[d].kind = "directive" /\ h[d].dirs = <<>> /\ h[d].subs = <<>>
  <2>1. \A x \in Addr : \A y \in Elements(h[x].dirs) :
           h[y].kind = "directive" /\ h[y].dirs = <<>> /\ h[y].subs = <<>>
    <3>1. ASSUME NEW x \in Addr
          PROVE  \A y \in Elements(h[x].dirs) :
                   h[y].kind = "directive" /\ h[y].dirs = <<>> /\ h[y].subs = <<>>
      BY ForestAssumption, Zenon
    <3> QED BY <3>1
  <2> HIDE DEF h, d
  <2> QED BY <1>1, <2>1
<1>3. d \in Old /\ Object(h[d], Old)
  <2>1. d \in Old
    <3>1. h[a].dirs \in Seq(Old)
      BY InputsWhole
    <3> QED BY <3>1
  <2> QED BY <2>1, InputsWhole
<1> QED BY <1>2, <1>3, Zenon DEF Object

LEMMA MergeDirectiveOwn == ASSUME MergeInv, Owning, MergeDirective PROVE Owning'
<1> DEFINE dir == Src.dirs[Top.d + 1]
<1>1. /\ stack # <<>> /\ outcome = "running" /\ zap = {} /\ Top \in Frames
      /\ Top.src \in Old /\ Top.dst \in LiveOf(heap) /\ Top.d \in Nat /\ Top.d < Len(Src.dirs)
  <2>1. stack # <<>> /\ outcome = "running" /\ Top.d < Len(Src.dirs)
    BY DEF MergeDirective, Running
  <2> QED BY <2>1, TopFacts DEF CallLive, Frames
<1>2. /\ dir \in Old /\ heap[dir].kind # "none" /\ heap[dir].dirs = <<>> /\ heap[dir].subs = <<>>
      /\ heap[dir] = [kind |-> heap[dir].kind, name |-> heap[dir].name,
                      args |-> heap[dir].args, dirs |-> heap[dir].dirs, subs |-> heap[dir].subs]
  <2>1. Src = given.heap[Top.src] /\ given \in Forests /\ \A x \in Old : heap[x] = given.heap[x]
    BY <1>1 DEF Src, MergeInv, HeapOk
  <2>2. Top.d + 1 \in 1..Len(given.heap[Top.src].dirs)
    <3>1. given.heap[Top.src].dirs \in Seq(Old)
      BY <1>1, <2>1, InputsWhole
    <3> QED BY <1>1, <2>1, <3>1
  <2>3. LET o == given.heap[dir] IN
           /\ dir \in Old /\ o.kind = "directive" /\ o.dirs = <<>> /\ o.subs = <<>>
           /\ o = [kind |-> o.kind, name |-> o.name, args |-> o.args,
                   dirs |-> o.dirs, subs |-> o.subs]
    BY <1>1, <2>1, <2>2, DirectiveWhole, Zenon
  <2> HIDE DEF dir
  <2>4. dir \in Old /\ heap[dir] = given.heap[dir]
    BY <2>1, <2>3
  <2> QED BY <2>3, <2>4
<1> HIDE DEF dir
<1>3. \/ /\ Unused # {} /\ Advance
         /\ heap' = WithDirective([heap EXCEPT ![Malloc] = heap[dir]], Top.dst, Malloc)
         /\ UNCHANGED <<zap, broken, given, root, next, outcome, clash>>
      \/ (\E o : Fails(o)) \/ Crash("NULL argument") \/ Abort("duplicate")
      \/ Advance /\ UNCHANGED <<heap, zap, broken, given, root, next, outcome, clash>>
  BY DEF MergeDirective, Outcomes, dir
<1>4. CASE /\ Unused # {} /\ Advance
           /\ heap' = WithDirective([heap EXCEPT ![Malloc] = heap[dir]], Top.dst, Malloc)
           /\ UNCHANGED <<zap, broken, given, root, next, outcome, clash>>
  <2> DEFINE a == Malloc
             o == heap[dir]
             h == [heap EXCEPT ![a] = o]
  <2>1. a \in Addr \ LiveOf(heap)
    BY <1>4 DEF Malloc, Unused, Live, LiveOf
  <2> HIDE DEF a, o
  <2>2. Owned(h, Held \cup {a}) /\ LiveOf(h) = LiveOf(heap) \cup {a}
    BY <1>2, <2>1, OwnedNew DEF Owning, o
  <2> HIDE DEF h
  <2>3. Listed(h, heap', Top.dst, a)
    BY <1>4 DEF Listed, h, o, a
  <2>4. Top.dst \in LiveOf(h) /\ a \in Held \cup {a}
    BY <1>1, <2>2
  <2>5. Owned(heap', (Held \cup {a}) \ {a})
    BY <2>2, <2>3, <2>4, OwnedListed
  <2>6. LiveOf(heap') = LiveOf(h)
    BY <2>2, <2>3, <2>4, ListedFacts
  <2>7. Copies(stack') = Copies(stack) /\ CallsOk(stack', root, LiveOf(heap'))
    BY <1>1, <1>4, <2>2, <2>6, AdvanceOwn
  <2>8. Held' = Held /\ a \notin Held
    <3>1. Held' = Held
      BY <1>4, <2>7 DEF Held, Inputs
    <3> QED BY <2>1, <3>1 DEF Owning, Owned
  <2>9. Owned(heap', Held')
    <3>1. (Held \cup {a}) \ {a} = Held'
      BY <2>8
    <3> QED BY <2>5, <3>1
  <2> QED BY <1>1, <1>4, <2>7, <2>9 DEF Owning
<1>5. CASE Advance /\ UNCHANGED <<heap, zap, broken, given, root, next, outcome, clash>>
  <2>1. Copies(stack') = Copies(stack) /\ CallsOk(stack', root, LiveOf(heap))
    BY <1>1, <1>5, AdvanceOwn
  <2> QED BY <1>1, <1>5, <2>1, HeapStays DEF Owning
<1>6. CASE (\E o : Fails(o)) \/ Crash("NULL argument")
  BY <1>1, <1>6, StopOwn
<1>7. CASE Abort("duplicate")
  BY <1>1, <1>7, AbortOwn
<1> QED BY <1>3, <1>4, <1>5, <1>6, <1>7

LEMMA MatchSubblocksOwn == ASSUME MergeInv, Owning, MatchSubblocks PROVE Owning'
<1> DEFINE L == LiveOf(heap)
           pairs == [k \in 1..Len(Src.subs) |-> <<Src.subs[k], Match(Src.subs[k])>>]
           f == [Top EXCEPT !.subs = pairs]
<1>1. /\ stack # <<>> /\ outcome = "running" /\ zap = {} /\ Top \in Frames
      /\ Top.src \in Old /\ Top.dst \in L
  <2>1. stack # <<>> /\ outcome = "running"
    BY DEF MatchSubblocks, Running
  <2> QED BY <2>1, TopFacts DEF CallLive, Frames
<1>2. Src.subs \in Seq(Old) /\ Dst.subs \in Seq(New) /\ Dst.subs \in Seq(L)
  <2>1. Src.subs \in Seq(Old)
    BY <1>1, InputsWhole DEF MergeInv, HeapOk, Src
  <2>2. Dst.subs \in Seq(New)
    BY <1>1 DEF MergeInv, HeapOk, Dst, Object, Frames
  <2>3. Dst.subs \in Seq(L)
    BY <1>1 DEF Owning, Owned, Object, Dst
  <2> QED BY <2>1, <2>2, <2>3
<1>3. /\ \A s : Match(s) \in New \cup {Null}
      /\ \A s : Match(s) \in L \cup {Null}
  <2> HIDE DEF L
  <2> QED BY <1>2, MatchIn
<1>4. pairs \in Seq(Pairs) /\ pairs \in Seq(Addr \X (L \cup {Null}))
  <2>1. pairs \in Seq(Pairs)
    BY <1>2, <1>3 DEF Pairs
  <2>2. Old \subseteq Addr
    BY DEF Old
  <2> HIDE DEF L
  <2>3. pairs \in Seq(Addr \X (L \cup {Null}))
    BY <1>2, <1>3, <2>2
  <2> QED BY <2>1, <2>3
<1> HIDE DEF pairs
<1>5. f \in Frames /\ f.copy = Top.copy /\ f.dst = Top.dst /\ f.subs = pairs
  BY <1>1, <1>4, SameCall
<1> HIDE DEF f
<1>6. CallLive(f, L)
  BY <1>1, <1>4, <1>5 DEF CallLive
<1>7. CASE /\ stack' = Append(Below, f)
           /\ UNCHANGED <<heap, zap, broken, given, root, next, outcome, clash>>
  <2>1. Copies(stack') = Copies(stack) /\ CallsOk(stack', root, L)
    BY <1>1, <1>5, <1>6, <1>7, TopGoesOn
  <2> QED BY <1>1, <1>7, <2>1, HeapStays DEF Owning
<1>8. \/ Crash("NULL argument") \/ Abort("oom")
      \/ /\ stack' = Append(Below, f)
         /\ UNCHANGED <<heap, zap, broken, given, root, next, outcome, clash>>
  BY Zenon DEF MatchSubblocks, f, pairs
<1> QED BY <1>1, <1>7, <1>8, StopOwn, AbortOwn

\* The subblock to do next, and the rest of them.
LEMMA DueLive ==
  ASSUME NEW f \in Frames, NEW L, CallLive(f, L), f.subs \in Seq(Pairs)
  PROVE  LET g == [f EXCEPT !.subs = RemoveAt(f.subs, Due(f.subs))] IN
           /\ g \in Frames /\ g.copy = f.copy /\ g.dst = f.dst /\ CallLive(g, L)
           /\ f.subs # <<>> => f.subs[Due(f.subs)] \in Pairs
                               /\ (f.subs[Due(f.subs)][2] # Null => f.subs[Due(f.subs)][2] \in L)
<1> DEFINE p == f.subs
           q == RemoveAt(p, Due(p))
           g == [f EXCEPT !.subs = q]
           P == Addr \X (L \cup {Null})
<1>1. p \in Seq(P)
  <2>1. CASE p \in Seq(P)
    BY <2>1
  <2>2. CASE p = Null
    <3>1. \A S, T : S \subseteq T => \A s \in Seq(S) : s \in Seq(T)
      OBVIOUS
    <3>2. Pairs \subseteq Addr \X (Addr \cup {Null})
      BY DEF Pairs, Old, New
    <3>3. \A s \in Seq(Pairs) : s \in Seq(Addr \X (Addr \cup {Null}))
      BY <3>1, <3>2, Zenon
    <3> QED BY <2>2, <3>3, PairsAssumption
  <2> QED BY <2>1, <2>2 DEF CallLive
<1>2. /\ q \in Seq(P) /\ q \in Seq(Pairs)
      /\ p # <<>> => p[Due(p)] \in P /\ p[Due(p)] \in Pairs
  <2> HIDE DEF P, p
  <2> QED BY <1>1, DueFacts DEF p
<1>3. g \in Frames /\ g.copy = f.copy /\ g.dst = f.dst /\ g.subs = q
  BY <1>2, SameCall
<1> HIDE DEF g, q
<1>4. CallLive(g, L)
  BY <1>2, <1>3 DEF CallLive
<1> QED BY <1>2, <1>3, <1>4 DEF g, q

LEMMA MergeSubblockOwn == ASSUME MergeInv, Owning, MergeSubblock PROVE Owning'
<1> DEFINE p == Top.subs
           g == [Top EXCEPT !.subs = RemoveAt(p, Due(p))]
           s == p[Due(p)][1]
           m == p[Due(p)][2]
           f == Call(FALSE, s, m)
           t == Append(Below, g)
<1>1. stack # <<>> /\ outcome = "running" /\ p # Null /\ p # <<>>
  BY DEF MergeSubblock, Running
<1>2. /\ Top \in Frames /\ Below \in Seq(Frames) /\ CallLive(Top, LiveOf(heap)) /\ zap = {}
      /\ p \in Seq(Pairs)
  BY <1>1, TopFacts DEF Frames
<1>3. /\ g \in Frames /\ g.copy = Top.copy /\ g.dst = Top.dst /\ CallLive(g, LiveOf(heap))
      /\ p[Due(p)] \in Pairs /\ (m # Null => m \in LiveOf(heap))
  BY <1>1, <1>2, DueLive
<1>4. s \in Old /\ m \in New \cup {Null}
  BY <1>3 DEF Pairs
<1> HIDE DEF p, g
<1>5. CASE m = Null
  <2>1. BeginCopy(s)
    BY <1>5 DEF MergeSubblock, p
  <2> HIDE DEF s, m
  <2> QED BY <1>1, <1>4, <2>1, BeginCopyOwn
<1>6. CASE m # Null
  <2>1. stack' = Append(t, f) /\ UNCHANGED <<heap, zap, broken, given, root, next, outcome, clash>>
    BY <1>6 DEF MergeSubblock, p, g
  <2>2. Copies(t) = Copies(stack) /\ CallsOk(t, root, LiveOf(heap))
    BY <1>1, <1>3, TopGoesOn
  <2>3. t \in Seq(Frames) /\ t # <<>>
    BY <1>2, <1>3
  <2>4. f \in Frames /\ f.copy = FALSE /\ CallLive(f, LiveOf(heap))
    <3>1. f \in Frames
      BY <1>4, <1>6, CallOk
    <3>2. f.copy = FALSE /\ f.dst = m /\ f.subs = Null
      BY DEF Call
    <3> HIDE DEF f, s, m
    <3> QED BY <1>3, <1>6, <3>1, <3>2 DEF CallLive
  <2> HIDE DEF t, f
  <2>5. Copies(stack') = Copies(stack) /\ CallsOk(stack', root, LiveOf(heap))
    <3>1. f.copy \in BOOLEAN
      BY <2>4
    <3>2. /\ Copies(Append(t, f)) = Copies(t) \cup (IF f.copy THEN {f.dst} ELSE {})
          /\ CallsOk(Append(t, f), root, LiveOf(heap))
      BY <2>2, <2>3, <2>4, <3>1, CallsAppend
    <3> QED BY <2>1, <2>2, <2>4, <3>2
  <2> QED BY <1>2, <2>1, <2>5, HeapStays DEF Owning
<1> QED BY <1>5, <1>6

\* What a copy builds is no input, and no other call's.
LEMMA TopApart ==
  ASSUME MergeInv, Owning, stack # <<>>, Top.copy
  PROVE  /\ Top.dst \in Held /\ Top.dst \in LiveOf(heap) /\ Top.dst # root /\ Top.dst # Null
         /\ Top.dst \notin Elements(Inputs) /\ Top.dst \notin Copies(Below)
         /\ Copies(stack) = Copies(Below) \cup {Top.dst}
<1>1. /\ Top.dst \notin Copies(Below) /\ Copies(stack) = Copies(Below) \cup {Top.dst}
      /\ Top.dst \in LiveOf(heap) /\ Top \in Frames
  BY TopFacts DEF CallLive
<1>2. Top.dst \in Held /\ Top.dst # root
  BY <1>1 DEF Held, Owning
<1>3. Top.dst \notin Elements(Inputs)
  <2>1. \A S : \A s \in Seq(S) : Elements(s) \subseteq S
    BY DEF Elements
  <2>2. Inputs \in Seq(Old)
    BY InputsWhole DEF MergeInv
  <2>3. Elements(Inputs) \subseteq Old
    BY <2>1, <2>2, Zenon
  <2> QED BY <1>1, <2>3 DEF Frames, New
<1> QED BY <1>1, <1>2, <1>3, HeldLive

LEMMA ReturnOwn == ASSUME MergeInv, Owning, Return PROVE Owning'
<1>1. stack # <<>> /\ outcome = "running"
  BY DEF Return, Running
<1>2. /\ Below \in Seq(Frames) /\ CallsOk(Below, root, LiveOf(heap)) /\ zap = {}
      /\ Top.copy \in BOOLEAN /\ (Below = <<>> => (Top.copy <=> root = Null))
      /\ Copies(stack) = Copies(Below) \cup (IF Top.copy THEN {Top.dst} ELSE {})
      /\ root \notin Copies(stack) /\ broken # "double free"
  BY <1>1, TopFacts DEF Owning
<1>3. CASE ~Top.copy
  <2>1. stack' = Below /\ UNCHANGED <<heap, zap, broken, given, root>>
    BY <1>3 DEF Return
  <2> QED BY <1>2, <1>3, <2>1, HeapStays
<1>4. CASE Top.copy /\ Below = <<>>
  <2>1. stack' = <<>> /\ root' = Top.dst /\ UNCHANGED <<heap, zap, broken, given>>
    BY <1>4 DEF Return
  <2>2. Copies(<<>>) = {} /\ CallsOk(<<>>, Top.dst, LiveOf(heap))
    BY DEF Copies, CallsOk
  <2>3. root = Null /\ Copies(stack) = {Top.dst} /\ Top.dst # Null
    BY <1>1, <1>2, <1>4, <2>2, TopApart
  <2> QED BY <1>2, <2>1, <2>2, <2>3, HeapStays
<1>5. CASE Top.copy /\ Below # <<>>
  <2> DEFINE caller == Below[Len(Below)]
             rest   == SubSeq(Below, 1, Len(Below) - 1)
             g      == [caller EXCEPT !.subs = RemoveAt(caller.subs, Due(caller.subs))]
             L      == LiveOf(heap)
  <2>1. PICK o : \/ /\ o = "ok"
                    /\ heap' = WithSubblock(heap, caller.dst, Top.dst)
                    /\ stack' = Append(rest, g)
                    /\ UNCHANGED <<zap, broken, given, root, next, outcome, clash>>
                 \/ Fails(o)
    BY <1>5 DEF Return
  <2>2. CASE Fails(o)
    BY <1>1, <2>2, StopOwn
  <2>3. CASE ~Fails(o)
    <3>1. caller \in Frames /\ rest \in Seq(Frames) /\ Below = Append(rest, caller)
      <4>1. \A S : \A x \in Seq(S) : x # <<>> =>
              /\ x[Len(x)] \in S /\ SubSeq(x, 1, Len(x) - 1) \in Seq(S)
              /\ x = Append(SubSeq(x, 1, Len(x) - 1), x[Len(x)])
        OBVIOUS
      <4> QED BY <1>2, <1>5, <4>1, Zenon
    <3>2. caller.subs \in Seq(Pairs) /\ caller.copy \in BOOLEAN
      <4>1. Below \in Seq(Callers)
        BY <1>1, StackFacts DEF MergeInv
      <4>2. \A S : \A x \in Seq(S) : x # <<>> => x[Len(x)] \in S
        OBVIOUS
      <4>3. caller \in Callers
        BY <1>5, <4>1, <4>2, Zenon
      <4> HIDE DEF caller
      <4> QED BY <4>3 DEF Callers
    <3>3. /\ heap' = WithSubblock(heap, caller.dst, Top.dst) /\ stack' = Append(rest, g)
          /\ UNCHANGED <<zap, broken, given, root, outcome>>
      BY <2>1, <2>3
    <3> HIDE DEF caller, rest, L
    <3>4. CallsOk(Append(rest, caller), root, L)
      BY <1>2, <3>1 DEF L
    <3>5. /\ CallsOk(rest, root, L) /\ CallLive(caller, L)
          /\ caller.copy => caller.dst \notin Copies(rest)
          /\ rest = <<>> => (caller.copy <=> root = Null)
          /\ Copies(Append(rest, caller)) = Copies(rest) \cup (IF caller.copy THEN {caller.dst} ELSE {})
      BY <3>1, <3>2, <3>4, CallsAppend
    <3>6. g \in Frames /\ g.copy = caller.copy /\ g.dst = caller.dst /\ CallLive(g, L)
      BY <3>1, <3>2, <3>5, DueLive
    <3> HIDE DEF g
    <3>7. Copies(stack') = Copies(Below) /\ CallsOk(stack', root, L)
      <4>1. /\ Copies(Append(rest, g)) = Copies(rest) \cup (IF g.copy THEN {g.dst} ELSE {})
            /\ CallsOk(Append(rest, g), root, L)
        BY <3>1, <3>2, <3>5, <3>6, CallsAppend
      <4>2. Copies(Below) = Copies(rest) \cup (IF caller.copy THEN {caller.dst} ELSE {})
        BY <3>1, <3>5
      <4> QED BY <3>3, <3>6, <4>1, <4>2
    <3>8. Listed(heap, heap', caller.dst, Top.dst)
      BY <3>3 DEF Listed
    <3>9. /\ Top.dst \in Held /\ caller.dst \in LiveOf(heap) /\ Owned(heap, Held)
          /\ Top.dst # root /\ Top.dst \notin Elements(Inputs) /\ Top.dst \notin Copies(Below)
          /\ Copies(stack) = Copies(Below) \cup {Top.dst}
      BY <1>1, <1>5, <3>5, TopApart DEF CallLive, Owning, L
    <3>10. Owned(heap', Held \ {Top.dst})
      BY <3>8, <3>9, OwnedListed
    <3>11. LiveOf(heap') = L
      BY <3>8, <3>9, ListedFacts DEF L
    <3>12. Held' = Held \ {Top.dst}
      BY <1>2, <3>3, <3>7, <3>9 DEF Held, Inputs
    <3>13. Owned(heap', Held') /\ CallsOk(stack', root', LiveOf(heap'))
      BY <3>3, <3>7, <3>10, <3>11, <3>12
    <3>14. root' \notin Copies(stack') /\ zap' = {} /\ broken' # "double free"
      BY <1>2, <3>3, <3>7, <3>9
    <3> QED BY <3>13, <3>14 DEF Owning
  <2> QED BY <2>2, <2>3
<1> QED BY <1>2, <1>3, <1>4, <1>5

LEMMA FreeOwn == ASSUME MergeInv, Owning, Free PROVE Owning'
<1> DEFINE a == CHOOSE x \in zap : TRUE
<1>1. /\ zap # {} /\ heap' = [heap EXCEPT ![a] = NoObject]
      /\ zap' = (zap \ {a}) \cup Elements(Kids(heap[a]))
      /\ broken' = (IF a \in Live THEN broken ELSE "double free")
      /\ UNCHANGED <<given, root, stack, outcome>>
  BY DEF Free, FreeStep
<1>2. a \in zap
  BY <1>1
<1> HIDE DEF a
<1>3. stack = <<>> /\ root = Null /\ outcome # "running" /\ Owned(heap, Held) /\ broken # "double free"
  BY <1>1 DEF Owning
<1>4. Copies(<<>>) = {} /\ \A r, L : CallsOk(<<>>, r, L)
  BY DEF Copies, CallsOk
<1>5. a \in Held /\ a \in LiveOf(heap) /\ a \notin Elements(Inputs)
  <2>1. \A S : \A s \in Seq(S) : Elements(s) \subseteq S
    BY DEF Elements
  <2>2. Inputs \in Seq(Old)
    BY InputsWhole DEF MergeInv
  <2>3. Elements(Inputs) \subseteq Old
    BY <2>1, <2>2, Zenon
  <2> QED BY <1>2, <2>3, HeldLive DEF MergeInv, New, Held
<1>6. Elements(Kids(heap[a])) = Kin(heap[a])
  <2>1. heap[a].dirs \in Seq(LiveOf(heap)) /\ heap[a].subs \in Seq(LiveOf(heap))
    BY <1>3, <1>5 DEF Owned, Object
  <2> QED BY <2>1, ConcatFacts DEF Kids, Kin
<1>7. Owned(heap', (Held \ {a}) \cup Kin(heap[a]))
  BY <1>1, <1>3, <1>5, OwnedFreed
<1>8. Held' = (Held \ {a}) \cup Kin(heap[a])
  <2>1. /\ Held = Elements(Inputs) \cup zap
        /\ Held' = Elements(Inputs) \cup ((zap \ {a}) \cup Kin(heap[a]))
    BY <1>1, <1>3, <1>4, <1>6 DEF Held, Inputs
  <2> QED BY <1>5, <2>1
<1>9. broken' = broken
  BY <1>1, <1>5 DEF Live, LiveOf
<1>10. Owned(heap', Held')
  BY <1>7, <1>8
<1>11. CallsOk(stack', root', LiveOf(heap')) /\ root' \notin Copies(stack')
  BY <1>1, <1>3, <1>4
<1> QED BY <1>1, <1>3, <1>9, <1>10, <1>11 DEF Owning

\* Both hold in every state.
LEMMA OwningAlways == Spec => [](MergeInv /\ Owning)
<1>1. Init => Owning
  <2> SUFFICES ASSUME Init PROVE Owning
    OBVIOUS
  <2>1. /\ given \in Forests /\ heap = given.heap /\ zap = {} /\ broken = "no"
        /\ root = Null /\ stack = <<>>
    BY DEF Init
  <2>2. Copies(<<>>) = {} /\ \A r, L : CallsOk(<<>>, r, L)
    BY DEF Copies, CallsOk
  <2>3. Held = Elements(Inputs)
    BY <2>1, <2>2 DEF Held
  <2>4. Owned(heap, Held)
    BY <2>1, <2>3, InputsOwned
  <2> QED BY <2>1, <2>2, <2>4 DEF Owning
<1>2. MergeInv /\ Owning /\ [Next]_vars => Owning'
  <2> SUFFICES ASSUME MergeInv, Owning, [Next]_vars PROVE Owning'
    OBVIOUS
  <2>1. CASE UNCHANGED vars
    <3>1. /\ heap' = heap /\ zap' = zap /\ broken' = broken /\ given' = given
          /\ root' = root /\ stack' = stack /\ outcome' = outcome
      BY <2>1 DEF vars
    <3>2. Held' = Held
      BY <3>1 DEF Held, Inputs
    <3>3. Owned(heap', Held') /\ CallsOk(stack', root', LiveOf(heap'))
      BY <3>1, <3>2 DEF Owning
    <3> QED BY <3>1, <3>3 DEF Owning
  <2> QED BY <2>1, NextInputOwn, MergeDirectiveOwn, MatchSubblocksOwn, MergeSubblockOwn,
             ReturnOwn, FreeOwn DEF Next
<1> QED BY <1>1, <1>2, MergeInvAlways, PTL DEF Spec

\* NULL may stand in a list more than once, an address may not.
Single(s) == \A j, k \in 1..Len(s) : s[j] = s[k] /\ s[j] # Null => j = k

LEMMA ConcatSingle ==
  ASSUME NEW S, NEW s \in Seq(S), NEW t \in Seq(S), Single(s), Single(t),
         Elements(s) \cap Elements(t) \subseteq {Null}
  PROVE  Single(s \o t)
<1> DEFINE u == s \o t
<1>1. /\ Len(u) = Len(s) + Len(t) /\ Len(s) \in Nat /\ Len(t) \in Nat
      /\ \A k \in 1..Len(s) : u[k] = s[k]
      /\ \A k \in 1..Len(t) : u[Len(s) + k] = t[k]
  OBVIOUS
<1> HIDE DEF u
<1>2. ASSUME NEW k \in 1..Len(u)
      PROVE  \/ k \in 1..Len(s) /\ u[k] = s[k]
             \/ k - Len(s) \in 1..Len(t) /\ u[k] = t[k - Len(s)]
  <2>1. CASE k <= Len(s)
    BY <1>1, <2>1
  <2>2. CASE ~(k <= Len(s))
    <3>1. k - Len(s) \in 1..Len(t) /\ Len(s) + (k - Len(s)) = k
      BY <1>1, <2>2
    <3> QED BY <1>1, <3>1
  <2> QED BY <2>1, <2>2
<1>3. ASSUME NEW j \in 1..Len(u), NEW k \in 1..Len(u), u[j] = u[k], u[j] # Null PROVE j = k
  <2>1. \A i \in 1..Len(s) : \A l \in 1..Len(t) : s[i] = t[l] => s[i] = Null
    BY DEF Elements
  <2>2. CASE j \in 1..Len(s) /\ u[j] = s[j]
    <3>1. k \in 1..Len(s) /\ u[k] = s[k]
      BY <1>2, <1>3, <2>1, <2>2
    <3> QED BY <1>3, <2>2, <3>1 DEF Single
  <2>3. CASE j - Len(s) \in 1..Len(t) /\ u[j] = t[j - Len(s)]
    <3>1. k - Len(s) \in 1..Len(t) /\ u[k] = t[k - Len(s)]
      BY <1>2, <1>3, <2>1, <2>3
    <3>2. j - Len(s) = k - Len(s)
      BY <1>3, <2>3, <3>1 DEF Single
    <3> QED BY <1>1, <3>2
  <2> QED BY <1>2, <2>2, <2>3
<1> QED BY <1>3 DEF u, Single

\* The inputs, the copies under way and the merged block are held.
LEMMA RootsHold == MergeInv /\ Owning => Holders(Roots, Held)
<1> SUFFICES ASSUME MergeInv, Owning PROVE Holders(Roots, Held)
  OBVIOUS
<1> DEFINE S == Addr \cup {Null}
           c == [k \in 1..Len(stack) |-> IF stack[k].copy THEN stack[k].dst ELSE Null]
           e == <<root>>
           i == Inputs
<1>1. \A T : \A s \in Seq(T) : Elements(s) \subseteq T
  BY DEF Elements
<1>2. /\ Old \subseteq Addr /\ New \subseteq Addr /\ Old \cap New = {} /\ Null \notin Addr
      /\ root \in New \cup {Null} /\ zap \subseteq New
  BY TreeAssumption DEF Old, New, MergeInv
<1>3. i \in Seq(S) /\ Elements(i) \subseteq Old /\ Single(i)
  <2>1. i \in Seq(Old) /\ Apart(i)
    BY InputsWhole, InputsOwned DEF MergeInv
  <2>2. \A U, T : U \subseteq T => \A q \in Seq(U) : q \in Seq(T)
    OBVIOUS
  <2>3. i \in Seq(S)
    BY <1>2, <2>1, <2>2
  <2> QED BY <1>1, <2>1, <2>3, Zenon DEF Apart, Single
<1>4. /\ c \in Seq(S) /\ Len(c) = Len(stack)
      /\ \A k \in 1..Len(stack) : c[k] = IF stack[k].copy THEN stack[k].dst ELSE Null
      /\ \A k \in 1..Len(stack) : stack[k].copy \in BOOLEAN /\ stack[k].dst \in New
  <2>1. stack \in Seq(Frames)
    BY DEF MergeInv, StackOk
  <2>2. \A T : \A s \in Seq(T) : \A k \in 1..Len(s) : s[k] \in T
    OBVIOUS
  <2>3. \A k \in 1..Len(stack) : stack[k] \in Frames
    BY <2>1, <2>2, Zenon
  <2>4. \A k \in 1..Len(stack) : stack[k].copy \in BOOLEAN /\ stack[k].dst \in New
    BY <2>3 DEF Frames
  <2> QED BY <1>2, <2>1, <2>4
<1> HIDE DEF c, S
<1>5. Elements(c) \ {Null} = Copies(stack) /\ Copies(stack) \subseteq New
  BY <1>2, <1>4 DEF Elements, Copies
<1>6. Single(c)
  BY <1>4 DEF Single, Owning, CallsOk
<1>7. e \in Seq(S) /\ Elements(e) = {root} /\ Single(e)
  BY <1>2 DEF Elements, Single, S
<1> HIDE DEF e, i
<1>8. /\ i \o c \in Seq(S) /\ Elements(i \o c) = Elements(i) \cup Elements(c) /\ Single(i \o c)
  <2>1. Elements(i) \cap Elements(c) \subseteq {Null}
    BY <1>2, <1>3, <1>5
  <2> QED BY <1>3, <1>4, <1>6, <2>1, ConcatFacts, ConcatSingle
<1> DEFINE d == i \o c
<1> HIDE DEF d
<1>9. /\ d \o e \in Seq(S) /\ Elements(d \o e) = (Elements(i) \cup Elements(c)) \cup {root}
      /\ Single(d \o e)
  <2>1. d \in Seq(S) /\ Single(d) /\ Elements(d) = Elements(i) \cup Elements(c)
    BY <1>8 DEF d
  <2>2. root \notin Copies(stack)
    BY DEF Owning
  <2>3. Elements(d) \cap Elements(e) \subseteq {Null}
    BY <1>2, <1>3, <1>5, <1>7, <2>1, <2>2
  <2> QED BY <1>7, <2>1, <2>3, ConcatFacts, ConcatSingle
<1>10. Roots = d \o e
  BY DEF Roots, d, c, e, i
<1>11. Held = (((Elements(i) \cup Elements(c)) \cup {root}) \ {Null}) \cup zap
  <2>1. Held = ((Elements(i) \cup Copies(stack)) \cup ({root} \ {Null})) \cup zap
    BY DEF Held, i
  <2>2. Null \notin Elements(i)
    BY <1>2, <1>3
  <2> QED BY <1>5, <2>1, <2>2
<1>12. zap \cap Elements(Roots) = {}
  <2>1. CASE zap = {}
    BY <2>1
  <2>2. CASE zap # {}
    <3>1. stack = <<>> /\ root = Null
      BY <2>2 DEF Owning
    <3>2. Copies(stack) = {}
      BY <3>1 DEF Copies
    <3>3. Elements(Roots) \subseteq Old \cup {Null}
      BY <1>3, <1>5, <1>9, <1>10, <3>1, <3>2
    <3>4. Null \notin zap
      BY <1>2
    <3> QED BY <1>2, <3>3, <3>4
  <2> QED BY <2>1, <2>2
<1> QED BY <1>9, <1>10, <1>11, <1>12 DEF Holders, Single, S

\* Wherever the merge stops, each live block and directive belongs to the inputs,
\* a copy under way, the merged block or the free under way, and to one of them
\* only; none is freed twice, and nothing refers to one that is gone.
THEOREM MergeOwnedOnce == Spec => []OneOwner
<1>1. MergeInv /\ Owning => OneOwner
  <2> SUFFICES ASSUME MergeInv, Owning PROVE OneOwner
    OBVIOUS
  <2>1. ASSUME NEW a \in Addr
        PROVE  Cardinality(Owners(a, Roots)) = IF a \in Live THEN 1 ELSE 0
    BY RootsHold, OwnersCount DEF Owning
  <2> QED BY <2>1 DEF OneOwner, Owning
<1> QED BY <1>1, OwningAlways, PTL
-----------------------------------------------------------------------------
\* What the inputs list is of the kind that a list of its type can hold.
LEMMA InputsKinds ==
  ASSUME given \in Forests
  PROVE  /\ \A a \in Addr : given.heap[a].kind \in {"none", "block", "directive"}
         /\ \A a \in Addr : \A b \in Elements(given.heap[a].subs) : given.heap[b].kind = "block"
         /\ \A r \in Elements(Inputs) : given.heap[r].kind = "block"
<1>1. ASSUME NEW a \in Addr
      PROVE  /\ given.heap[a].kind \in {"none", "block", "directive"}
             /\ \A b \in Elements(given.heap[a].subs) : given.heap[b].kind = "block"
  BY ForestAssumption, Zenon
<1>2. \A r \in Elements(given.roots) : given.heap[r].kind = "block"
  BY ForestAssumption, Zenon
<1> QED BY <1>1, <1>2 DEF Inputs

\* The copies list blocks as subblocks.
ListsBlocks(h) == \A a \in New : \A b \in Elements(h[a].subs) : h[b].kind = "block"

\* A call between two blocks; it is somewhere among the directives of the one it
\* reads, and the subblocks it has to do, with their matches, are of the two.
CallKinded(f, h) ==
  /\ h[f.src].kind = "block" /\ h[f.dst].kind = "block" /\ f.d <= Len(h[f.src].dirs)
  /\ f.subs # Null => \A p \in Elements(f.subs) :
       p[1] \in Elements(h[f.src].subs) /\ p[2] \in Elements(h[f.dst].subs) \cup {Null}

\* What TypeOK needs to hold after the next step, besides ownership.
Kinded ==
  /\ \A a \in Addr : heap[a].kind \in {"none", "block", "directive"}
  /\ broken \in {"no", "double free", "NULL list", "NULL argument"}
  /\ outcome \in {"running", "ok", "duplicate", "oom"}
  /\ outcome = "running" => ListsBlocks(heap)
  /\ outcome # "running" => stack = <<>>
  /\ root # Null => heap[root].kind = "block"
  /\ next <= Len(Inputs) + 1
  /\ stack # <<>> => next <= Len(Inputs)
  /\ outcome = "running" /\ root = Null => next = 1
  /\ \A f \in Elements(stack) : CallKinded(f, heap)

\* From h to g objects keep their kinds, and lists of subblocks only grow.
Grows(h, g) == \A a \in LiveOf(h) :
                 g[a].kind = h[a].kind /\ Elements(h[a].subs) \subseteq Elements(g[a].subs)

LEMMA CallStays ==
  ASSUME NEW f \in Frames, NEW h, NEW g, CallKinded(f, h), Grows(h, g),
         \A a \in Old : g[a] = h[a]
  PROVE  CallKinded(f, g)
<1>1. f.src \in Old /\ f.dst \in Addr /\ g[f.src] = h[f.src]
  BY DEF Frames, New
<1>2. f.dst \in LiveOf(h)
  BY <1>1 DEF CallKinded, LiveOf
<1>3. g[f.dst].kind = h[f.dst].kind /\ Elements(h[f.dst].subs) \subseteq Elements(g[f.dst].subs)
  BY <1>2 DEF Grows
<1> QED BY <1>1, <1>3 DEF CallKinded

\* An object that lists nothing is made.
LEMMA NewKinded ==
  ASSUME NEW h, HeapOk(h), NEW a \in New, h[a].kind = "none", NEW o,
         o.kind \in {"block", "directive"}, o.subs = <<>>,
         \A x \in Addr : h[x].kind \in {"none", "block", "directive"}, ListsBlocks(h)
  PROVE  LET g == [h EXCEPT ![a] = o] IN
           /\ \A x \in Addr : g[x].kind \in {"none", "block", "directive"}
           /\ ListsBlocks(g) /\ Grows(h, g) /\ \A x \in Addr \ {a} : g[x] = h[x]
           /\ g[a] = o
<1> DEFINE g == [h EXCEPT ![a] = o]
<1>1. a \in Addr /\ h = [x \in Addr |-> h[x]]
  BY DEF New, HeapOk
<1>2. g[a] = o /\ \A x \in Addr \ {a} : g[x] = h[x]
  BY <1>1
<1> HIDE DEF g
<1>3. \A x \in Addr : g[x].kind \in {"none", "block", "directive"}
  BY <1>2
<1>4. Grows(h, g)
  BY <1>2 DEF Grows, LiveOf
<1>5. ASSUME NEW x \in New, NEW b \in Elements(g[x].subs) PROVE g[b].kind = "block"
  <2>1. x # a
    BY <1>2, <1>5 DEF Elements
  <2>2. b \in Elements(h[x].subs)
    BY <1>2, <1>5, <2>1 DEF New
  <2>3. h[b].kind = "block"
    BY <2>2 DEF ListsBlocks
  <2>4. b \in Addr
    <3>1. h[x].subs \in Seq(New)
      BY DEF HeapOk, Object
    <3> QED BY <2>2, <3>1 DEF Elements, New
  <2> QED BY <1>2, <2>3, <2>4
<1>6. ListsBlocks(g)
  BY <1>5 DEF ListsBlocks
<1> QED BY <1>2, <1>3, <1>4, <1>6 DEF g

\* A copy is given a directive or a block to list.
LEMMA ListKinded ==
  ASSUME NEW h, HeapOk(h), NEW b \in New, NEW x \in New, NEW g,
         g = WithDirective(h, b, x) \/ (g = WithSubblock(h, b, x) /\ h[x].kind = "block"),
         \A y \in Addr : h[y].kind \in {"none", "block", "directive"}, ListsBlocks(h)
  PROVE  /\ \A y \in Addr : g[y].kind \in {"none", "block", "directive"}
         /\ ListsBlocks(g) /\ Grows(h, g)
<1>1. b \in Addr /\ h = [y \in Addr |-> h[y]] /\ Object(h[b], New)
  BY DEF New, HeapOk
<1>2. PICK k, n, r, d, s : h[b] = [kind |-> k, name |-> n, args |-> r, dirs |-> d, subs |-> s]
  BY <1>1, Zenon DEF Object
<1>3. h[b].subs \in Seq(New) /\ Elements(Append(h[b].subs, x)) = Elements(h[b].subs) \cup {x}
  BY <1>1, AppendFacts DEF Object
<1>4. /\ \A y \in Addr \ {b} : g[y] = h[y]
      /\ g[b].kind = h[b].kind
      /\ \/ g[b].subs = h[b].subs
         \/ g[b].subs = Append(h[b].subs, x) /\ h[x].kind = "block"
  <2>1. CASE g = WithDirective(h, b, x)
    <3>1. g = [h EXCEPT ![b] = [h[b] EXCEPT !.dirs = Append(h[b].dirs, x)]]
      BY <2>1 DEF WithDirective
    <3> QED BY <1>1, <1>2, <3>1
  <2>2. CASE g = WithSubblock(h, b, x) /\ h[x].kind = "block"
    <3>1. g = [h EXCEPT ![b] = [h[b] EXCEPT !.subs = Append(h[b].subs, x)]]
      BY <2>2 DEF WithSubblock
    <3> QED BY <1>1, <1>2, <2>2, <3>1
  <2> QED BY <2>1, <2>2
<1>5. \A y \in Addr : g[y].kind = h[y].kind
  BY <1>4
<1>6. ASSUME NEW y \in New, NEW c \in Elements(g[y].subs) PROVE g[c].kind = "block"
  <2>1. h[c].kind = "block"
    <3>1. CASE c \in Elements(h[y].subs)
      BY <3>1 DEF ListsBlocks
    <3>2. CASE c \notin Elements(h[y].subs)
      <4>1. y = b
        BY <1>4, <1>6, <3>2 DEF New
      <4> QED BY <1>3, <1>4, <1>6, <3>2, <4>1
    <3> QED BY <3>1, <3>2
  <2>2. c \in Addr
    <3>1. c \in Elements(h[y].subs) \/ c = x
      <4>1. CASE y = b
        BY <1>3, <1>4, <1>6, <4>1
      <4>2. CASE y # b
        BY <1>4, <1>6, <4>2 DEF New
      <4> QED BY <4>1, <4>2
    <3>2. h[y].subs \in Seq(New)
      BY DEF HeapOk, Object
    <3> QED BY <3>1, <3>2 DEF Elements, New
  <2> QED BY <1>5, <2>1, <2>2
<1>7. Grows(h, g)
  BY <1>1, <1>3, <1>4 DEF Grows, LiveOf
<1> QED BY <1>5, <1>6, <1>7 DEF ListsBlocks

\* The calls under way are the innermost one and those that wait for it.
LEMMA StackElements ==
  ASSUME MergeInv, stack # <<>>
  PROVE  Elements(stack) = Elements(Below) \cup {Top}
BY TopLast, AppendFacts

\* What there is to show of a step.
LEMMA KindedStep ==
  ASSUME given' = given, \A a \in Addr : heap'[a].kind \in {"none", "block", "directive"},
         broken' \in {"no", "double free", "NULL list", "NULL argument"},
         outcome' \in {"running", "ok", "duplicate", "oom"},
         outcome' = "running" => ListsBlocks(heap'), outcome' # "running" => stack' = <<>>,
         root' # Null => heap'[root'].kind = "block",
         next' <= Len(Inputs) + 1, stack' # <<>> => next' <= Len(Inputs),
         outcome' = "running" /\ root' = Null => next' = 1,
         \A f \in Elements(stack') : CallKinded(f, heap')
  PROVE  Kinded'
<1>1. Inputs' = Inputs /\ New' = New
  BY DEF Inputs, New, Old
<1>2. ListsBlocks(heap)' <=> ListsBlocks(heap')
  BY <1>1 DEF ListsBlocks
<1>3. (\A f \in Elements(stack) : CallKinded(f, heap))' <=>
        \A f \in Elements(stack') : CallKinded(f, heap')
  BY DEF CallKinded, Elements
<1> QED BY <1>1, <1>2, <1>3 DEF Kinded

LEMMA EmptyLists == Elements(<<>>) = {}
BY DEF Elements

\* The merge is given up, or ends.
LEMMA StopKinded ==
  ASSUME Kinded, outcome = "running",
         \/ Crash("NULL list") \/ Crash("NULL argument") \/ (\E o : Fails(o))
         \/ Abort("duplicate") \/ Abort("oom")
  PROVE  Kinded'
<1>1. ASSUME NEW how \in {"NULL list", "NULL argument"}, Crash(how) PROVE Kinded'
  <2>1. UNCHANGED <<heap, given, root, next, stack, outcome>> /\ broken' = how
    BY <1>1 DEF Crash
  <2> QED BY <2>1, KindedStep DEF Kinded
<1>2. ASSUME NEW reason \in {"duplicate", "oom"}, Abort(reason) PROVE Kinded'
  <2>1. /\ UNCHANGED <<heap, broken, given, next>>
        /\ outcome' = reason /\ stack' = <<>> /\ root' = Null
    BY <1>2 DEF Abort
  <2>2. Elements(stack') = {}
    BY <2>1, EmptyLists
  <2> QED BY <2>1, <2>2, KindedStep DEF Kinded
<1> QED BY <1>1, <1>2 DEF Fails

\* The calls go on where kinds stay and lists grow; one may be added.
LEMMA CallsStay ==
  ASSUME MergeInv, NEW s \in Seq(Frames), NEW h, Grows(heap, h), HeapOk(h),
         \A f \in Elements(s) : CallKinded(f, heap)
  PROVE  /\ \A f \in Elements(s) : CallKinded(f, h)
         /\ \A f \in Frames : CallKinded(f, h) =>
              \A e \in Elements(Append(s, f)) : CallKinded(e, h)
<1>1. \A a \in Old : h[a] = heap[a]
  BY DEF MergeInv, HeapOk
<1>2. ASSUME NEW f \in Elements(s) PROVE CallKinded(f, h)
  <2>1. f \in Frames
    BY DEF Elements
  <2> QED BY <1>1, <2>1, CallStays
<1>3. ASSUME NEW f \in Frames, CallKinded(f, h), NEW e \in Elements(Append(s, f))
      PROVE  CallKinded(e, h)
  <2>1. Elements(Append(s, f)) = Elements(s) \cup {f}
    BY AppendFacts
  <2> QED BY <1>2, <1>3, <2>1
<1> QED BY <1>2, <1>3

\* Where the heap stays, everything on it does.
LEMMA HeapGrows == Grows(heap, heap)
BY DEF Grows

\* A call that is beginning.
LEMMA CallBegins ==
  ASSUME NEW copy \in BOOLEAN, NEW src \in Old, NEW dst \in New, NEW h, HeapOk(h),
         given \in Forests, h[src].kind = "block", h[dst].kind = "block"
  PROVE  Call(copy, src, dst) \in Frames /\ CallKinded(Call(copy, src, dst), h)
<1> DEFINE f == Call(copy, src, dst)
<1>1. f.src = src /\ f.dst = dst /\ f.d = 0 /\ f.subs = Null
  BY DEF Call
<1>2. f \in Frames
  BY CallOk
<1>3. Len(h[src].dirs) \in Nat
  <2>1. h[src] = given.heap[src] /\ given.heap[src].dirs \in Seq(Old)
    BY InputsWhole DEF HeapOk
  <2>2. \A S : \A s \in Seq(S) : Len(s) \in Nat
    OBVIOUS
  <2> QED BY <2>1, <2>2
<1> HIDE DEF f
<1>4. CallKinded(f, h)
  BY <1>1, <1>3 DEF CallKinded
<1> QED BY <1>2, <1>4 DEF f

LEMMA BeginCopyKinded ==
  ASSUME MergeInv, Owning, Kinded, outcome = "running", NEW b \in Old, BeginCopy(b),
         heap[b].kind = "block", next <= Len(Inputs)
  PROVE  Kinded'
<1>1. PICK o \in Outcomes(Build(heap[b].args)) :
        \/ /\ o = "ok"
           /\ heap' = [heap EXCEPT ![Malloc] = Block(heap[b].name, heap[b].args)]
           /\ stack' = Append(stack, Call(TRUE, b, Malloc))
           /\ UNCHANGED <<zap, broken, given, root, next, outcome, clash>>
        \/ Fails(o)
  BY DEF BeginCopy
<1>2. CASE Fails(o)
  BY <1>2, StopKinded
<1>3. CASE ~Fails(o)
  <2> DEFINE a == Malloc
             n == Block(heap[b].name, heap[b].args)
             f == Call(TRUE, b, a)
  <2>1. o = "ok" /\ Unused # {}
    BY <1>1, <1>3 DEF Outcomes
  <2>2. a \in New /\ heap[a].kind = "none" /\ a \in Addr
    <3>1. a \in Unused
      BY <2>1 DEF Malloc
    <3> QED BY <2>1, <3>1, MallocNew DEF MergeInv, Unused, Live
  <2>3. n.kind = "block" /\ n.subs = <<>> /\ Object(n, New)
    BY NewRecords, BlockObject DEF Fields
  <2>4. heap' = [heap EXCEPT ![a] = n] /\ stack' = Append(stack, f)
        /\ UNCHANGED <<zap, broken, given, root, next, outcome>>
    BY <1>1, <1>3
  <2> HIDE DEF a, n, f
  <2>5. HeapOk(heap) /\ ListsBlocks(heap)
        /\ \A x \in Addr : heap[x].kind \in {"none", "block", "directive"}
    BY DEF MergeInv, Kinded
  <2>6. /\ \A x \in Addr : heap'[x].kind \in {"none", "block", "directive"}
        /\ ListsBlocks(heap') /\ Grows(heap, heap')
        /\ \A x \in Addr \ {a} : heap'[x] = heap[x]
        /\ heap'[a] = n /\ HeapOk(heap')
    <3> DEFINE g == [heap EXCEPT ![a] = n]
    <3>1. /\ \A x \in Addr : g[x].kind \in {"none", "block", "directive"}
          /\ ListsBlocks(g) /\ Grows(heap, g) /\ \A x \in Addr \ {a} : g[x] = heap[x]
          /\ g[a] = n
      BY <2>2, <2>3, <2>5, NewKinded
    <3>2. HeapOk(g)
      BY <2>2, <2>3, <2>5, StoreOk
    <3>3. heap' = g
      BY <2>4
    <3> HIDE DEF g
    <3> QED BY <3>1, <3>2, <3>3
  <2>7. f \in Frames /\ CallKinded(f, heap')
    <3>1. heap'[b].kind = "block" /\ heap'[a].kind = "block"
      BY <2>2, <2>3, <2>6 DEF Old, New
    <3> QED BY <2>2, <2>6, <3>1, CallBegins DEF MergeInv, f
  <2>8. \A e \in Elements(stack') : CallKinded(e, heap')
    BY <2>4, <2>6, <2>7, CallsStay DEF MergeInv, StackOk, Kinded
  <2>9. root' # Null => heap'[root'].kind = "block"
    BY <2>2, <2>4, <2>6 DEF Kinded, MergeInv, New
  <2> QED BY <2>4, <2>6, <2>8, <2>9, KindedStep DEF Kinded
<1> QED BY <1>2, <1>3

LEMMA NextInputKinded == ASSUME MergeInv, Owning, Kinded, NextInput PROVE Kinded'
<1>1. stack = <<>> /\ outcome = "running" /\ stack \in Seq(Frames) /\ Elements(stack) = {}
  BY DEF NextInput, Running, Elements
<1>2. /\ Inputs \in Seq(Old) /\ Inputs # <<>> /\ next \in Nat \ {0} /\ Len(Inputs) \in Nat
      /\ HeapOk(heap) /\ given \in Forests /\ root \in New \cup {Null}
  BY InputsWhole DEF MergeInv
<1>3. ASSUME NEW k \in 1..Len(Inputs)
      PROVE  Inputs[k] \in Old /\ heap[Inputs[k]].kind = "block"
  <2>1. Inputs[k] \in Old /\ Inputs[k] \in Elements(Inputs)
    BY <1>2 DEF Elements
  <2> QED BY <1>2, <2>1, InputsKinds DEF HeapOk
<1>4. CASE next = 1 /\ BeginCopy(Inputs[1])
  <2>1. 1 \in 1..Len(Inputs) /\ next <= Len(Inputs)
    BY <1>2, <1>4
  <2> QED BY <1>1, <1>3, <1>4, <2>1, BeginCopyKinded
<1>5. CASE /\ root # Null /\ next <= Len(Inputs)
           /\ stack' = <<Call(FALSE, Inputs[next], root)>>
           /\ UNCHANGED <<heap, zap, broken, given, root, next, outcome, clash>>
  <2> DEFINE f == Call(FALSE, Inputs[next], root)
  <2>1. next \in 1..Len(Inputs) /\ root \in New /\ heap[root].kind = "block"
    <3>1. root \in New /\ heap[root].kind = "block"
      BY <1>2, <1>5 DEF Kinded
    <3>2. next \in 1..Len(Inputs)
      <4> DEFINE n == Len(Inputs)
      <4>1. n \in Nat /\ next \in Nat \ {0} /\ next <= n
        BY <1>2, <1>5
      <4> HIDE DEF n
      <4>2. next \in 1..n
        BY <4>1
      <4> QED BY <4>2 DEF n
    <3> QED BY <3>1, <3>2
  <2>2. f \in Frames /\ CallKinded(f, heap)
    BY <1>2, <1>3, <2>1, CallBegins
  <2>3. stack' = Append(stack, f)
    BY <1>1, <1>5
  <2> HIDE DEF f
  <2>4. \A e \in Elements(stack') : CallKinded(e, heap)
    BY <1>1, <1>2, <2>2, <2>3, CallsStay, HeapGrows
  <2>5. heap' = heap /\ UNCHANGED <<broken, given, root, next, outcome>>
    BY <1>5
  <2>6. \A e \in Elements(stack') : CallKinded(e, heap')
    BY <2>4, <2>5
  <2>7. next' <= Len(Inputs) /\ next' <= Len(Inputs) + 1 /\ root' # Null
    BY <1>5, <2>5 DEF Kinded
  <2> QED BY <1>1, <2>1, <2>5, <2>6, <2>7, KindedStep DEF Kinded
<1>6. CASE /\ root # Null /\ outcome' = "ok"
           /\ UNCHANGED <<heap, zap, broken, given, root, next, stack, clash>>
  BY <1>1, <1>6, KindedStep DEF Kinded
<1> QED BY <1>4, <1>5, <1>6, Zenon DEF NextInput

\* The innermost call is done with a directive; it has not run past the last.
LEMMA AdvanceKinded ==
  ASSUME MergeInv, Kinded, stack # <<>>, Advance, Top.d < Len(Src.dirs),
         NEW h, HeapOk(h), Grows(heap, h)
  PROVE  \A e \in Elements(stack') : CallKinded(e, h)
<1> DEFINE f == [Top EXCEPT !.d = Top.d + 1]
<1>1. /\ Top \in Frames /\ Below \in Seq(Frames) /\ Elements(stack) = Elements(Below) \cup {Top}
      /\ Top.src \in Old /\ Top.d \in Nat
  BY TopLast, StackElements DEF Frames
<1>2. /\ f \in Frames /\ f.src = Top.src /\ f.dst = Top.dst /\ f.d = Top.d + 1
      /\ f.subs = Top.subs
  <2>1. Top.d + 1 \in Nat
    BY <1>1
  <2> HIDE DEF f
  <2> QED BY <1>1, <2>1, SameCall DEF f
<1>3. Len(Src.dirs) \in Nat
  <2>1. Src = given.heap[Top.src] /\ given.heap[Top.src].dirs \in Seq(Old)
    BY <1>1, InputsWhole DEF MergeInv, HeapOk, Src
  <2>2. \A S : \A s \in Seq(S) : Len(s) \in Nat
    OBVIOUS
  <2> QED BY <2>1, <2>2
<1>4. stack' = Append(Below, f)
  BY DEF Advance
<1> HIDE DEF f
<1>5. CallKinded(f, heap)
  <2>1. CallKinded(Top, heap)
    BY <1>1 DEF Kinded
  <2>2. f.d <= Len(heap[f.src].dirs)
    BY <1>1, <1>2, <1>3 DEF Src
  <2> QED BY <1>2, <2>1, <2>2 DEF CallKinded
<1>6. \A a \in Old : h[a] = heap[a]
  BY DEF MergeInv, HeapOk
<1>7. CallKinded(f, h)
  BY <1>2, <1>5, <1>6, CallStays
<1> QED BY <1>1, <1>2, <1>4, <1>7, CallsStay DEF Kinded

LEMMA MergeDirectiveKinded == ASSUME MergeInv, Owning, Kinded, MergeDirective PROVE Kinded'
<1> DEFINE dir == Src.dirs[Top.d + 1]
<1>1. /\ stack # <<>> /\ outcome = "running" /\ Top \in Frames /\ Top.src \in Old
      /\ Top.dst \in New /\ Top.d \in Nat /\ Top.d < Len(Src.dirs)
      /\ given \in Forests /\ HeapOk(heap)
  <2>1. stack # <<>> /\ outcome = "running" /\ Top.d < Len(Src.dirs)
    BY DEF MergeDirective, Running
  <2> QED BY <2>1, TopLast DEF Frames, MergeInv
<1>2. /\ heap[dir].kind = "directive" /\ heap[dir].subs = <<>> /\ Object(heap[dir], New)
  <2>1. Src = given.heap[Top.src] /\ given.heap[Top.src].dirs \in Seq(Old)
    BY <1>1, InputsWhole DEF Src, HeapOk
  <2>2. Top.d + 1 \in 1..Len(given.heap[Top.src].dirs)
    BY <1>1, <2>1
  <2>3. LET o == given.heap[dir] IN dir \in Old /\ o.kind = "directive" /\ o.subs = <<>>
    BY <1>1, <2>1, <2>2, DirectiveWhole, Zenon
  <2>4. Object(given.heap[dir], New)
    BY <1>1, <2>1, <2>2, InputsWhole
  <2> HIDE DEF dir
  <2>5. heap[dir] = given.heap[dir]
    BY <1>1, <2>3 DEF HeapOk
  <2> QED BY <2>3, <2>4, <2>5
<1> HIDE DEF dir
<1>3. \/ /\ Unused # {} /\ Advance
         /\ heap' = WithDirective([heap EXCEPT ![Malloc] = heap[dir]], Top.dst, Malloc)
         /\ UNCHANGED <<zap, broken, given, root, next, outcome, clash>>
      \/ (\E o : Fails(o)) \/ Crash("NULL argument") \/ Abort("duplicate")
      \/ Advance /\ UNCHANGED <<heap, zap, broken, given, root, next, outcome, clash>>
  BY DEF MergeDirective, Outcomes, dir
<1>4. CASE /\ Unused # {} /\ Advance
           /\ heap' = WithDirective([heap EXCEPT ![Malloc] = heap[dir]], Top.dst, Malloc)
           /\ UNCHANGED <<zap, broken, given, root, next, outcome, clash>>
  <2> DEFINE a == Malloc
             o == heap[dir]
             h == [heap EXCEPT ![a] = o]
  <2>1. a \in New /\ heap[a].kind = "none"
    <3>1. a \in Unused
      BY <1>4 DEF Malloc
    <3> QED BY <1>1, <1>4, <3>1, MallocNew DEF Unused, Live
  <2>2. heap' = WithDirective(h, Top.dst, a)
    BY <1>4
  <2>3. o.kind \in {"block", "directive"} /\ o.subs = <<>> /\ Object(o, New)
    BY <1>2
  <2> HIDE DEF a, o
  <2>4. ListsBlocks(heap) /\ \A x \in Addr : heap[x].kind \in {"none", "block", "directive"}
    BY <1>1 DEF Kinded
  <2>5. /\ \A x \in Addr : h[x].kind \in {"none", "block", "directive"}
        /\ ListsBlocks(h) /\ Grows(heap, h) /\ HeapOk(h)
    BY <1>1, <2>1, <2>3, <2>4, NewKinded, StoreOk
  <2> HIDE DEF h
  <2>6. /\ \A x \in Addr : heap'[x].kind \in {"none", "block", "directive"}
        /\ ListsBlocks(heap') /\ Grows(h, heap') /\ HeapOk(heap')
    BY <1>1, <2>1, <2>2, <2>5, ListKinded, ListOk
  <2>7. Grows(heap, heap')
    BY <2>5, <2>6 DEF Grows, LiveOf
  <2>8. \A e \in Elements(stack') : CallKinded(e, heap')
    BY <1>1, <1>4, <2>6, <2>7, AdvanceKinded
  <2>9. root' # Null => heap'[root'].kind = "block"
    <3>1. root # Null => root \in LiveOf(heap)
      BY HeldLive
    <3> QED BY <1>4, <2>7, <3>1 DEF Grows, Kinded
  <2> QED BY <1>1, <1>4, <2>6, <2>8, <2>9, KindedStep DEF Kinded
<1>5. CASE Advance /\ UNCHANGED <<heap, zap, broken, given, root, next, outcome, clash>>
  <2>1. \A e \in Elements(stack') : CallKinded(e, heap)
    BY <1>1, <1>5, AdvanceKinded, HeapGrows
  <2>2. \A e \in Elements(stack') : CallKinded(e, heap')
    BY <1>5, <2>1
  <2> QED BY <1>1, <1>5, <2>2, KindedStep DEF Kinded
<1> QED BY <1>1, <1>3, <1>4, <1>5, StopKinded

\* The innermost call is replaced by another with the same blocks.
LEMMA TopKinded ==
  ASSUME MergeInv, Owning, Kinded, stack # <<>>, outcome = "running",
         NEW f \in Frames, CallKinded(f, heap),
         stack' = Append(Below, f), UNCHANGED <<heap, broken, given, root, next, outcome>>
  PROVE  Kinded'
<1>1. Below \in Seq(Frames) /\ Elements(stack) = Elements(Below) \cup {Top}
  BY TopLast, StackElements
<1>2. \A e \in Elements(Below) : CallKinded(e, heap)
  BY <1>1 DEF Kinded
<1>3. \A e \in Elements(stack') : CallKinded(e, heap)
  BY <1>1, <1>2, CallsStay, HeapGrows DEF MergeInv
<1>4. \A e \in Elements(stack') : CallKinded(e, heap')
  BY <1>3
<1> QED BY <1>4, KindedStep DEF Kinded

LEMMA MatchSubblocksKinded == ASSUME MergeInv, Owning, Kinded, MatchSubblocks PROVE Kinded'
<1> DEFINE S == Elements(Src.subs)
           D == Elements(Dst.subs)
           pairs == [k \in 1..Len(Src.subs) |-> <<Src.subs[k], Match(Src.subs[k])>>]
           f == [Top EXCEPT !.subs = pairs]
<1>1. /\ stack # <<>> /\ outcome = "running" /\ Top \in Frames
      /\ Top.src \in Old /\ Top.dst \in New
  <2>1. stack # <<>> /\ outcome = "running"
    BY DEF MatchSubblocks, Running
  <2> QED BY <2>1, TopLast DEF Frames
<1>2. Src.subs \in Seq(Old) /\ Dst.subs \in Seq(New)
  BY <1>1, InputsWhole DEF MergeInv, HeapOk, Src, Dst, Object
<1>3. Dst.subs \in Seq(D) /\ \A k \in 1..Len(Src.subs) : Src.subs[k] \in S
  BY <1>2 DEF Elements
<1>4. \A s : Match(s) \in New \cup {Null} /\ Match(s) \in D \cup {Null}
  <2> HIDE DEF D
  <2> QED BY <1>2, <1>3, MatchIn
<1>5. pairs \in Seq(Pairs)
  BY <1>2, <1>4 DEF Pairs
<1>6. \A p \in Elements(pairs) : p[1] \in S /\ p[2] \in D \cup {Null}
  <2>1. Len(pairs) = Len(Src.subs)
    BY <1>2
  <2>2. \A k \in 1..Len(pairs) : pairs[k][1] \in S /\ pairs[k][2] \in D \cup {Null}
    BY <1>3, <1>4, <2>1
  <2> HIDE DEF pairs, S, D
  <2> QED BY <2>2 DEF Elements
<1> HIDE DEF pairs
<1>7. /\ f \in Frames /\ f.src = Top.src /\ f.dst = Top.dst /\ f.d = Top.d /\ f.subs = pairs
  BY <1>1, <1>5, SameCall
<1> HIDE DEF f
<1>8. CallKinded(f, heap)
  <2>1. CallKinded(Top, heap)
    BY <1>1, StackElements DEF Kinded
  <2> QED BY <1>6, <1>7, <2>1 DEF CallKinded, Src, Dst
<1>9. \/ Crash("NULL argument") \/ Abort("oom")
      \/ /\ stack' = Append(Below, f)
         /\ UNCHANGED <<heap, zap, broken, given, root, next, outcome, clash>>
  BY Zenon DEF MatchSubblocks, f, pairs
<1> QED BY <1>1, <1>7, <1>8, <1>9, StopKinded, TopKinded

\* The subblock to do next is of the blocks of the call, and so is what remains.
LEMMA DueKinded ==
  ASSUME NEW f \in Frames, NEW h, CallKinded(f, h), f.subs \in Seq(Pairs), f.subs # Null
  PROVE  LET g == [f EXCEPT !.subs = RemoveAt(f.subs, Due(f.subs))] IN
           /\ g \in Frames /\ CallKinded(g, h)
           /\ f.subs # <<>> => /\ f.subs[Due(f.subs)] \in Elements(f.subs)
                               /\ f.subs[Due(f.subs)] \in Pairs
<1> DEFINE p == f.subs
           q == RemoveAt(p, Due(p))
           g == [f EXCEPT !.subs = q]
           E == Elements(p)
<1>1. p \in Seq(E)
  BY DEF Elements
<1>2. /\ q \in Seq(E) /\ q \in Seq(Pairs)
      /\ p # <<>> => p[Due(p)] \in E /\ p[Due(p)] \in Pairs
  <2> HIDE DEF E, p
  <2> QED BY <1>1, DueFacts DEF p
<1>3. /\ g \in Frames /\ g.src = f.src /\ g.dst = f.dst /\ g.d = f.d /\ g.subs = q
  BY <1>2, SameCall
<1>4. \A x \in Elements(q) : x \in E
  <2>1. \A S : \A s \in Seq(S) : \A x \in Elements(s) : x \in S
    BY DEF Elements
  <2> HIDE DEF E, q
  <2> QED BY <1>2, <2>1
<1> HIDE DEF g, q
<1>5. CallKinded(g, h)
  BY <1>3, <1>4 DEF CallKinded
<1> QED BY <1>2, <1>3, <1>5 DEF g, q

LEMMA MergeSubblockKinded == ASSUME MergeInv, Owning, Kinded, MergeSubblock PROVE Kinded'
<1> DEFINE p == Top.subs
           g == [Top EXCEPT !.subs = RemoveAt(p, Due(p))]
           s == p[Due(p)][1]
           m == p[Due(p)][2]
           f == Call(FALSE, s, m)
           t == Append(Below, g)
<1>1. /\ stack # <<>> /\ outcome = "running" /\ p # Null /\ p # <<>>
      /\ given \in Forests /\ HeapOk(heap)
  BY DEF MergeSubblock, Running, MergeInv
<1>2. /\ Top \in Frames /\ Below \in Seq(Frames) /\ Elements(stack) = Elements(Below) \cup {Top}
      /\ CallKinded(Top, heap) /\ p \in Seq(Pairs) /\ Top.src \in Old /\ Top.dst \in New
  BY <1>1, TopLast, StackElements DEF Frames, Kinded
<1>3. g \in Frames /\ CallKinded(g, heap) /\ p[Due(p)] \in Elements(p) /\ p[Due(p)] \in Pairs
  BY <1>1, <1>2, DueKinded
<1>4. s \in Old /\ m \in New \cup {Null}
  BY <1>3 DEF Pairs
<1>5. s \in Elements(heap[Top.src].subs) /\ m \in Elements(heap[Top.dst].subs) \cup {Null}
  BY <1>1, <1>2, <1>3 DEF CallKinded
<1> HIDE DEF p, g, s, m
<1>6. heap[s].kind = "block"
  <2>1. s \in Elements(given.heap[Top.src].subs)
    BY <1>1, <1>2, <1>5 DEF HeapOk
  <2>2. Top.src \in Addr
    BY <1>2 DEF Old
  <2>3. given.heap[s].kind = "block"
    BY <1>1, <2>1, <2>2, InputsKinds
  <2> QED BY <1>1, <1>4, <2>3 DEF HeapOk
<1>7. CASE m = Null
  <2>1. BeginCopy(s)
    BY <1>7 DEF MergeSubblock, p, s, m
  <2>2. next <= Len(Inputs)
    BY <1>1 DEF Kinded
  <2> QED BY <1>1, <1>4, <1>6, <2>1, <2>2, BeginCopyKinded
<1>8. CASE m # Null
  <2>1. stack' = Append(t, f) /\ UNCHANGED <<heap, zap, broken, given, root, next, outcome, clash>>
    BY <1>8 DEF MergeSubblock, p, g, s, m
  <2>2. heap[m].kind = "block"
    BY <1>1, <1>2, <1>5, <1>8 DEF Kinded, ListsBlocks
  <2>3. f \in Frames /\ CallKinded(f, heap)
    BY <1>1, <1>4, <1>6, <1>8, <2>2, CallBegins
  <2>4. \A e \in Elements(Below) : CallKinded(e, heap)
    BY <1>2 DEF Kinded
  <2>5. t \in Seq(Frames) /\ \A e \in Elements(t) : CallKinded(e, heap)
    BY <1>1, <1>2, <1>3, <2>4, CallsStay, HeapGrows
  <2> HIDE DEF t, f
  <2>6. \A e \in Elements(stack') : CallKinded(e, heap)
    BY <1>1, <2>1, <2>3, <2>5, CallsStay, HeapGrows
  <2>7. \A e \in Elements(stack') : CallKinded(e, heap')
    BY <2>1, <2>6
  <2>8. next' <= Len(Inputs)
    BY <1>1, <2>1 DEF Kinded
  <2> QED BY <1>1, <2>1, <2>7, <2>8, KindedStep DEF Kinded
<1> QED BY <1>7, <1>8

LEMMA ReturnKinded == ASSUME MergeInv, Owning, Kinded, Return PROVE Kinded'
<1>1. stack # <<>> /\ outcome = "running" /\ HeapOk(heap)
  BY DEF Return, Running, MergeInv
<1>2. /\ Top \in Frames /\ Below \in Seq(Frames) /\ Below \in Seq(Callers) /\ Top.dst \in New
      /\ Elements(stack) = Elements(Below) \cup {Top} /\ CallKinded(Top, heap)
      /\ Below = <<>> => (Top.copy <=> root = Null)
  BY <1>1, TopLast, StackFacts, StackElements, TopFacts DEF MergeInv, Kinded
<1>3. \A e \in Elements(Below) : CallKinded(e, heap)
  BY <1>2 DEF Kinded
<1>4. CASE ~Top.copy \/ Below = <<>>
  <2>1. /\ stack' = Below /\ root' = IF Top.copy THEN Top.dst ELSE root
        /\ next' = IF Below = <<>> THEN next + 1 ELSE next
        /\ UNCHANGED <<heap, zap, broken, given, outcome, clash>>
    BY <1>4 DEF Return
  <2>2. \A e \in Elements(stack') : CallKinded(e, heap')
    BY <1>3, <2>1
  <2>3. root' # Null => heap'[root'].kind = "block"
    BY <1>2, <2>1 DEF Kinded, CallKinded
  <2>4. next \in Nat \ {0} /\ next <= Len(Inputs) /\ Len(Inputs) \in Nat
    <3>1. Inputs \in Seq(Old)
      BY InputsWhole DEF MergeInv
    <3>2. \A S : \A s \in Seq(S) : Len(s) \in Nat
      OBVIOUS
    <3> QED BY <1>1, <3>1, <3>2 DEF MergeInv, Kinded
  <2>5. next' <= Len(Inputs) + 1 /\ (stack' # <<>> => next' <= Len(Inputs))
    BY <2>1, <2>4
  <2>6. root' = Null => next' = 1
    <3>1. CASE Below = <<>>
      <4>1. root' # Null
        BY <1>2, <2>1, <3>1, HeldLive DEF New
      <4> QED BY <4>1
    <3>2. CASE Below # <<>>
      <4>1. ~Top.copy
        BY <1>4, <3>2
      <4> QED BY <1>1, <2>1, <3>2, <4>1 DEF Kinded
    <3> QED BY <3>1, <3>2
  <2> QED BY <1>1, <2>1, <2>2, <2>3, <2>5, <2>6, KindedStep DEF Kinded
<1>5. CASE ~(~Top.copy \/ Below = <<>>)
  <2> DEFINE caller == Below[Len(Below)]
             rest   == SubSeq(Below, 1, Len(Below) - 1)
             g      == [caller EXCEPT !.subs = RemoveAt(caller.subs, Due(caller.subs))]
  <2>1. PICK o : \/ /\ o = "ok"
                    /\ heap' = WithSubblock(heap, caller.dst, Top.dst)
                    /\ stack' = Append(rest, g)
                    /\ UNCHANGED <<zap, broken, given, root, next, outcome, clash>>
                 \/ Fails(o)
    BY <1>5 DEF Return
  <2>2. CASE Fails(o)
    BY <1>1, <2>2, StopKinded
  <2>3. CASE ~Fails(o)
    <3>1. /\ caller \in Frames /\ caller \in Callers /\ rest \in Seq(Frames)
          /\ Below = Append(rest, caller)
      <4>1. \A S : \A x \in Seq(S) : x # <<>> =>
              /\ x[Len(x)] \in S /\ SubSeq(x, 1, Len(x) - 1) \in Seq(S)
              /\ x = Append(SubSeq(x, 1, Len(x) - 1), x[Len(x)])
        OBVIOUS
      <4> QED BY <1>2, <1>5, <4>1, Zenon
    <3>2. /\ heap' = WithSubblock(heap, caller.dst, Top.dst) /\ stack' = Append(rest, g)
          /\ UNCHANGED <<zap, broken, given, root, next, outcome, clash>>
      BY <2>1, <2>3
    <3> HIDE DEF caller, rest
    <3>3. caller.subs \in Seq(Pairs) /\ caller.dst \in New
      BY <3>1 DEF Callers
    <3>4. caller.subs # Null
      <4>1. Null \notin Seq(Pairs)
        <5>1. \A S, T : S \subseteq T => \A q \in Seq(S) : q \in Seq(T)
          OBVIOUS
        <5>2. Pairs \subseteq Addr \X (Addr \cup {Null})
          BY DEF Pairs, Old, New
        <5> QED BY <5>1, <5>2, PairsAssumption, Zenon
      <4> QED BY <3>3, <4>1
    <3>5. CallKinded(caller, heap) /\ \A e \in Elements(rest) : CallKinded(e, heap)
      <4>1. Elements(Append(rest, caller)) = Elements(rest) \cup {caller}
        BY <3>1, AppendFacts
      <4>2. \A e \in Elements(rest) \cup {caller} : CallKinded(e, heap)
        BY <1>3, <3>1, <4>1
      <4> QED BY <4>2
    <3>6. g \in Frames /\ CallKinded(g, heap)
      BY <3>1, <3>3, <3>4, <3>5, DueKinded
    <3> HIDE DEF g
    <3>7. /\ heap[Top.dst].kind = "block" /\ ListsBlocks(heap)
          /\ \A x \in Addr : heap[x].kind \in {"none", "block", "directive"}
      BY <1>1, <1>2 DEF CallKinded, Kinded
    <3>8. /\ \A x \in Addr : heap'[x].kind \in {"none", "block", "directive"}
          /\ ListsBlocks(heap') /\ Grows(heap, heap') /\ HeapOk(heap')
      <4> DEFINE h == WithSubblock(heap, caller.dst, Top.dst)
      <4>1. HeapOk(h)
        BY <1>1, <1>2, <3>3, ListOk
      <4>2. h = WithSubblock(heap, caller.dst, Top.dst) /\ heap' = h
        BY <3>2
      <4> HIDE DEF h
      <4>3. /\ \A x \in Addr : h[x].kind \in {"none", "block", "directive"}
            /\ ListsBlocks(h) /\ Grows(heap, h)
        BY <1>1, <1>2, <3>3, <3>7, <4>2, ListKinded
      <4> QED BY <4>1, <4>2, <4>3
    <3>9. CallKinded(g, heap')
      <4>1. \A a \in Old : heap'[a] = heap[a]
        BY <1>1, <3>8 DEF HeapOk
      <4> QED BY <3>6, <3>8, <4>1, CallStays
    <3>10. \A e \in Elements(stack') : CallKinded(e, heap')
      BY <3>1, <3>2, <3>5, <3>6, <3>8, <3>9, CallsStay
    <3>11. root' # Null => heap'[root'].kind = "block"
      <4>1. root # Null => root \in LiveOf(heap)
        BY HeldLive
      <4> QED BY <3>2, <3>8, <4>1 DEF Grows, Kinded
    <3>12. next' <= Len(Inputs) /\ UNCHANGED <<broken, given, root, next, outcome>>
      BY <1>1, <3>2 DEF Kinded
    <3> QED BY <1>1, <3>8, <3>10, <3>11, <3>12, KindedStep DEF Kinded
  <2> QED BY <2>2, <2>3
<1> QED BY <1>4, <1>5

LEMMA FreeKinded == ASSUME MergeInv, Owning, Kinded, Free PROVE Kinded'
<1>1. PICK a \in zap : /\ heap' = [heap EXCEPT ![a] = NoObject]
                       /\ broken' = IF a \in Live THEN broken ELSE "double free"
                       /\ UNCHANGED <<given, root, next, stack, outcome>>
  BY DEF Free, FreeStep
<1>2. outcome # "running" /\ root = Null /\ stack = <<>> /\ heap = [x \in Addr |-> heap[x]]
  BY <1>1 DEF Owning, MergeInv, HeapOk
<1>3. \A x \in Addr : heap'[x].kind \in {"none", "block", "directive"}
  <2>1. NoObject.kind = "none"
    BY DEF NoObject
  <2>2. \A x \in Addr : heap'[x] = heap[x] \/ heap'[x] = NoObject
    BY <1>1, <1>2
  <2> QED BY <2>1, <2>2 DEF Kinded
<1>4. \A e \in Elements(stack') : CallKinded(e, heap')
  BY <1>1, <1>2, EmptyLists
<1> QED BY <1>1, <1>2, <1>3, <1>4, KindedStep DEF Kinded

\* With ownership, it holds in every state.
LEMMA KindedAlways == Spec => [](MergeInv /\ Owning /\ Kinded)
<1>1. Init => Kinded
  <2> SUFFICES ASSUME Init PROVE Kinded
    OBVIOUS
  <2>1. /\ given \in Forests /\ heap = given.heap /\ broken = "no" /\ outcome = "running"
        /\ root = Null /\ stack = <<>> /\ next = 1
    BY DEF Init
  <2>2. ListsBlocks(heap)
    BY <2>1, InputsKinds DEF ListsBlocks, New
  <2>3. Elements(stack) = {}
    BY <2>1, EmptyLists
  <2>4. next <= Len(Inputs) + 1
    <3>1. Inputs \in Seq(Old)
      BY <2>1, InputsWhole
    <3>2. \A S : \A s \in Seq(S) : Len(s) \in Nat
      OBVIOUS
    <3>3. Len(Inputs) \in Nat
      BY <3>1, <3>2
    <3> QED BY <2>1, <3>3
  <2>5. \A a \in Addr : heap[a].kind \in {"none", "block", "directive"}
    BY <2>1, InputsKinds
  <2> QED BY <2>1, <2>2, <2>3, <2>4, <2>5 DEF Kinded
<1>2. MergeInv /\ Owning /\ Kinded /\ [Next]_vars => Kinded'
  <2> SUFFICES ASSUME MergeInv, Owning, Kinded, [Next]_vars PROVE Kinded'
    OBVIOUS
  <2>1. CASE UNCHANGED vars
    <3>1. UNCHANGED <<heap, broken, given, root, next, stack, outcome>>
      BY <2>1 DEF vars
    <3> QED BY <3>1, KindedStep DEF Kinded
  <2> QED BY <2>1, NextInputKinded, MergeDirectiveKinded, MatchSubblocksKinded,
             MergeSubblockKinded, ReturnKinded, FreeKinded DEF Next
<1> QED BY <1>1, <1>2, OwningAlways, PTL DEF Spec

LEMMA KindedTypes == MergeInv /\ Owning /\ Kinded => TypeOK
<1> SUFFICES ASSUME MergeInv, Owning, Kinded PROVE TypeOK
  OBVIOUS
<1>1. Old \subseteq Addr /\ New \subseteq Addr /\ Old \cap New = {} /\ given \in Forests
      /\ HeapOk(heap)
  BY DEF Old, New, MergeInv
<1>2. ASSUME NEW a \in Addr
      PROVE  heap[a].kind \in {"none", "block", "directive"} /\ Elements(Kids(heap[a])) \subseteq Addr
  <2>1. PICK S \in {Old, New} : heap[a].dirs \in Seq(S) /\ heap[a].subs \in Seq(S)
    <3>1. CASE a \in Old
      BY <1>1, <3>1, InputsWhole DEF HeapOk
    <3>2. CASE a \notin Old
      BY <1>1, <3>2 DEF HeapOk, Object, New
    <3> QED BY <3>1, <3>2
  <2>2. Kids(heap[a]) \in Seq(S)
    BY <2>1, ConcatFacts DEF Kids
  <2>3. Elements(Kids(heap[a])) \subseteq S
    <3>1. \A T : \A s \in Seq(T) : Elements(s) \subseteq T
      BY DEF Elements
    <3> QED BY <2>2, <3>1, Zenon
  <2> QED BY <1>1, <2>3 DEF Kinded
<1>3. root \in Live \cup {Null}
  BY HeldLive DEF Live, LiveOf
<1>4. next \in 1..(Len(Inputs) + 1)
  <2>1. Inputs \in Seq(Old)
    BY <1>1, InputsWhole
  <2>2. \A S : \A s \in Seq(S) : Len(s) \in Nat
    OBVIOUS
  <2> DEFINE n == Len(Inputs)
  <2>3. n \in Nat /\ next \in Nat \ {0} /\ next <= n + 1
    BY <2>1, <2>2 DEF Kinded, MergeInv
  <2> HIDE DEF n
  <2>4. next \in 1..(n + 1)
    BY <2>3
  <2> QED BY <2>4 DEF n
<1>5. ASSUME NEW f \in Elements(stack)
      PROVE  /\ heap[f.src].kind = "block" /\ heap[f.dst].kind = "block" /\ f.src # f.dst
             /\ f.d <= Len(heap[f.src].dirs) /\ f.copy \in BOOLEAN
             /\ f.subs # Null => {p[1] : p \in Elements(f.subs)} \subseteq Elements(heap[f.src].subs)
             /\ f.subs # Null => {p[2] : p \in Elements(f.subs)} \subseteq
                                    Elements(heap[f.dst].subs) \cup {Null}
  <2>1. f \in Frames
    BY DEF MergeInv, StackOk, Elements
  <2>2. CallKinded(f, heap)
    BY DEF Kinded
  <2>3. f.src # f.dst /\ f.copy \in BOOLEAN
    BY <1>1, <2>1 DEF Frames
  <2> QED BY <2>2, <2>3 DEF CallKinded
<1>6. zap \subseteq Addr
  BY <1>1 DEF MergeInv
<1>7. /\ broken \in {"no", "double free", "NULL list", "NULL argument"}
      /\ outcome \in {"running", "ok", "duplicate", "oom"}
  BY DEF Kinded
<1> QED BY <1>2, <1>3, <1>4, <1>5, <1>6, <1>7 DEF TypeOK

\* For any inputs the variables of the merge keep their types: a call is between
\* two blocks, it never reads past a list, and the subblocks and matches it has
\* found are still in the lists they were found in (merge_into).
THEOREM TypeCorrect == Spec => []TypeOK
BY KindedAlways, KindedTypes, PTL
-----------------------------------------------------------------------------
\* The recursion that Levels is defined by has a solution.
LEMMA LevelsExist ==
  ASSUME NEW h, NEW r
  PROVE  /\ Levels(h, r)[0] = {<<<<>>, r>>}
         /\ \A n \in Nat : Levels(h, r)[n + 1] = Deeper(h, Levels(h, r)[n])
<1> DEFINE E == {<<<<>>, r>>}
           Upto(n, g) == g = [i \in 0..n |-> IF i = 0 THEN E ELSE Deeper(h, g[i - 1])]
           P == {n \in Nat : \E g : Upto(n, g)}
<1> HIDE DEF E
<1>1. \A n \in Nat : \E g : Upto(n, g)
  <2>1. 0 \in P
    <3>1. Upto(0, [i \in 0..0 |-> E])
      OBVIOUS
    <3> QED BY <3>1
  <2>2. ASSUME NEW n \in Nat, n \in P PROVE n + 1 \in P
    <3>1. PICK g : Upto(n, g)
      BY <2>2
    <3> DEFINE k == [i \in 0..(n + 1) |-> IF i = n + 1 THEN Deeper(h, g[n]) ELSE g[i]]
    <3>2. \A i \in 0..n : g[i] = IF i = 0 THEN E ELSE Deeper(h, g[i - 1])
      BY <3>1
    <3>3. ASSUME NEW i \in 0..(n + 1)
          PROVE  k[i] = IF i = 0 THEN E ELSE Deeper(h, k[i - 1])
      <4>1. CASE i = n + 1
        <5>1. k[i] = Deeper(h, g[n]) /\ k[i - 1] = g[n] /\ i # 0
          BY <4>1
        <5> QED BY <5>1
      <4>2. CASE i \in 0..n
        <5>1. k[i] = g[i] /\ (i # 0 => k[i - 1] = g[i - 1])
          BY <4>2
        <5> QED BY <3>2, <4>2, <5>1
      <4> QED BY <4>1, <4>2
    <3>4. k = [i \in 0..(n + 1) |-> k[i]]
      OBVIOUS
    <3> HIDE DEF k
    <3>5. k = [i \in 0..(n + 1) |-> IF i = 0 THEN E ELSE Deeper(h, k[i - 1])]
      BY <3>3, <3>4
    <3>6. Upto(n + 1, k)
      BY <3>5
    <3> QED BY <3>6
  <2> HIDE DEF P
  <2>3. Nat \subseteq P
    BY <2>1, <2>2, NatSetInduction
  <2> QED BY <2>3 DEF P
<1>2. ASSUME NEW n \in Nat, NEW g, Upto(n, g), NEW k, Upto(n + 1, k), NEW i \in 0..n
      PROVE  g[i] = k[i]
  <2> DEFINE S == {j \in Nat : j \in 0..n => g[j] = k[j]}
  <2>1. /\ \A j \in 0..n : g[j] = IF j = 0 THEN E ELSE Deeper(h, g[j - 1])
        /\ \A j \in 0..(n + 1) : k[j] = IF j = 0 THEN E ELSE Deeper(h, k[j - 1])
    BY <1>2
  <2>2. 0 \in S
    BY <2>1
  <2>3. ASSUME NEW j \in Nat, j \in S PROVE j + 1 \in S
    <3>1. SUFFICES ASSUME j + 1 \in 0..n PROVE g[j + 1] = k[j + 1]
      OBVIOUS
    <3>2. j \in 0..n /\ j + 1 \in 0..(n + 1) /\ (j + 1) - 1 = j /\ j + 1 # 0
      BY <3>1
    <3>3. g[j + 1] = Deeper(h, g[j]) /\ k[j + 1] = Deeper(h, k[j])
      BY <2>1, <3>1, <3>2
    <3> QED BY <2>3, <3>2, <3>3
  <2> HIDE DEF S
  <2>4. Nat \subseteq S
    BY <2>2, <2>3, NatSetInduction
  <2> QED BY <2>4 DEF S
<1> DEFINE G(n) == CHOOSE g : Upto(n, g)
           f == [n \in Nat |-> G(n)[n]]
<1>3. \A n \in Nat : Upto(n, G(n))
  BY <1>1
<1>4. ASSUME NEW n \in Nat PROVE f[n] = IF n = 0 THEN E ELSE Deeper(h, f[n - 1])
  <2>1. G(n)[n] = IF n = 0 THEN E ELSE Deeper(h, G(n)[n - 1])
    <3> DEFINE g == G(n)
    <3>1. Upto(n, g)
      BY <1>3
    <3> HIDE DEF g
    <3>2. g[n] = IF n = 0 THEN E ELSE Deeper(h, g[n - 1])
      BY <3>1
    <3> QED BY <3>2 DEF g
  <2>2. ASSUME n # 0 PROVE G(n)[n - 1] = f[n - 1]
    <3>1. n - 1 \in Nat /\ (n - 1) + 1 = n /\ n - 1 \in 0..(n - 1)
      BY <2>2
    <3>2. Upto(n - 1, G(n - 1)) /\ Upto((n - 1) + 1, G(n))
      BY <1>3, <3>1
    <3> HIDE DEF Upto, G
    <3>3. G(n - 1)[n - 1] = G(n)[n - 1]
      BY <1>2, <3>1, <3>2
    <3> QED BY <3>1, <3>3
  <2> HIDE DEF G
  <2>3. f[n] = G(n)[n]
    OBVIOUS
  <2> HIDE DEF f
  <2> QED BY <2>1, <2>2, <2>3
<1>5. f = [n \in Nat |-> f[n]]
  OBVIOUS
<1> HIDE DEF f
<1>6. f = [n \in Nat |-> IF n = 0 THEN E ELSE Deeper(h, f[n - 1])]
  BY <1>4, <1>5
<1> DEFINE L == Levels(h, r)
<1>7. L = [n \in Nat |-> IF n = 0 THEN E ELSE Deeper(h, L[n - 1])]
  BY <1>6 DEF Levels, E
<1> HIDE DEF L
<1>8. L[0] = E
  BY <1>7
<1>9. ASSUME NEW n \in Nat PROVE L[n + 1] = Deeper(h, L[n])
  <2>1. n + 1 \in Nat /\ n + 1 # 0 /\ (n + 1) - 1 = n
    OBVIOUS
  <2> QED BY <1>7, <2>1
<1> QED BY <1>8, <1>9 DEF L, E

\* The blocks one list further down.
LEMMA DeeperFacts ==
  ASSUME NEW h, NEW E, NEW x
  PROVE  x \in Deeper(h, E) <=>
           \E e \in E : \E s \in Elements(h[e[2]].subs) : x = <<Append(e[1], Header(h, s)), s>>
<1> DEFINE F(e) == {<<Append(e[1], Header(h, s)), s>> : s \in Elements(h[e[2]].subs)}
<1>1. \A e : x \in F(e) <=> \E s \in Elements(h[e[2]].subs) : x = <<Append(e[1], Header(h, s)), s>>
  OBVIOUS
<1>2. Deeper(h, E) = UNION {F(e) : e \in E}
  BY DEF Deeper
<1> HIDE DEF F
<1>3. x \in UNION {F(e) : e \in E} <=> \E e \in E : x \in F(e)
  OBVIOUS
<1> QED BY <1>1, <1>2, <1>3

\* The inputs' names and arguments, and where their blocks stand.
Headers      == {Header(given.heap, a) : a \in Old}
AtPath(p, s) == \E r \in Elements(Inputs) : \E n \in Nat : <<p, s>> \in Levels(given.heap, r)[n]

LEMMA LevelsTyped ==
  ASSUME given \in Forests, NEW r \in Elements(Inputs), NEW n \in Nat,
         NEW e \in Levels(given.heap, r)[n]
  PROVE  /\ e = <<e[1], e[2]>> /\ e[1] \in Seq(Headers) /\ Len(e[1]) = n /\ e[2] \in Old
<1> DEFINE h == given.heap
           Right(x, m) == /\ x = <<x[1], x[2]>> /\ x[1] \in Seq(Headers) /\ Len(x[1]) = m
                          /\ x[2] \in Old
           P == {m \in Nat : \A x \in Levels(h, r)[m] : Right(x, m)}
<1>1. 0 \in P
  <2>1. Levels(h, r)[0] = {<<<<>>, r>>}
    BY LevelsExist
  <2>2. r \in Old
    BY InputsWhole DEF Elements
  <2>3. Right(<<<<>>, r>>, 0)
    BY <2>2
  <2> HIDE DEF Right
  <2> QED BY <2>1, <2>3
<1>2. ASSUME NEW m \in Nat, m \in P PROVE m + 1 \in P
  <2>1. ASSUME NEW x \in Levels(h, r)[m + 1] PROVE Right(x, m + 1)
    <3>1. x \in Deeper(h, Levels(h, r)[m])
      BY <2>1, LevelsExist
    <3>2. PICK y \in Levels(h, r)[m] : \E s \in Elements(h[y[2]].subs) :
            x = <<Append(y[1], Header(h, s)), s>>
      BY <3>1, DeeperFacts
    <3>3. PICK s \in Elements(h[y[2]].subs) : x = <<Append(y[1], Header(h, s)), s>>
      BY <3>2
    <3>4. y[1] \in Seq(Headers) /\ Len(y[1]) = m /\ y[2] \in Old
      BY <1>2, <3>2
    <3>5. s \in Old
      <4>1. h[y[2]].subs \in Seq(Old)
        BY <3>4, InputsWhole
      <4> HIDE DEF h
      <4> QED BY <4>1 DEF Elements
    <3>6. Header(h, s) \in Headers
      BY <3>5 DEF Headers
    <3>7. Append(y[1], Header(h, s)) \in Seq(Headers) /\ Len(Append(y[1], Header(h, s))) = m + 1
      BY <3>4, <3>6
    <3> QED BY <3>3, <3>5, <3>7
  <2> HIDE DEF Right
  <2> QED BY <2>1
<1> HIDE DEF P
<1>3. Nat \subseteq P
  BY <1>1, <1>2, NatSetInduction
<1>4. Right(e, n)
  <2> HIDE DEF Right
  <2> QED BY <1>3 DEF P
<1> QED BY <1>4

LEMMA AtTyped ==
  ASSUME given \in Forests, NEW p, NEW s, AtPath(p, s)
  PROVE  /\ p \in Seq(Headers) /\ s \in Old
         /\ \E r \in Elements(Inputs) : <<p, s>> \in Levels(given.heap, r)[Len(p)]
<1>1. PICK r \in Elements(Inputs) : \E n \in Nat : <<p, s>> \in Levels(given.heap, r)[n]
  BY DEF AtPath
<1>2. PICK n \in Nat : <<p, s>> \in Levels(given.heap, r)[n]
  BY <1>1
<1> DEFINE e == <<p, s>>
<1>3. e[1] \in Seq(Headers) /\ Len(e[1]) = n /\ e[2] \in Old
  <2> HIDE DEF e
  <2>1. e \in Levels(given.heap, r)[n]
    BY <1>2 DEF e
  <2> QED BY <1>1, <1>2, <2>1, LevelsTyped
<1>4. e[1] = p /\ e[2] = s
  OBVIOUS
<1> QED BY <1>2, <1>3, <1>4

LEMMA AtRoot ==
  ASSUME NEW r \in Elements(Inputs)
  PROVE  AtPath(<<>>, r)
<1>1. <<<<>>, r>> \in Levels(given.heap, r)[0]
  BY LevelsExist
<1> QED BY <1>1 DEF AtPath

LEMMA AtBelow ==
  ASSUME NEW p, NEW s, AtPath(p, s), NEW t \in Elements(given.heap[s].subs)
  PROVE  AtPath(Append(p, Header(given.heap, t)), t)
<1> DEFINE e == <<p, s>>
           x == <<Append(e[1], Header(given.heap, t)), t>>
<1>1. PICK r \in Elements(Inputs) : \E n \in Nat : <<p, s>> \in Levels(given.heap, r)[n]
  BY DEF AtPath
<1>2. PICK n \in Nat : e \in Levels(given.heap, r)[n]
  BY <1>1
<1>3. t \in Elements(given.heap[e[2]].subs)
  OBVIOUS
<1>4. x \in Deeper(given.heap, Levels(given.heap, r)[n])
  BY <1>2, <1>3, DeeperFacts
<1>6. x = <<Append(p, Header(given.heap, t)), t>>
  OBVIOUS
<1> HIDE DEF x
<1>5. x \in Levels(given.heap, r)[n + 1] /\ n + 1 \in Nat
  BY <1>4, LevelsExist
<1> QED BY <1>5, <1>6 DEF AtPath
-----------------------------------------------------------------------------
\* The blocks copied so far, and what the directives of a block say.
CopiedBlocks(h) == {b \in New : h[b].kind = "block"}
Entries(h, b)   == {Header(h, d) : d \in Elements(h[b].dirs)}

\* Each copied block has a path, the one of the block that lists it and its header.
Shaped(h, w) ==
  /\ w \in [New -> Seq(Headers)]
  /\ \A b \in New :
       /\ \A d \in Elements(h[b].dirs) : h[d].kind = "directive"
       /\ \A t \in Elements(h[b].subs) :
            h[b].kind = "block" /\ h[t].kind = "block" /\ w[t] = Append(w[b], Header(h, t))

\* The first m directives of the copied block b are, in their order, those of s.
Begun(h, b, s, m) ==
  /\ m <= Len(h[b].dirs)
  /\ \A j \in 1..m : /\ j <= Len(given.heap[s].dirs)
                     /\ Header(h, h[b].dirs[j]) = Header(given.heap, given.heap[s].dirs[j])

\* After its first m, no directive of b has the name of one before it.
NewNames(h, b, m) ==
  \A j, k \in 1..Len(h[b].dirs) : j < k /\ m < k => h[h[b].dirs[j]].name # h[h[b].dirs[k]].name

\* It began as the copy of one block, and was given new names only.
Grown(h, b, p) == \E s : \E m \in Nat : AtPath(p, s) /\ Begun(h, b, s, m) /\ NewNames(h, b, m)

\* At its path stand blocks of the inputs, and its directives are theirs.
Stems(h, b, p) ==
  /\ \E s : AtPath(p, s)
  /\ \A d \in Elements(h[b].dirs) : \E s : AtPath(p, s) /\ Header(h, d) \in Entries(given.heap, s)
  /\ Grown(h, b, p)

\* That depends on the list of the block and what is on it.
LEMMA StemsKept ==
  ASSUME NEW h, NEW g, NEW b, NEW p, Stems(h, b, p), g[b].dirs = h[b].dirs,
         \A d \in Elements(h[b].dirs) : Header(g, d) = Header(h, d) /\ g[d].name = h[d].name
  PROVE  Stems(g, b, p)
<1> DEFINE ds == h[b].dirs
<1>1. \A j \in 1..Len(ds) : Header(g, ds[j]) = Header(h, ds[j]) /\ g[ds[j]].name = h[ds[j]].name
  BY DEF Elements
<1>2. PICK s : \E m \in Nat : AtPath(p, s) /\ Begun(h, b, s, m) /\ NewNames(h, b, m)
  BY DEF Stems, Grown
<1>3. PICK m \in Nat : AtPath(p, s) /\ Begun(h, b, s, m) /\ NewNames(h, b, m)
  BY <1>2
<1>4. Begun(g, b, s, m)
  <2>1. \A j \in 1..m : j \in 1..Len(ds)
    BY <1>3 DEF Begun
  <2> QED BY <1>1, <1>3, <2>1 DEF Begun
<1>5. NewNames(g, b, m)
  BY <1>1, <1>3 DEF NewNames
<1>6. Grown(g, b, p)
  BY <1>3, <1>4, <1>5 DEF Grown
<1> QED BY <1>6 DEF Stems

\* The next directive of the block copied is added.
LEMMA BegunGrows ==
  ASSUME NEW h, NEW g, NEW b, NEW a, NEW s, NEW S, h[b].dirs \in Seq(S),
         g[b].dirs = Append(h[b].dirs, a),
         \A d \in Elements(h[b].dirs) : Header(g, d) = Header(h, d),
         Begun(h, b, s, Len(h[b].dirs)), Len(h[b].dirs) + 1 <= Len(given.heap[s].dirs),
         Header(g, a) = Header(given.heap, given.heap[s].dirs[Len(h[b].dirs) + 1])
  PROVE  Begun(g, b, s, Len(h[b].dirs) + 1) /\ Len(g[b].dirs) = Len(h[b].dirs) + 1
<1> DEFINE ds == h[b].dirs
           es == g[b].dirs
           n  == Len(ds)
<1>1. n \in Nat /\ Len(es) = n + 1 /\ es[n + 1] = a /\ \A j \in 1..n : es[j] = ds[j]
  OBVIOUS
<1>2. \A j \in 1..n : Header(g, ds[j]) = Header(h, ds[j])
  BY DEF Elements
<1>3. /\ Begun(h, b, s, n) /\ n + 1 <= Len(given.heap[s].dirs)
      /\ Header(g, a) = Header(given.heap, given.heap[s].dirs[n + 1])
  OBVIOUS
<1> HIDE DEF n, es
<1>4. ASSUME NEW j \in 1..(n + 1)
      PROVE  /\ j <= Len(given.heap[s].dirs)
             /\ Header(g, es[j]) = Header(given.heap, given.heap[s].dirs[j])
  <2>1. CASE j = n + 1
    BY <1>1, <1>3, <2>1
  <2>2. CASE j # n + 1
    <3>1. j \in 1..n BY <1>1, <2>2
    <3>2. /\ j <= Len(given.heap[s].dirs)
          /\ Header(h, ds[j]) = Header(given.heap, given.heap[s].dirs[j])
      BY <1>3, <3>1 DEF Begun
    <3> QED BY <1>1, <1>2, <3>1, <3>2
  <2> QED BY <2>1, <2>2
<1>5. n + 1 <= Len(es)
  BY <1>1
<1>6. Begun(g, b, s, n + 1)
  BY <1>4, <1>5 DEF Begun, es
<1> QED BY <1>1, <1>6 DEF n, es

\* A directive is added that is the next of the block copied, or has a new name.
LEMMA StemsGrow ==
  ASSUME NEW h, NEW g, NEW b, NEW p, NEW a, NEW s, NEW S, h[b].dirs \in Seq(S),
         Stems(h, b, p), AtPath(p, s), Header(g, a) \in Entries(given.heap, s),
         g[b].dirs = Append(h[b].dirs, a),
         \A d \in Elements(h[b].dirs) : Header(g, d) = Header(h, d) /\ g[d].name = h[d].name,
         \/ \A d \in Elements(h[b].dirs) : g[d].name # g[a].name
         \/ /\ Begun(h, b, s, Len(h[b].dirs))
            /\ Len(h[b].dirs) + 1 <= Len(given.heap[s].dirs)
            /\ Header(g, a) = Header(given.heap, given.heap[s].dirs[Len(h[b].dirs) + 1])
  PROVE  Stems(g, b, p)
<1> DEFINE ds == h[b].dirs
           es == g[b].dirs
           n  == Len(ds)
<1>1. n \in Nat /\ Len(es) = n + 1 /\ es[n + 1] = a /\ \A j \in 1..n : es[j] = ds[j]
  OBVIOUS
<1>2. \A j \in 1..n : Header(g, ds[j]) = Header(h, ds[j]) /\ g[ds[j]].name = h[ds[j]].name
  BY DEF Elements
<1>3. Elements(es) = Elements(ds) \cup {a}
  BY AppendFacts
<1>4. \A d \in Elements(es) : \E z : AtPath(p, z) /\ Header(g, d) \in Entries(given.heap, z)
  BY <1>3 DEF Stems
<1>5. Grown(g, b, p)
  <2> HIDE DEF n, es
  <2>1. CASE \A d \in Elements(ds) : g[d].name # g[a].name
    <3>1. PICK z : \E m \in Nat : AtPath(p, z) /\ Begun(h, b, z, m) /\ NewNames(h, b, m)
      BY DEF Stems, Grown
    <3>2. PICK m \in Nat : AtPath(p, z) /\ Begun(h, b, z, m) /\ NewNames(h, b, m)
      BY <3>1
    <3>3. m <= n
      BY <3>2 DEF Begun, n
    <3>4. Begun(g, b, z, m)
      <4>1. \A j \in 1..m : j \in 1..n BY <1>1, <3>3
      <4>2. m <= Len(es) BY <1>1, <3>3
      <4> QED BY <1>1, <1>2, <3>2, <3>3, <4>1, <4>2 DEF Begun, es
    <3>5. NewNames(g, b, m)
      <4> SUFFICES ASSUME NEW j \in 1..Len(es), NEW k \in 1..Len(es), j < k, m < k
                   PROVE  g[es[j]].name # g[es[k]].name
        BY DEF NewNames, es
      <4>1. CASE k = n + 1
        <5>1. j \in 1..n BY <1>1, <4>1
        <5>2. ds[j] \in Elements(ds) BY <5>1 DEF Elements, n
        <5> QED BY <1>1, <2>1, <4>1, <5>1, <5>2
      <4>2. CASE k # n + 1
        <5>1. j \in 1..n /\ k \in 1..n BY <1>1, <4>2
        <5>2. h[ds[j]].name # h[ds[k]].name BY <3>2, <5>1 DEF NewNames, n
        <5> QED BY <1>1, <1>2, <5>1, <5>2
      <4> QED BY <4>1, <4>2
    <3> QED BY <3>2, <3>4, <3>5 DEF Grown
  <2>2. CASE /\ Begun(h, b, s, n)
             /\ n + 1 <= Len(given.heap[s].dirs)
             /\ Header(g, a) = Header(given.heap, given.heap[s].dirs[n + 1])
    <3>1. n + 1 \in Nat
      BY <1>1
    <3>2. Begun(h, b, s, Len(ds)) /\ Len(ds) + 1 <= Len(given.heap[s].dirs)
          /\ Header(g, a) = Header(given.heap, given.heap[s].dirs[Len(ds) + 1])
      BY <2>2 DEF n
    <3>3. Begun(g, b, s, n + 1)
      <4>1. Begun(g, b, s, Len(ds) + 1)
        BY <3>2, BegunGrows
      <4> QED BY <4>1 DEF n
    <3>4. NewNames(g, b, n + 1)
      BY <1>1 DEF NewNames, es
    <3> QED BY <3>1, <3>3, <3>4 DEF Grown
  <2> QED BY <2>1, <2>2 DEF n
<1> QED BY <1>4, <1>5 DEF Stems

\* At p there is a copied block, there is one with the entry x.
Stands(h, w, p)   == \E b \in CopiedBlocks(h) : w[b] = p
Holds(h, w, p, x) == \E b \in CopiedBlocks(h) : w[b] = p /\ x \in Entries(h, b)

\* The blocks of the inputs, with their paths, that are taken over with all that
\* is below them.
Taken(h, w, D) ==
  \A e \in D : /\ Stands(h, w, e[1])
               /\ \A x \in Entries(given.heap, e[2]) : Holds(h, w, e[1], x)
               /\ \A t \in Elements(given.heap[e[2]].subs) :
                    <<Append(e[1], Header(given.heap, t)), t>> \in D

\* A call that copies has written the first n directives.
InStep(h, f, n) == f.copy => Len(h[f.dst].dirs) = n /\ Begun(h, f.dst, f.src, n)

\* How far a call is: of the block it reads the directives up to d are in the one it
\* writes to, and so is each subblock that is neither to be done nor in inner, the
\* one that is being done.
Doing(f, h, w, D, inner) ==
  /\ AtPath(w[f.dst], f.src)
  /\ \A j \in 1..f.d : Header(given.heap, given.heap[f.src].dirs[j]) \in Entries(h, f.dst)
  /\ f.subs = Null => InStep(h, f, f.d)
  /\ f.subs # Null => f.d = Len(given.heap[f.src].dirs)
  /\ f.subs # Null =>
       /\ \A t \in Elements(given.heap[f.src].subs) \ inner :
            \/ \E p \in Elements(f.subs) : p[1] = t
            \/ <<Append(w[f.dst], Header(given.heap, t)), t>> \in D
       /\ \A p \in Elements(f.subs) : p[2] # Null => Header(h, p[2]) = Header(given.heap, p[1])

\* The call f waits for g.
Within(f, g, h, w) ==
  /\ f.subs # Null /\ g.src \in Elements(given.heap[f.src].subs)
  /\ w[g.dst] = Append(w[f.dst], Header(given.heap, g.src))
  /\ Header(h, g.dst) = Header(given.heap, g.src)
  /\ g.copy => f.subs # <<>> /\ f.subs[Due(f.subs)][1] = g.src

\* The calls s, begun with input i.
CallsDone(s, i, h, w, D, inner) ==
  /\ s # <<>> => w[s[1].dst] = <<>> /\ s[1].src = Inputs[i]
  /\ \A k \in 1..Len(s) : Doing(s[k], h, w, D, IF k = Len(s) THEN inner ELSE {s[k + 1].src})
  /\ \A k \in 1..(Len(s) - 1) : Within(s[k], s[k + 1], h, w)

LEMMA CallsSplit ==
  ASSUME NEW S, NEW s \in Seq(S), NEW f, NEW i, NEW h, NEW w, NEW D, NEW inner
  PROVE  CallsDone(Append(s, f), i, h, w, D, inner) <=>
           /\ CallsDone(s, i, h, w, D, {f.src}) /\ Doing(f, h, w, D, inner)
           /\ s = <<>> => w[f.dst] = <<>> /\ f.src = Inputs[i]
           /\ s # <<>> => Within(s[Len(s)], f, h, w)
<1> DEFINE n == Len(s)
           t == Append(s, f)
           In(k) == IF k = n + 1 THEN inner ELSE {t[k + 1].src}
           Is(k) == IF k = n THEN {f.src} ELSE {s[k + 1].src}
<1>1. /\ n \in Nat /\ Len(t) = n + 1 /\ t[n + 1] = f /\ \A k \in 1..n : t[k] = s[k]
      /\ t # <<>> /\ (s = <<>> <=> n = 0)
  OBVIOUS
<1> HIDE DEF n, t
<1>2. \A k \in 1..n : In(k) = Is(k) /\ t[k] = s[k]
  <2> TAKE k \in 1..n
  <2>1. CASE k = n
    BY <1>1, <2>1
  <2>2. CASE k # n
    <3>1. k + 1 \in 1..n /\ k # n + 1
      BY <1>1, <2>2
    <3> QED BY <1>1, <2>2, <3>1
  <2> QED BY <2>1, <2>2
<1>3. In(n + 1) = inner
  OBVIOUS
<1> HIDE DEF In, Is
<1>4. (\A k \in 1..(n + 1) : Doing(t[k], h, w, D, In(k))) <=>
        (\A k \in 1..n : Doing(s[k], h, w, D, Is(k))) /\ Doing(f, h, w, D, inner)
  <2>1. 1..(n + 1) = (1..n) \cup {n + 1}
    BY <1>1
  <2> QED BY <1>1, <1>2, <1>3, <2>1
<1>5. (\A k \in 1..n : Within(t[k], t[k + 1], h, w)) <=>
        /\ \A k \in 1..(n - 1) : Within(s[k], s[k + 1], h, w)
        /\ n # 0 => Within(s[n], f, h, w)
  <2>1. CASE n = 0
    BY <2>1
  <2>2. CASE n # 0
    <3>1. 1..n = (1..(n - 1)) \cup {n} /\ n \in 1..n /\ \A k \in 1..(n - 1) : k \in 1..n /\ k + 1 \in 1..n
      BY <1>1, <2>2
    <3> QED BY <1>1, <2>2, <3>1
  <2> QED BY <2>1, <2>2
<1>6. (w[t[1].dst] = <<>> /\ t[1].src = Inputs[i]) <=>
        IF n = 0 THEN w[f.dst] = <<>> /\ f.src = Inputs[i] ELSE w[s[1].dst] = <<>> /\ s[1].src = Inputs[i]
  <2>1. n # 0 => 1 \in 1..n
    BY <1>1
  <2> QED BY <1>1, <2>1
<1>7. (n + 1) - 1 = n
  BY <1>1
<1>8. CallsDone(t, i, h, w, D, inner) <=>
        /\ w[t[1].dst] = <<>> /\ t[1].src = Inputs[i]
        /\ \A k \in 1..(n + 1) : Doing(t[k], h, w, D, In(k))
        /\ \A k \in 1..n : Within(t[k], t[k + 1], h, w)
  BY <1>1, <1>7 DEF CallsDone, In
<1>9. CallsDone(s, i, h, w, D, {f.src}) <=>
        /\ n # 0 => w[s[1].dst] = <<>> /\ s[1].src = Inputs[i]
        /\ \A k \in 1..n : Doing(s[k], h, w, D, Is(k))
        /\ \A k \in 1..(n - 1) : Within(s[k], s[k + 1], h, w)
  BY <1>1 DEF CallsDone, Is, n
<1>10. n = Len(s) /\ t = Append(s, f)
  BY DEF n, t
<1> QED BY <1>1, <1>4, <1>5, <1>6, <1>8, <1>9, <1>10
-----------------------------------------------------------------------------
\* Nothing that a step needs of the copies on h is lost on g.
Extends(h, g) ==
  \A a \in New : h[a].kind # "none" =>
    /\ g[a].kind = h[a].kind /\ Header(g, a) = Header(h, a)
    /\ Elements(h[a].dirs) \subseteq Elements(g[a].dirs)

\* Nor are the paths of the blocks.
Agree(h, w, v) == \A b \in CopiedBlocks(h) : v[b] = w[b]

LEMMA EntriesFacts ==
  ASSUME NEW h, NEW b, NEW x
  PROVE  x \in Entries(h, b) <=> \E d \in Elements(h[b].dirs) : x = Header(h, d)
BY Zenon DEF Entries

LEMMA EntriesGrow ==
  ASSUME NEW h, HeapOk(h), NEW w, Shaped(h, w), NEW g, Extends(h, g), NEW b \in CopiedBlocks(h)
  PROVE  b \in CopiedBlocks(g) /\ Entries(h, b) \subseteq Entries(g, b)
<1>1. b \in New /\ h[b].kind = "block"
  BY DEF CopiedBlocks
<1>2. \A d \in Elements(h[b].dirs) : d \in New /\ h[d].kind = "directive"
  <2>1. h[b].dirs \in Seq(New)
    BY <1>1 DEF HeapOk, Object
  <2> QED BY <1>1, <2>1 DEF Shaped, Elements
<1>3. b \in CopiedBlocks(g) /\ Elements(h[b].dirs) \subseteq Elements(g[b].dirs)
  BY <1>1 DEF Extends, CopiedBlocks
<1>4. \A d \in Elements(h[b].dirs) : Header(g, d) = Header(h, d)
  BY <1>2 DEF Extends
<1> QED BY <1>3, <1>4 DEF Entries

LEMMA TakenGrows ==
  ASSUME NEW h, HeapOk(h), NEW w, Shaped(h, w), NEW g, Extends(h, g), NEW v, Agree(h, w, v),
         NEW D, Taken(h, w, D)
  PROVE  Taken(g, v, D)
<1>1. \A b \in CopiedBlocks(h) : /\ b \in CopiedBlocks(g) /\ Entries(h, b) \subseteq Entries(g, b)
                                 /\ v[b] = w[b]
  BY EntriesGrow DEF Agree
<1>2. \A p : Stands(h, w, p) => Stands(g, v, p)
  BY <1>1 DEF Stands
<1>3. \A p, x : Holds(h, w, p, x) => Holds(g, v, p, x)
  BY <1>1 DEF Holds
<1> QED BY <1>2, <1>3 DEF Taken

\* A call that waits does not lose anything either.
LEMMA DoingGrows ==
  ASSUME NEW h, HeapOk(h), NEW w, Shaped(h, w), NEW g, Extends(h, g), NEW v, Agree(h, w, v),
         NEW D, NEW E, D \subseteq E, NEW f \in Callers, CallKinded(f, h), ListsBlocks(h),
         NEW inner, Doing(f, h, w, D, inner), Null \notin Seq(Pairs)
  PROVE  Doing(f, g, v, E, inner)
<1>1. f.subs # Null /\ f.subs \in Seq(Pairs) /\ f.dst \in New
  BY DEF Callers
<1>2. f.dst \in CopiedBlocks(h)
  BY <1>1 DEF CallKinded, CopiedBlocks
<1>3. v[f.dst] = w[f.dst] /\ Entries(h, f.dst) \subseteq Entries(g, f.dst)
  BY <1>2, EntriesGrow DEF Agree
<1>4. ASSUME NEW p \in Elements(f.subs), p[2] # Null PROVE Header(g, p[2]) = Header(h, p[2])
  <2>1. p[2] \in Elements(h[f.dst].subs)
    BY <1>1, <1>4 DEF CallKinded
  <2>2. p[2] \in New /\ h[p[2]].kind = "block"
    <3>1. h[f.dst].subs \in Seq(New)
      BY <1>1 DEF HeapOk, Object
    <3> QED BY <1>1, <2>1, <3>1 DEF ListsBlocks, Elements
  <2> QED BY <2>2 DEF Extends
<1> QED BY <1>1, <1>3, <1>4 DEF Doing

LEMMA CallsGrow ==
  ASSUME NEW h, HeapOk(h), NEW w, Shaped(h, w), NEW g, Extends(h, g), NEW v, Agree(h, w, v),
         NEW D, NEW E, D \subseteq E, NEW s \in Seq(Callers),
         \A f \in Elements(s) : CallKinded(f, h), ListsBlocks(h),
         NEW i, NEW inner, CallsDone(s, i, h, w, D, inner), Null \notin Seq(Pairs)
  PROVE  CallsDone(s, i, g, v, E, inner)
<1>1. \A k \in 1..Len(s) : /\ s[k] \in Callers /\ CallKinded(s[k], h) /\ s[k].dst \in CopiedBlocks(h)
                           /\ v[s[k].dst] = w[s[k].dst] /\ Header(g, s[k].dst) = Header(h, s[k].dst)
  <2> TAKE k \in 1..Len(s)
  <2>1. s[k] \in Callers /\ CallKinded(s[k], h)
    BY DEF Elements
  <2>2. s[k].dst \in CopiedBlocks(h)
    BY <2>1 DEF CallKinded, CopiedBlocks, Callers
  <2> QED BY <2>1, <2>2 DEF Agree, Extends, CopiedBlocks
<1>2. Len(s) \in Nat /\ (s # <<>> => 1 \in 1..Len(s))
  OBVIOUS
<1>3. \A k \in 1..(Len(s) - 1) : k \in 1..Len(s) /\ k + 1 \in 1..Len(s)
  BY <1>2
<1>4. \A k \in 1..Len(s) : Doing(s[k], g, v, E, IF k = Len(s) THEN inner ELSE {s[k + 1].src})
  <2> TAKE k \in 1..Len(s)
  <2> DEFINE J == IF k = Len(s) THEN inner ELSE {s[k + 1].src}
  <2>1. Doing(s[k], h, w, D, J)
    BY DEF CallsDone
  <2> HIDE DEF J
  <2>2. Doing(s[k], g, v, E, J)
    BY <1>1, <2>1, DoingGrows
  <2> QED BY <2>2 DEF J
<1>5. \A k \in 1..(Len(s) - 1) : Within(s[k], s[k + 1], g, v)
  BY <1>1, <1>3 DEF CallsDone, Within
<1>6. s # <<>> => v[s[1].dst] = <<>> /\ s[1].src = Inputs[i]
  BY <1>1, <1>2 DEF CallsDone
<1> QED BY <1>4, <1>5, <1>6 DEF CallsDone
-----------------------------------------------------------------------------
LEMMA NullNoPairs == Null \notin Seq(Pairs)
<1>1. \A S, T : S \subseteq T => \A q \in Seq(S) : q \in Seq(T)
  OBVIOUS
<1>2. Pairs \subseteq Addr \X (Addr \cup {Null})
  BY DEF Pairs, Old, New
<1> QED BY <1>1, <1>2, PairsAssumption, Zenon

\* What listing an object writes.
LEMMA ListFields ==
  ASSUME NEW h, HeapOk(h), NEW b \in New, NEW x, NEW g
  PROVE  /\ g = WithDirective(h, b, x) =>
              /\ \A y \in Addr \ {b} : g[y] = h[y]
              /\ g[b].kind = h[b].kind /\ Header(g, b) = Header(h, b)
              /\ g[b].dirs = Append(h[b].dirs, x) /\ g[b].subs = h[b].subs
         /\ g = WithSubblock(h, b, x) =>
              /\ \A y \in Addr \ {b} : g[y] = h[y]
              /\ g[b].kind = h[b].kind /\ Header(g, b) = Header(h, b)
              /\ g[b].dirs = h[b].dirs /\ g[b].subs = Append(h[b].subs, x)
<1>1. b \in Addr /\ h = [y \in Addr |-> h[y]] /\ Object(h[b], New)
  BY DEF New, HeapOk
<1>2. PICK k, n, r, d, s : h[b] = [kind |-> k, name |-> n, args |-> r, dirs |-> d, subs |-> s]
  BY <1>1, Zenon DEF Object
<1>3. CASE g = WithDirective(h, b, x)
  <2>1. g = [h EXCEPT ![b] = [h[b] EXCEPT !.dirs = Append(h[b].dirs, x)]]
    BY <1>3 DEF WithDirective
  <2>2. /\ \A y \in Addr \ {b} : g[y] = h[y]
        /\ g[b].kind = h[b].kind /\ g[b].name = h[b].name /\ g[b].args = h[b].args
        /\ g[b].dirs = Append(h[b].dirs, x) /\ g[b].subs = h[b].subs
    BY <1>1, <1>2, <2>1
  <2>3. Append(h[b].dirs, x) # h[b].dirs
    <3>1. h[b].dirs \in Seq(New)
      BY <1>1 DEF Object
    <3> QED BY <3>1
  <2>4. g # WithSubblock(h, b, x)
    <3>1. [h EXCEPT ![b] = [h[b] EXCEPT !.subs = Append(h[b].subs, x)]][b].dirs = h[b].dirs
      BY <1>1, <1>2
    <3> QED BY <2>2, <2>3, <3>1 DEF WithSubblock
  <2> QED BY <1>3, <2>2, <2>4 DEF Header
<1>4. CASE g = WithSubblock(h, b, x)
  <2>1. g = [h EXCEPT ![b] = [h[b] EXCEPT !.subs = Append(h[b].subs, x)]]
    BY <1>4 DEF WithSubblock
  <2>2. /\ \A y \in Addr \ {b} : g[y] = h[y]
        /\ g[b].kind = h[b].kind /\ g[b].name = h[b].name /\ g[b].args = h[b].args
        /\ g[b].subs = Append(h[b].subs, x) /\ g[b].dirs = h[b].dirs
    BY <1>1, <1>2, <2>1
  <2>3. Append(h[b].subs, x) # h[b].subs
    <3>1. h[b].subs \in Seq(New)
      BY <1>1 DEF Object
    <3> QED BY <3>1
  <2>4. g # WithDirective(h, b, x)
    <3>1. [h EXCEPT ![b] = [h[b] EXCEPT !.dirs = Append(h[b].dirs, x)]][b].subs = h[b].subs
      BY <1>1, <1>2
    <3> QED BY <2>2, <2>3, <3>1 DEF WithDirective
  <2> QED BY <1>4, <2>2, <2>4 DEF Header
<1> QED BY <1>3, <1>4

\* What the copies list is of the copies.
LEMMA CopiesList ==
  ASSUME NEW h, HeapOk(h), NEW w, Shaped(h, w), NEW b \in New
  PROVE  /\ \A d \in Elements(h[b].dirs) : d \in New /\ h[d].kind = "directive"
         /\ \A t \in Elements(h[b].subs) : t \in New /\ h[t].kind = "block" /\ h[b].kind = "block"
<1>1. h[b].dirs \in Seq(New) /\ h[b].subs \in Seq(New)
  BY DEF HeapOk, Object
<1>2. \A S : \A s \in Seq(S) : Elements(s) \subseteq S
  BY DEF Elements
<1> QED BY <1>1, <1>2 DEF Shaped

\* The blocks copied so far are the inputs'.
Sourced(h, w) == \A b \in CopiedBlocks(h) : Stems(h, b, w[b])

\* f with x at a.
Put(f, a, x) == [f EXCEPT ![a] = x]

\* A block is made, for a path where there is one in the inputs.
LEMMA BlockMade ==
  ASSUME NEW h, HeapOk(h), NEW w, Shaped(h, w), Sourced(h, w),
         NEW a \in New, h[a].kind = "none", NEW o, o.kind = "block", o.dirs = <<>>, o.subs = <<>>,
         NEW p \in Seq(Headers), NEW s, AtPath(p, s), NEW g, g = Put(h, a, o),
         NEW v, v = Put(w, a, p)
  PROVE  /\ Shaped(g, v) /\ Sourced(g, v) /\ Extends(h, g) /\ Agree(h, w, v)
         /\ v[a] = p /\ g[a] = o /\ a \in CopiedBlocks(g) /\ Entries(g, a) = {}
<1>1. a \in Addr /\ h = [x \in Addr |-> h[x]] /\ w \in [New -> Seq(Headers)]
  BY DEF New, HeapOk, Shaped
<1>2. g[a] = o /\ \A x \in Addr \ {a} : g[x] = h[x]
  BY <1>1 DEF Put
<1>3. v \in [New -> Seq(Headers)] /\ v[a] = p /\ \A x \in New \ {a} : v[x] = w[x]
  BY <1>1 DEF Put
<1>4. New \subseteq Addr
  BY DEF New
<1>5. \A x \in Addr \ {a} : Header(g, x) = Header(h, x)
  BY <1>2 DEF Header
<1>6. Extends(h, g) /\ Agree(h, w, v)
  BY <1>2, <1>3, <1>4, <1>5 DEF Extends, Agree, CopiedBlocks
<1>7. Elements(o.dirs) = {} /\ Elements(o.subs) = {}
  BY EmptyLists
<1>8. ASSUME NEW b \in New, b # a
      PROVE  /\ g[b] = h[b] /\ v[b] = w[b]
             /\ \A d \in Elements(h[b].dirs) : d # a /\ g[d] = h[d] /\ Header(g, d) = Header(h, d)
             /\ \A t \in Elements(h[b].subs) : /\ t # a /\ g[t] = h[t] /\ v[t] = w[t]
                                               /\ Header(g, t) = Header(h, t)
  <2>1. /\ \A d \in Elements(h[b].dirs) : d \in New /\ h[d].kind = "directive"
        /\ \A t \in Elements(h[b].subs) : t \in New /\ h[t].kind = "block"
    BY CopiesList
  <2>2. /\ \A d \in Elements(h[b].dirs) : d \in Addr \ {a}
        /\ \A t \in Elements(h[b].subs) : t \in Addr \ {a} /\ t \in New \ {a}
    BY <1>4, <2>1
  <2> QED BY <1>2, <1>3, <1>4, <1>5, <1>8, <2>2
<1>9. Shaped(g, v)
  <2>1. ASSUME NEW b \in New
        PROVE  /\ \A d \in Elements(g[b].dirs) : g[d].kind = "directive"
               /\ \A t \in Elements(g[b].subs) :
                    g[b].kind = "block" /\ g[t].kind = "block" /\ v[t] = Append(v[b], Header(g, t))
    <3>1. CASE b = a
      BY <1>2, <1>7, <3>1
    <3>2. CASE b # a
      <4>1. /\ \A d \in Elements(h[b].dirs) : h[d].kind = "directive"
            /\ \A t \in Elements(h[b].subs) :
                 h[b].kind = "block" /\ h[t].kind = "block" /\ w[t] = Append(w[b], Header(h, t))
        BY DEF Shaped
      <4>2. /\ g[b] = h[b] /\ v[b] = w[b]
            /\ \A d \in Elements(h[b].dirs) : g[d] = h[d]
            /\ \A t \in Elements(h[b].subs) : g[t] = h[t] /\ v[t] = w[t] /\ Header(g, t) = Header(h, t)
        BY <1>8, <3>2
      <4> QED BY <4>1, <4>2
    <3> QED BY <3>1, <3>2
  <2> QED BY <1>3, <2>1 DEF Shaped
<1>10. Sourced(g, v)
  <2>1. ASSUME NEW b \in CopiedBlocks(g) PROVE Stems(g, b, v[b])
    <3>1. CASE b = a
      <4>1. p = v[b] /\ Elements(g[b].dirs) = {} /\ Len(g[b].dirs) = 0
        BY <1>2, <1>3, <1>7, <3>1
      <4>2. Begun(g, b, s, 0) /\ NewNames(g, b, 0)
        BY <4>1 DEF Begun, NewNames
      <4>3. Grown(g, b, v[b])
        BY <4>1, <4>2 DEF Grown
      <4> QED BY <4>1, <4>3 DEF Stems
    <3>2. CASE b # a
      <4>1. b \in New /\ b \in CopiedBlocks(h)
        BY <1>2, <1>4, <2>1, <3>2 DEF CopiedBlocks
      <4>2. Stems(h, b, w[b])
        BY <4>1 DEF Sourced
      <4>3. /\ g[b] = h[b] /\ v[b] = w[b]
            /\ \A d \in Elements(h[b].dirs) : g[d] = h[d] /\ Header(g, d) = Header(h, d)
        BY <1>8, <3>2, <4>1
      <4> QED BY <4>2, <4>3, StemsKept
    <3> QED BY <3>1, <3>2
  <2> QED BY <2>1 DEF Sourced
<1> QED BY <1>2, <1>3, <1>6, <1>7, <1>9, <1>10 DEF CopiedBlocks, Entries

\* What may be added to b is the next directive of s, which b copies, or has a new name.
Follows(h, b, s, o) ==
  \/ \A d \in Elements(h[b].dirs) : h[d].name # o.name
  \/ /\ Begun(h, b, s, Len(h[b].dirs))
     /\ Len(h[b].dirs) + 1 <= Len(given.heap[s].dirs)
     /\ <<o.name, o.args>> = Header(given.heap, given.heap[s].dirs[Len(h[b].dirs) + 1])

\* Such a directive is made and added.
LEMMA DirectiveMade ==
  ASSUME NEW h, HeapOk(h), NEW w, Shaped(h, w), Sourced(h, w), NEW b \in CopiedBlocks(h),
         NEW a \in New, h[a].kind = "none", NEW o, o.kind = "directive", o.dirs = <<>>, o.subs = <<>>,
         Object(o, New), NEW g, g = WithDirective(Put(h, a, o), b, a),
         NEW x, x = <<o.name, o.args>>, NEW s, AtPath(w[b], s), x \in Entries(given.heap, s),
         Follows(h, b, s, o)
  PROVE  /\ Shaped(g, w) /\ Sourced(g, w) /\ Extends(h, g)
         /\ b \in CopiedBlocks(g) /\ Entries(g, b) = Entries(h, b) \cup {x}
         /\ g[b].dirs = Append(h[b].dirs, a) /\ h[b].dirs \in Seq(New) /\ Header(g, a) = x
         /\ \A d \in Elements(h[b].dirs) : Header(g, d) = Header(h, d)
<1> DEFINE k == Put(h, a, o)
<1>1. a \in Addr /\ h = [y \in Addr |-> h[y]] /\ w \in [New -> Seq(Headers)] /\ New \subseteq Addr
      /\ b \in New /\ b # a
  BY DEF New, HeapOk, Shaped, CopiedBlocks
<1>2. k[a] = o /\ (\A y \in Addr \ {a} : k[y] = h[y]) /\ HeapOk(k)
  BY <1>1, StoreOk DEF Put
<1>3. g = WithDirective(k, b, a)
  OBVIOUS
<1> HIDE DEF k
<1>4. /\ \A y \in Addr \ {b} : g[y] = k[y]
      /\ g[b].kind = k[b].kind /\ Header(g, b) = Header(k, b)
      /\ g[b].dirs = Append(k[b].dirs, a) /\ g[b].subs = k[b].subs
  <2>1. b \in New /\ HeapOk(k)
    BY <1>1, <1>2
  <2>2. \A z : z = WithDirective(k, b, a) =>
          /\ \A y \in Addr \ {b} : z[y] = k[y]
          /\ z[b].kind = k[b].kind /\ Header(z, b) = Header(k, b)
          /\ z[b].dirs = Append(k[b].dirs, a) /\ z[b].subs = k[b].subs
    <3> HIDE DEF New
    <3> QED BY ONLY <2>1, ListFields
  <2> QED BY <1>3, <2>2
<1>5. /\ g[a] = o /\ \A y \in Addr \ {a, b} : g[y] = h[y]
      /\ g[b].kind = h[b].kind /\ g[b].dirs = Append(h[b].dirs, a) /\ g[b].subs = h[b].subs
      /\ Header(g, a) = x /\ \A y \in Addr \ {a} : Header(g, y) = Header(h, y)
  BY <1>1, <1>2, <1>4 DEF Header
<1>6. /\ Elements(Append(h[b].dirs, a)) = Elements(h[b].dirs) \cup {a}
      /\ \A d \in Elements(h[b].dirs) : d \in New \ {a, b} /\ h[d].kind = "directive"
  <2>1. h[b].dirs \in Seq(New) /\ h[b].kind = "block"
    BY <1>1 DEF HeapOk, Object, CopiedBlocks
  <2>2. \A d \in Elements(h[b].dirs) : d \in New /\ h[d].kind = "directive"
    BY <1>1, CopiesList
  <2>3. Elements(Append(h[b].dirs, a)) = Elements(h[b].dirs) \cup {a}
    BY <2>1, AppendFacts
  <2> QED BY <1>1, <2>1, <2>2, <2>3
<1>7. \A c \in New \ {a} : /\ g[c].kind = h[c].kind /\ g[c].subs = h[c].subs
                           /\ Elements(h[c].dirs) \subseteq Elements(g[c].dirs)
                           /\ c # b => g[c] = h[c]
  BY <1>1, <1>5, <1>6
<1>8. Extends(h, g)
  BY <1>1, <1>5, <1>7 DEF Extends
<1>9. Elements(o.dirs) = {} /\ Elements(o.subs) = {}
  BY EmptyLists
<1>10. Shaped(g, w)
  <2>1. ASSUME NEW c \in New
        PROVE  /\ \A d \in Elements(g[c].dirs) : g[d].kind = "directive"
               /\ \A t \in Elements(g[c].subs) :
                    g[c].kind = "block" /\ g[t].kind = "block" /\ w[t] = Append(w[c], Header(g, t))
    <3>1. CASE c = a
      BY <1>5, <1>9, <3>1
    <3>2. CASE c # a
      <4>0. /\ \A d \in Elements(h[c].dirs) : d \in New /\ h[d].kind = "directive"
            /\ \A t \in Elements(h[c].subs) : t \in New /\ h[t].kind = "block"
        BY CopiesList
      <4>1. /\ \A d \in Elements(h[c].dirs) : d \in New \ {a} /\ h[d].kind = "directive"
            /\ \A t \in Elements(h[c].subs) : t \in New \ {a} /\ h[t].kind = "block"
        BY <4>0
      <4>2. \A d \in Elements(g[c].dirs) : d \in Elements(h[c].dirs) \/ d = a
        <5>1. CASE c = b
          BY <1>5, <1>6, <5>1
        <5>2. CASE c # b
          <6>1. g[c] = h[c]
            BY <1>7, <3>2, <5>2
          <6> QED BY <6>1
        <5> QED BY <5>1, <5>2
      <4>3. \A d \in Elements(g[c].dirs) : g[d].kind = "directive"
        <5> TAKE d \in Elements(g[c].dirs)
        <5>1. CASE d = a
          BY <1>5, <5>1
        <5>2. CASE d # a
          <6>1. d \in Elements(h[c].dirs)
            BY <4>2, <5>2
          <6>2. d \in New \ {a} /\ h[d].kind = "directive"
            BY <4>1, <6>1
          <6> QED BY <1>7, <6>2
        <5> QED BY <5>1, <5>2
      <4>4. \A t \in Elements(h[c].subs) :
              h[c].kind = "block" /\ h[t].kind = "block" /\ w[t] = Append(w[c], Header(h, t))
        BY DEF Shaped
      <4>5. g[c].kind = h[c].kind /\ g[c].subs = h[c].subs
        BY <1>7, <3>2
      <4>6. ASSUME NEW t \in Elements(g[c].subs)
            PROVE  g[c].kind = "block" /\ g[t].kind = "block" /\ w[t] = Append(w[c], Header(g, t))
        <5>1. t \in New \ {a} /\ t \in Addr \ {a}
          BY <1>1, <4>1, <4>5
        <5>2. h[c].kind = "block" /\ h[t].kind = "block" /\ w[t] = Append(w[c], Header(h, t))
          BY <4>4, <4>5
        <5>3. g[t].kind = h[t].kind /\ Header(g, t) = Header(h, t)
          BY <1>5, <1>7, <5>1
        <5> QED BY <4>5, <5>2, <5>3
      <4> QED BY <4>3, <4>6
    <3> QED BY <3>1, <3>2
  <2> QED BY <1>1, <2>1 DEF Shaped
<1>11. Sourced(g, w)
  <2>1. ASSUME NEW c \in CopiedBlocks(g) PROVE Stems(g, c, w[c])
    <3>1. c \in New \ {a} /\ c \in CopiedBlocks(h)
      BY <1>5, <1>7, <2>1 DEF CopiedBlocks
    <3>2. Stems(h, c, w[c])
      BY <3>1 DEF Sourced
    <3>3. \A d \in Elements(h[c].dirs) : d \in New \ {a} /\ Header(g, d) = Header(h, d)
      <4>1. \A d \in Elements(h[c].dirs) : d \in New /\ h[d].kind = "directive"
        BY <3>1, CopiesList
      <4> QED BY <1>1, <1>5, <4>1
    <3>4. \A d \in Elements(h[c].dirs) : g[d].name = h[d].name
      <4>1. \A d \in Elements(h[c].dirs) : d \in Addr
        BY <1>1, <3>3
      <4> QED BY <3>3, <4>1 DEF Header
    <3>5. CASE c # b
      <4>1. g[c].dirs = h[c].dirs
        BY <1>7, <3>1, <3>5
      <4> QED BY <3>2, <3>3, <3>4, <4>1, StemsKept
    <3>6. CASE c = b
      <4>1. h[b].dirs \in Seq(New)
        BY <1>1 DEF HeapOk, Object
      <4>2. g[b].dirs = Append(h[b].dirs, a) /\ g[a] = o /\ Header(g, a) = x
        BY <1>5
      <4>3. \/ \A d \in Elements(h[b].dirs) : g[d].name # g[a].name
            \/ /\ Begun(h, b, s, Len(h[b].dirs))
               /\ Len(h[b].dirs) + 1 <= Len(given.heap[s].dirs)
               /\ Header(g, a) = Header(given.heap, given.heap[s].dirs[Len(h[b].dirs) + 1])
        BY <3>4, <3>6, <4>2 DEF Follows
      <4>4. /\ Stems(h, b, w[b]) /\ Header(g, a) \in Entries(given.heap, s)
            /\ \A d \in Elements(h[b].dirs) : Header(g, d) = Header(h, d) /\ g[d].name = h[d].name
        BY <3>2, <3>3, <3>4, <3>6, <4>2
      <4>5. g[b].dirs = Append(h[b].dirs, a)
        BY <4>2
      <4>6. Stems(g, b, w[b])
        BY <4>1, <4>3, <4>4, <4>5, StemsGrow
      <4> QED BY <3>6, <4>6
    <3> QED BY <3>5, <3>6
  <2> QED BY <2>1 DEF Sourced
<1>12. Entries(g, b) = Entries(h, b) \cup {x}
  <2>1. \A d \in Elements(h[b].dirs) : Header(g, d) = Header(h, d)
    <3>1. \A d \in Elements(h[b].dirs) : d \in Addr \ {a}
      BY <1>1, <1>6
    <3> QED BY <1>5, <3>1
  <2>2. Elements(g[b].dirs) = Elements(h[b].dirs) \cup {a} /\ Header(g, a) = x
    BY <1>5, <1>6
  <2>3. ASSUME NEW z PROVE z \in Entries(g, b) <=> z \in Entries(h, b) \cup {x}
    <3>1. z \in Entries(g, b) <=> \E d \in Elements(g[b].dirs) : z = Header(g, d)
      BY ONLY EntriesFacts
    <3>2. z \in Entries(h, b) <=> \E d \in Elements(h[b].dirs) : z = Header(h, d)
      BY ONLY EntriesFacts
    <3>3. (\E d \in Elements(g[b].dirs) : z = Header(g, d)) <=>
            (\E d \in Elements(h[b].dirs) : z = Header(h, d)) \/ z = x
      BY <2>1, <2>2
    <3> QED BY <3>1, <3>2, <3>3
  <2> QED BY <2>3
<1>13. b \in CopiedBlocks(g)
  BY <1>1, <1>7 DEF CopiedBlocks
<1>14. h[b].dirs \in Seq(New) /\ \A d \in Elements(h[b].dirs) : Header(g, d) = Header(h, d)
  <2>1. \A d \in Elements(h[b].dirs) : d \in Addr \ {a}
    BY <1>1, <1>6
  <2> QED BY <1>1, <1>5, <2>1 DEF HeapOk, Object
<1> QED BY <1>5, <1>8, <1>10, <1>11, <1>12, <1>13, <1>14

\* A copied block is listed where its path says.
LEMMA BlockListed ==
  ASSUME NEW h, HeapOk(h), NEW w, Shaped(h, w), Sourced(h, w),
         NEW b \in CopiedBlocks(h), NEW x \in CopiedBlocks(h), w[x] = Append(w[b], Header(h, x)),
         NEW g, g = WithSubblock(h, b, x)
  PROVE  Shaped(g, w) /\ Sourced(g, w) /\ Extends(h, g)
<1>1. b \in New /\ New \subseteq Addr /\ w \in [New -> Seq(Headers)]
      /\ h[b].kind = "block" /\ h[x].kind = "block" /\ x \in New
  BY DEF CopiedBlocks, New, Shaped
<1>2. /\ \A y \in Addr \ {b} : g[y] = h[y]
      /\ g[b].kind = h[b].kind /\ Header(g, b) = Header(h, b)
      /\ g[b].dirs = h[b].dirs /\ g[b].subs = Append(h[b].subs, x)
  BY <1>1, ListFields
<1>3. \A y \in Addr : g[y].kind = h[y].kind /\ g[y].dirs = h[y].dirs /\ Header(g, y) = Header(h, y)
  BY <1>1, <1>2 DEF Header
<1>4. Elements(Append(h[b].subs, x)) = Elements(h[b].subs) \cup {x}
  <2>1. h[b].subs \in Seq(New)
    BY <1>1 DEF HeapOk, Object
  <2> QED BY <2>1, AppendFacts
<1>5. \A c \in New : \A t \in Elements(g[c].subs) : t \in Elements(h[c].subs) \/ (c = b /\ t = x)
  BY <1>1, <1>2, <1>4
<1>6. Extends(h, g)
  BY <1>1, <1>3 DEF Extends
<1>7. Shaped(g, w)
  <2>1. ASSUME NEW c \in New
        PROVE  /\ \A d \in Elements(g[c].dirs) : g[d].kind = "directive"
               /\ \A t \in Elements(g[c].subs) :
                    g[c].kind = "block" /\ g[t].kind = "block" /\ w[t] = Append(w[c], Header(g, t))
    <3>1. /\ \A d \in Elements(h[c].dirs) : d \in Addr /\ h[d].kind = "directive"
          /\ \A t \in Elements(h[c].subs) :
               t \in Addr /\ h[c].kind = "block" /\ h[t].kind = "block" /\ w[t] = Append(w[c], Header(h, t))
      <4>1. /\ \A d \in Elements(h[c].dirs) : d \in New
            /\ \A t \in Elements(h[c].subs) : t \in New
        BY CopiesList
      <4>2. /\ \A d \in Elements(h[c].dirs) : h[d].kind = "directive"
            /\ \A t \in Elements(h[c].subs) :
                 h[c].kind = "block" /\ h[t].kind = "block" /\ w[t] = Append(w[c], Header(h, t))
        BY DEF Shaped
      <4> QED BY <1>1, <4>1, <4>2
    <3>2. \A d \in Elements(g[c].dirs) : g[d].kind = "directive"
      <4>1. c \in Addr
        BY <1>1
      <4> QED BY <1>3, <3>1, <4>1
    <3>3. ASSUME NEW t \in Elements(g[c].subs)
          PROVE  g[c].kind = "block" /\ g[t].kind = "block" /\ w[t] = Append(w[c], Header(g, t))
      <4>1. t \in Addr /\ h[c].kind = "block" /\ h[t].kind = "block" /\ w[t] = Append(w[c], Header(h, t))
        <5>1. CASE t \in Elements(h[c].subs)
          BY <3>1, <5>1
        <5>2. CASE t \notin Elements(h[c].subs)
          BY <1>1, <1>5, <5>2
        <5> QED BY <5>1, <5>2
      <4>2. c \in Addr
        BY <1>1
      <4> QED BY <1>3, <4>1, <4>2
    <3> QED BY <3>2, <3>3
  <2> QED BY <1>1, <2>1 DEF Shaped
<1>8. Sourced(g, w)
  <2>1. ASSUME NEW c \in CopiedBlocks(g) PROVE Stems(g, c, w[c])
    <3>1. c \in New /\ c \in CopiedBlocks(h) /\ g[c].dirs = h[c].dirs
      BY <1>1, <1>3, <2>1 DEF CopiedBlocks
    <3>2. Stems(h, c, w[c])
      BY <3>1 DEF Sourced
    <3>3. \A d \in Elements(h[c].dirs) : d \in Addr
      BY <1>1, <3>1, CopiesList
    <3>4. \A d \in Elements(h[c].dirs) : Header(g, d) = Header(h, d) /\ g[d].name = h[d].name
      BY <1>3, <3>3 DEF Header
    <3> QED BY <3>1, <3>2, <3>4, StemsKept
  <2> QED BY <2>1 DEF Sourced
<1> QED BY <1>6, <1>7, <1>8
-----------------------------------------------------------------------------
\* The merged block r has the inputs before i.
Rooted(h, r, i, w, D) ==
  r # Null => /\ r \in CopiedBlocks(h) /\ w[r] = <<>>
              /\ \A j \in 1..(i - 1) : <<<<>>, Inputs[j]>> \in D

\* What the merge has done so far, with the paths w of the copied blocks and the
\* blocks D taken over: the inputs before next, and next as far as the calls are.
Whole(h, s, r, i, w, D) ==
  /\ Shaped(h, w) /\ Sourced(h, w) /\ Taken(h, w, D) /\ CallsDone(s, i, h, w, D, {})
  /\ Rooted(h, r, i, w, D)

\* At one path the inputs have directives of one name with different arguments.
Disagreement ==
  \E p, s, t : /\ AtPath(p, s) /\ AtPath(p, t)
               /\ \E x \in Entries(given.heap, s), y \in Entries(given.heap, t) :
                    x[1] = y[1] /\ x[2] # y[2]

\* What the properties of the result need to hold after the next step.
Merged ==
  /\ outcome \in {"running", "ok"} => \E w, D : Whole(heap, stack, root, next, w, D)
  /\ outcome = "ok" => root # Null /\ next > Len(Inputs) /\ stack = <<>>
  /\ outcome = "duplicate" => Disagreement

\* What there is to show of a step.
LEMMA MergedStep ==
  ASSUME given' = given,
         outcome' \in {"running", "ok"} =>
           \E w, D : Whole(heap', stack', root', next', w, D),
         outcome' = "ok" => root' # Null /\ next' > Len(Inputs) /\ stack' = <<>>,
         outcome' = "duplicate" => Disagreement
  PROVE  Merged'
<1>1. Inputs' = Inputs /\ New' = New /\ Old' = Old
  BY DEF Inputs, New, Old
<1>2. Headers' = Headers
  BY <1>1 DEF Headers
<1>3. \A p, s : AtPath(p, s)' <=> AtPath(p, s)
  BY <1>1 DEF AtPath
<1>4. \A h, w : Shaped(h, w)' <=> Shaped(h, w)
  BY <1>1, <1>2 DEF Shaped
<1>5. \A h : CopiedBlocks(h)' = CopiedBlocks(h)
  BY <1>1 DEF CopiedBlocks
<1>6. \A h, w : Sourced(h, w)' <=> Sourced(h, w)
  <2>1. \A h, b, s, m : Begun(h, b, s, m)' <=> Begun(h, b, s, m)
    BY DEF Begun
  <2>2. \A h, b, p : Grown(h, b, p)' <=> Grown(h, b, p)
    BY <1>3, <2>1 DEF Grown, NewNames
  <2>3. \A h, b, p : Stems(h, b, p)' <=> Stems(h, b, p)
    BY <1>3, <2>2 DEF Stems
  <2> QED BY <1>5, <2>3 DEF Sourced
<1>7. \A h, w, D : Taken(h, w, D)' <=> Taken(h, w, D)
  BY <1>5 DEF Taken, Stands, Holds
<1>8. \A f, h, n : InStep(h, f, n)' <=> InStep(h, f, n)
  BY DEF InStep, Begun
<1>9. \A f, h, w, D, inner : Doing(f, h, w, D, inner)' <=> Doing(f, h, w, D, inner)
  BY <1>3, <1>8 DEF Doing
<1>10. \A f, g, h, w : Within(f, g, h, w)' <=> Within(f, g, h, w)
  BY DEF Within
<1>11. ASSUME NEW s, NEW i, NEW h, NEW w, NEW D, NEW inner
       PROVE  CallsDone(s, i, h, w, D, inner)' <=> CallsDone(s, i, h, w, D, inner)
  <2>1. \A k \in 1..Len(s) :
          Doing(s[k], h, w, D, IF k = Len(s) THEN inner ELSE {s[k + 1].src})'
            <=> Doing(s[k], h, w, D, IF k = Len(s) THEN inner ELSE {s[k + 1].src})
    BY <1>3, <1>8 DEF Doing
  <2>2. \A k \in 1..(Len(s) - 1) : Within(s[k], s[k + 1], h, w)' <=> Within(s[k], s[k + 1], h, w)
    BY DEF Within
  <2>3. (w[s[1].dst] = <<>> /\ s[1].src = Inputs[i])' <=> (w[s[1].dst] = <<>> /\ s[1].src = Inputs[i])
    BY <1>1
  <2> QED BY <2>1, <2>2, <2>3 DEF CallsDone
<1>12. \A w, D : Whole(heap, stack, root, next, w, D)' <=> Whole(heap', stack', root', next', w, D)
  BY <1>1, <1>4, <1>5, <1>6, <1>7, <1>11 DEF Whole, Rooted
<1>13. Disagreement' <=> Disagreement
  BY <1>3 DEF Disagreement
<1> QED BY <1>1, <1>12, <1>13 DEF Merged

\* The merge is given up.
LEMMA StopMerged ==
  ASSUME Merged, outcome = "running", (\E how : Crash(how)) \/ (\E o : Fails(o)) \/ Abort("oom")
  PROVE  Merged'
<1>1. ASSUME NEW how, Crash(how) PROVE Merged'
  <2>1. UNCHANGED <<heap, given, root, next, stack, outcome>>
    BY <1>1 DEF Crash
  <2> QED BY <2>1, MergedStep DEF Merged
<1>2. ASSUME Abort("oom") PROVE Merged'
  <2>1. given' = given /\ outcome' = "oom"
    BY <1>2 DEF Abort
  <2> QED BY <2>1, MergedStep
<1> QED BY <1>1, <1>2 DEF Fails

\* More may be left out, and more may have been taken over.
LEMMA DoingLess ==
  ASSUME NEW f, NEW h, NEW w, NEW D, NEW E, D \subseteq E, NEW inner, NEW more, inner \subseteq more,
         Doing(f, h, w, D, inner)
  PROVE  Doing(f, h, w, E, more)
BY DEF Doing

LEMMA RootLater ==
  ASSUME NEW h, NEW r, NEW i, NEW w, NEW D, Rooted(h, r, i, w, D), NEW g, Extends(h, g),
         NEW v, Agree(h, w, v), NEW E, D \subseteq E
  PROVE  Rooted(g, r, i, v, E)
<1>1. ASSUME r # Null PROVE r \in CopiedBlocks(g) /\ v[r] = w[r]
  <2>1. r \in CopiedBlocks(h)
    BY <1>1 DEF Rooted
  <2>2. r \in New /\ h[r].kind = "block"
    BY <2>1 DEF CopiedBlocks
  <2>3. g[r].kind = h[r].kind
    BY <2>2 DEF Extends
  <2> QED BY <2>1, <2>2, <2>3 DEF Agree, CopiedBlocks
<1> QED BY <1>1 DEF Rooted

\* The calls below the innermost one, after a step that adds to the heap.
LEMMA BelowLater ==
  ASSUME MergeInv, Kinded, outcome = "running", stack # <<>>, NEW w, NEW D,
         Whole(heap, stack, root, next, w, D), NEW g, Extends(heap, g),
         NEW v, Agree(heap, w, v), NEW E, D \subseteq E
  PROVE  /\ CallsDone(Below, next, g, v, E, {Top.src}) /\ Doing(Top, heap, w, D, {})
         /\ Below = <<>> => w[Top.dst] = <<>> /\ Top.src = Inputs[next]
         /\ Below # <<>> => /\ Within(Below[Len(Below)], Top, heap, w)
                            /\ Within(Below[Len(Below)], Top, g, v)
         /\ v[Top.dst] = w[Top.dst] /\ Top.dst \in CopiedBlocks(heap) /\ Taken(g, v, D)
         /\ HeapOk(heap) /\ Shaped(heap, w) /\ Sourced(heap, w)
<1>1. /\ stack = Append(Below, Top) /\ Below \in Seq(Callers) /\ Top \in Frames
      /\ Top.dst \in New /\ Elements(stack) = Elements(Below) \cup {Top}
  BY StackFacts, TopLast, StackElements DEF MergeInv
<1>2. \A f \in Elements(stack) : CallKinded(f, heap)
  BY DEF Kinded
<1>3. Top.dst \in CopiedBlocks(heap)
  BY <1>1, <1>2 DEF CallKinded, CopiedBlocks
<1>4. /\ CallsDone(Below, next, heap, w, D, {Top.src}) /\ Doing(Top, heap, w, D, {})
      /\ Below = <<>> => w[Top.dst] = <<>> /\ Top.src = Inputs[next]
      /\ Below # <<>> => Within(Below[Len(Below)], Top, heap, w)
  <2>1. CallsDone(Append(Below, Top), next, heap, w, D, {})
    BY <1>1 DEF Whole
  <2> QED BY <1>1, <2>1, CallsSplit
<1>5. HeapOk(heap) /\ Shaped(heap, w) /\ Sourced(heap, w) /\ Taken(heap, w, D) /\ ListsBlocks(heap)
  BY DEF MergeInv, Whole, Kinded
<1>6. \A f \in Elements(Below) : CallKinded(f, heap)
  BY <1>1, <1>2
<1>7. CallsDone(Below, next, g, v, E, {Top.src}) /\ Taken(g, v, D)
  BY <1>1, <1>4, <1>5, <1>6, CallsGrow, TakenGrows, NullNoPairs
<1>8. v[Top.dst] = w[Top.dst] /\ Header(g, Top.dst) = Header(heap, Top.dst)
  BY <1>1, <1>3 DEF Agree, Extends, CopiedBlocks
<1>9. Below # <<>> => Within(Below[Len(Below)], Top, g, v)
  <2>1. SUFFICES ASSUME Below # <<>> PROVE Within(Below[Len(Below)], Top, g, v)
    OBVIOUS
  <2> DEFINE c == Below[Len(Below)]
  <2>2. c \in Elements(Below) /\ c \in Callers
    <3>1. \A S : \A s \in Seq(S) : s # <<>> => s[Len(s)] \in S /\ s[Len(s)] \in Elements(s)
      BY DEF Elements
    <3> QED BY <1>1, <2>1, <3>1, Zenon
  <2>3. Within(c, Top, heap, w)
    BY <1>4, <2>1
  <2> HIDE DEF c
  <2>4. c.dst \in CopiedBlocks(heap)
    BY <1>6, <2>2 DEF CallKinded, CopiedBlocks, Callers
  <2>5. v[c.dst] = w[c.dst]
    BY <2>4 DEF Agree
  <2>6. Within(c, Top, g, v)
    BY <1>8, <2>3, <2>5 DEF Within
  <2> QED BY <2>6 DEF c
<1> QED BY <1>3, <1>4, <1>5, <1>7, <1>8, <1>9

\* The innermost call goes on with the same blocks.
LEMMA TopGoes ==
  ASSUME MergeInv, Kinded, outcome = "running", stack # <<>>, NEW w, NEW D,
         Whole(heap, stack, root, next, w, D), NEW g, Extends(heap, g),
         NEW f, f.src = Top.src, f.dst = Top.dst, f.copy = Top.copy,
         NEW inner, Doing(f, g, w, D, inner)
  PROVE  /\ CallsDone(Append(Below, f), next, g, w, D, inner)
         /\ Taken(g, w, D) /\ Rooted(g, root, next, w, D)
<1>1. Agree(heap, w, w)
  BY DEF Agree
<1>2. /\ CallsDone(Below, next, g, w, D, {Top.src}) /\ Taken(g, w, D)
      /\ Below = <<>> => w[Top.dst] = <<>> /\ Top.src = Inputs[next]
      /\ Below # <<>> => Within(Below[Len(Below)], Top, g, w)
  BY <1>1, BelowLater
<1>3. Below # <<>> => Within(Below[Len(Below)], f, g, w)
  BY <1>2 DEF Within
<1>4. Below \in Seq(Callers)
  BY StackFacts DEF MergeInv
<1>5. CallsDone(Append(Below, f), next, g, w, D, inner)
  BY <1>2, <1>3, <1>4, CallsSplit
<1>6. Rooted(g, root, next, w, D)
  BY <1>1, RootLater DEF Whole
<1> QED BY <1>2, <1>5, <1>6

\* A block is copied for the innermost call, or for config_merge_n.
LEMMA BeginCopyMerged ==
  ASSUME MergeInv, Kinded, Merged, outcome = "running", NEW b \in Old, BeginCopy(b),
         NEW w, NEW D, Whole(heap, stack, root, next, w, D), NEW p, AtPath(p, b),
         stack \in Seq(Callers), stack = <<>> => p = <<>> /\ b = Inputs[next],
         stack # <<>> => /\ p = Append(w[Top.dst], Header(given.heap, b))
                         /\ b \in Elements(given.heap[Top.src].subs)
                         /\ Top.subs \notin {Null, <<>>} /\ Top.subs[Due(Top.subs)][1] = b
  PROVE  Merged'
<1>1. PICK o \in Outcomes(Build(heap[b].args)) :
        \/ /\ o = "ok"
           /\ heap' = [heap EXCEPT ![Malloc] = Block(heap[b].name, heap[b].args)]
           /\ stack' = Append(stack, Call(TRUE, b, Malloc))
           /\ UNCHANGED <<zap, broken, given, root, next, outcome, clash>>
        \/ Fails(o)
  BY DEF BeginCopy
<1>2. CASE Fails(o)
  BY <1>2, StopMerged
<1>3. CASE ~Fails(o)
  <2> DEFINE a == Malloc
             n == Block(heap[b].name, heap[b].args)
             f == Call(TRUE, b, a)
             g == [heap EXCEPT ![a] = n]
             v == [w EXCEPT ![a] = p]
  <2>1. o = "ok" /\ Unused # {}
    BY <1>1, <1>3 DEF Outcomes
  <2>2. a \in New /\ heap[a].kind = "none"
    <3>1. a \in Unused
      BY <2>1 DEF Malloc
    <3> QED BY <2>1, <3>1, MallocNew DEF MergeInv, Unused, Live
  <2>3. /\ n.kind = "block" /\ n.dirs = <<>> /\ n.subs = <<>>
        /\ n.name = heap[b].name /\ n.args = heap[b].args
    BY NewRecords DEF Fields
  <2>4. heap' = g /\ stack' = Append(stack, f)
        /\ UNCHANGED <<zap, broken, given, root, next, outcome>>
    BY <1>1, <1>3
  <2>5. f.copy = TRUE /\ f.src = b /\ f.dst = a /\ f.d = 0 /\ f.subs = Null
    BY DEF Call
  <2>6. /\ HeapOk(heap) /\ Shaped(heap, w) /\ Sourced(heap, w) /\ Taken(heap, w, D)
        /\ CallsDone(stack, next, heap, w, D, {}) /\ Rooted(heap, root, next, w, D)
        /\ ListsBlocks(heap) /\ given \in Forests
    BY DEF MergeInv, Whole, Kinded
  <2>7. p \in Seq(Headers) /\ AtPath(p, b)
    BY <2>6, AtTyped
  <2> HIDE DEF a, n, f
  <2>8. g = Put(heap, a, n) /\ v = Put(w, a, p)
    BY DEF Put
  <2> HIDE DEF g, v
  <2>9. /\ Shaped(g, v) /\ Sourced(g, v) /\ Extends(heap, g) /\ Agree(heap, w, v)
        /\ v[a] = p /\ g[a] = n /\ a \in CopiedBlocks(g) /\ Entries(g, a) = {}
    BY <2>2, <2>3, <2>6, <2>7, <2>8, BlockMade
  <2>10. Taken(g, v, D) /\ Rooted(g, root, next, v, D)
    BY <2>6, <2>9, TakenGrows, RootLater
  <2>11. CallsDone(stack, next, g, v, D, {b})
    <3>1. \A e \in Elements(stack) : CallKinded(e, heap)
      BY DEF Kinded
    <3>2. CallsDone(stack, next, g, v, D, {})
      BY <2>6, <2>9, <3>1, CallsGrow, NullNoPairs
    <3>3. ASSUME NEW k \in 1..Len(stack)
          PROVE  Doing(stack[k], g, v, D, IF k = Len(stack) THEN {b} ELSE {stack[k + 1].src})
      <4>1. Doing(stack[k], g, v, D, IF k = Len(stack) THEN {} ELSE {stack[k + 1].src})
        BY <3>2 DEF CallsDone
      <4>2. CASE k = Len(stack)
        BY <4>1, <4>2, DoingLess
      <4> QED BY <4>1, <4>2
    <3> QED BY <3>2, <3>3 DEF CallsDone
  <2>12. Doing(f, g, v, D, {})
    <3>1. Len(g[a].dirs) = 0 /\ Begun(g, a, b, 0)
      BY <2>3, <2>9 DEF Begun
    <3> QED BY <2>5, <2>9, <3>1 DEF Doing, InStep
  <2>13. stack # <<>> => Within(stack[Len(stack)], f, g, v)
    <3>1. SUFFICES ASSUME stack # <<>> PROVE Within(Top, f, g, v)
      BY DEF Top
    <3>2. v[Top.dst] = w[Top.dst]
      BY <2>9, <3>1, BelowLater
    <3>3. Header(g, a) = Header(given.heap, b)
      BY <2>3, <2>6, <2>9 DEF Header, HeapOk
    <3> QED BY <2>5, <2>9, <3>1, <3>2, <3>3 DEF Within
  <2>14. CallsDone(Append(stack, f), next, g, v, D, {})
    <3>1. stack = <<>> => v[f.dst] = <<>> /\ f.src = Inputs[next]
      BY <2>5, <2>9
    <3> QED BY <2>5, <2>11, <2>12, <2>13, <3>1, CallsSplit
  <2>15. Whole(heap', stack', root', next', v, D)
    BY <2>4, <2>9, <2>10, <2>14 DEF Whole
  <2> QED BY <2>4, <2>15, MergedStep
<1> QED BY <1>2, <1>3

LEMMA NextInputMerged == ASSUME MergeInv, Kinded, Merged, NextInput PROVE Merged'
<1>1. stack = <<>> /\ outcome = "running" /\ stack \in Seq(Callers)
  BY DEF NextInput, Running
<1>2. PICK w, D : Whole(heap, stack, root, next, w, D)
  BY <1>1 DEF Merged
<1>3. /\ Inputs \in Seq(Old) /\ Inputs # <<>> /\ next \in Nat \ {0} /\ Len(Inputs) \in Nat
  BY InputsWhole DEF MergeInv
<1>4. ASSUME NEW k \in 1..Len(Inputs) PROVE Inputs[k] \in Old /\ AtPath(<<>>, Inputs[k])
  <2>1. Inputs[k] \in Old /\ Inputs[k] \in Elements(Inputs)
    BY <1>3 DEF Elements
  <2> QED BY <2>1, AtRoot
<1>5. CASE next = 1 /\ BeginCopy(Inputs[1])
  <2>1. 1 \in 1..Len(Inputs)
    BY <1>3
  <2> QED BY <1>1, <1>2, <1>4, <1>5, <2>1, BeginCopyMerged
<1>6. CASE /\ root # Null /\ next <= Len(Inputs)
           /\ stack' = <<Call(FALSE, Inputs[next], root)>>
           /\ UNCHANGED <<heap, zap, broken, given, root, next, outcome, clash>>
  <2> DEFINE f == Call(FALSE, Inputs[next], root)
  <2>1. f.copy = FALSE /\ f.src = Inputs[next] /\ f.dst = root /\ f.d = 0 /\ f.subs = Null
    BY DEF Call
  <2>2. stack' = Append(stack, f)
    BY <1>1, <1>6
  <2> HIDE DEF f
  <2>3. w[root] = <<>> /\ CallsDone(stack, next, heap, w, D, {})
    BY <1>2, <1>6 DEF Whole, Rooted
  <2>4. AtPath(<<>>, Inputs[next])
    <3> DEFINE n == Len(Inputs)
    <3>1. n \in Nat /\ next \in Nat \ {0} /\ next <= n
      BY <1>3, <1>6
    <3> HIDE DEF n
    <3>2. next \in 1..n
      BY <3>1
    <3> QED BY <1>4, <3>2 DEF n
  <2>5. Doing(f, heap, w, D, {})
    BY <2>1, <2>3, <2>4 DEF Doing, InStep
  <2>6. CallsDone(stack, next, heap, w, D, {f.src})
    BY <1>1 DEF CallsDone
  <2>7. CallsDone(Append(stack, f), next, heap, w, D, {})
    BY <1>1, <2>1, <2>3, <2>5, <2>6, CallsSplit
  <2>8. Whole(heap, Append(stack, f), root, next, w, D)
    BY <1>2, <2>7 DEF Whole
  <2>9. Whole(heap', stack', root', next', w, D)
    BY <1>6, <2>2, <2>8
  <2> QED BY <1>1, <1>6, <2>9, MergedStep
<1>7. CASE /\ root # Null /\ next > Len(Inputs) /\ outcome' = "ok"
           /\ UNCHANGED <<heap, zap, broken, given, root, next, stack, clash>>
  BY <1>1, <1>2, <1>7, MergedStep
<1> QED BY <1>5, <1>6, <1>7, Zenon DEF NextInput

\* strcmp finds equal what is equal.
LEMMA ComparedArgs ==
  ASSUME NEW S, NEW T, NEW a \in Seq(S), NEW b \in Seq(T)
  PROVE  /\ CompareArgs(a, b) = "equal" => a = b
         /\ CompareArgs(a, b) = "partial" => a # b
<1> DEFINE stops == {k \in 1..Len(a) : a[k] # b[k] \/ a[k] = Null}
           K     == CHOOSE k \in stops : \A j \in stops : k <= j
<1>1. CompareArgs(a, b) =
        CASE Len(a) # Len(b)               -> "partial"
          [] Len(a) = Len(b) /\ stops = {} -> "equal"
          [] OTHER                         -> IF Null \in {a[K], b[K]} THEN "crash" ELSE "partial"
  BY DEF CompareArgs
<1>2. stops \in SUBSET Nat /\ Len(a) \in Nat /\ \A k \in stops : a[k] # b[k] \/ a[k] = Null
  OBVIOUS
<1>3. stops # {} => K \in stops
  <2> HIDE DEF stops
  <2>1. stops # {} => \E k \in stops : \A j \in stops : k <= j
    BY <1>2, NatMin
  <2> QED BY <2>1
<1>4. Len(a) = Len(b) /\ stops = {} => a = b
  <2>1. \A U : \A x, y \in Seq(U) : Len(x) = Len(y) /\ (\A k \in 1..Len(x) : x[k] = y[k]) => x = y
    OBVIOUS
  <2>2. a \in Seq(S \cup T) /\ b \in Seq(S \cup T)
    OBVIOUS
  <2>3. stops = {} => \A k \in 1..Len(a) : a[k] = b[k]
    OBVIOUS
  <2> HIDE DEF stops
  <2> QED BY <2>1, <2>2, <2>3
<1> HIDE DEF K, stops
<1>5. CASE Len(a) # Len(b)
  <2>1. CompareArgs(a, b) = "partial"
    BY <1>1, <1>5
  <2> QED BY <1>5, <2>1
<1>6. CASE Len(a) = Len(b) /\ stops = {}
  <2>1. CompareArgs(a, b) = "equal"
    BY <1>1, <1>6
  <2> QED BY <1>4, <1>6, <2>1
<1>7. CASE Len(a) = Len(b) /\ stops # {}
  <2>1. CompareArgs(a, b) = IF Null \in {a[K], b[K]} THEN "crash" ELSE "partial"
    BY <1>1, <1>7
  <2>2. a[K] # b[K] \/ a[K] = Null
    BY <1>2, <1>3, <1>7
  <2> QED BY <2>1, <2>2
<1> QED BY <1>5, <1>6, <1>7

LEMMA ArgsWhole ==
  ASSUME given \in Forests, NEW a \in Old
  PROVE  given.heap[a].args \in Seq(Elements(given.heap[a].args))
<1>1. a \in Addr
  BY DEF Old
<1> QED BY <1>1, ForestAssumption, Zenon

\* The arguments of a copied directive are those of one of the inputs.
LEMMA CopiedArgs ==
  ASSUME given \in Forests, NEW h, NEW w, Sourced(h, w), NEW b \in CopiedBlocks(h),
         NEW d \in Elements(h[b].dirs)
  PROVE  /\ \E S : h[d].args \in Seq(S)
         /\ \E s : AtPath(w[b], s) /\ Header(h, d) \in Entries(given.heap, s)
<1>1. Stems(h, b, w[b])
  BY DEF Sourced
<1>2. \E s : AtPath(w[b], s) /\ Header(h, d) \in Entries(given.heap, s)
  BY <1>1 DEF Stems
<1>3. PICK s : AtPath(w[b], s) /\ Header(h, d) \in Entries(given.heap, s)
  BY <1>2
<1>4. PICK e \in Elements(given.heap[s].dirs) : Header(h, d) = Header(given.heap, e)
  BY <1>3, EntriesFacts
<1>5. s \in Old /\ e \in Old
  <2>1. s \in Old
    BY <1>3, AtTyped
  <2>2. given.heap[s].dirs \in Seq(Old)
    BY <2>1, InputsWhole
  <2>3. \A S : \A q \in Seq(S) : Elements(q) \subseteq S
    BY DEF Elements
  <2> QED BY <1>4, <2>1, <2>2, <2>3
<1>6. h[d].args = given.heap[e].args
  BY <1>4 DEF Header
<1>7. given.heap[e].args \in Seq(Elements(given.heap[e].args))
  BY <1>5, ArgsWhole
<1> QED BY <1>2, <1>6, <1>7

\* The innermost call is done with a directive, which the block written to has now.
LEMMA AdvanceMerged ==
  ASSUME MergeInv, Kinded, outcome = "running", stack # <<>>, Top.d < Len(Src.dirs),
         NEW w, NEW D, Whole(heap, stack, root, next, w, D),
         NEW g, Shaped(g, w), Sourced(g, w), Extends(heap, g),
         Header(given.heap, given.heap[Top.src].dirs[Top.d + 1]) \in Entries(g, Top.dst),
         InStep(g, Top, Top.d + 1),
         Advance, heap' = g, UNCHANGED <<broken, given, root, next, outcome>>
  PROVE  Merged'
<1> DEFINE f == [Top EXCEPT !.d = Top.d + 1]
<1>1. Top \in Frames /\ Top.src \in Old /\ Top.d \in Nat /\ Src = given.heap[Top.src]
      /\ given.heap[Top.src].dirs \in Seq(Old)
  BY TopLast, InputsWhole DEF Frames, MergeInv, HeapOk, Src
<1>2. /\ f.src = Top.src /\ f.dst = Top.dst /\ f.d = Top.d + 1
      /\ f.subs = Top.subs /\ f.copy = Top.copy
  <2>1. Top.d + 1 \in Nat
    BY <1>1
  <2> HIDE DEF f
  <2> QED BY <1>1, <2>1, SameCall DEF f
<1>3. stack' = Append(Below, f)
  BY DEF Advance
<1> HIDE DEF f
<1>4. Agree(heap, w, w) /\ HeapOk(heap) /\ Shaped(heap, w)
  BY DEF Agree, MergeInv, Whole
<1>5. Doing(Top, heap, w, D, {}) /\ Top.dst \in CopiedBlocks(heap)
  BY <1>4, BelowLater
<1>6. Entries(heap, Top.dst) \subseteq Entries(g, Top.dst)
  BY <1>4, <1>5, EntriesGrow
<1>7. Top.subs = Null
  BY <1>1, <1>5 DEF Doing
<1>8. Doing(f, g, w, D, {})
  <2>1. \A j \in 1..f.d : Header(given.heap, given.heap[f.src].dirs[j]) \in Entries(g, f.dst)
    <3>1. \A j \in 1..f.d : j \in 1..Top.d \/ j = Top.d + 1
      BY <1>1, <1>2
    <3>2. \A j \in 1..Top.d :
            Header(given.heap, given.heap[Top.src].dirs[j]) \in Entries(heap, Top.dst)
      BY <1>5 DEF Doing
    <3> QED BY <1>2, <1>6, <3>1, <3>2
  <2>2. AtPath(w[f.dst], f.src)
    BY <1>2, <1>5 DEF Doing
  <2>3. InStep(g, f, f.d)
    BY <1>2 DEF InStep
  <2> QED BY <1>2, <1>7, <2>1, <2>2, <2>3 DEF Doing
<1>9. /\ CallsDone(Append(Below, f), next, g, w, D, {})
      /\ Taken(g, w, D) /\ Rooted(g, root, next, w, D)
  BY <1>2, <1>8, TopGoes
<1>10. Whole(heap', stack', root', next', w, D)
  BY <1>3, <1>9 DEF Whole
<1> QED BY <1>10, MergedStep

LEMMA MergeDirectiveMerged == ASSUME MergeInv, Kinded, Merged, MergeDirective PROVE Merged'
<1> DEFINE dir == Src.dirs[Top.d + 1]
           names == SameName(dir)
           old == Dst.dirs[First(names)]
<1>1. /\ stack # <<>> /\ outcome = "running" /\ Top \in Frames /\ Top.src \in Old
      /\ Top.dst \in New /\ Top.d \in Nat /\ Top.d < Len(Src.dirs)
      /\ given \in Forests /\ HeapOk(heap)
  <2>1. stack # <<>> /\ outcome = "running" /\ Top.d < Len(Src.dirs)
    BY DEF MergeDirective, Running
  <2> QED BY <2>1, TopLast DEF Frames, MergeInv
<1>2. PICK w, D : Whole(heap, stack, root, next, w, D)
  BY <1>1 DEF Merged
<1>3. /\ Src = given.heap[Top.src] /\ given.heap[Top.src].dirs \in Seq(Old)
      /\ dir = given.heap[Top.src].dirs[Top.d + 1]
      /\ dir \in Elements(given.heap[Top.src].dirs)
  <2>1. Src = given.heap[Top.src] /\ given.heap[Top.src].dirs \in Seq(Old)
    BY <1>1, InputsWhole DEF Src, HeapOk
  <2>2. Top.d + 1 \in 1..Len(given.heap[Top.src].dirs)
    BY <1>1, <2>1
  <2> QED BY <2>1, <2>2 DEF Elements
<1>4. /\ dir \in Old /\ heap[dir] = given.heap[dir] /\ heap[dir].kind = "directive"
      /\ heap[dir].dirs = <<>> /\ heap[dir].subs = <<>> /\ Object(heap[dir], New)
  <2>1. Top.d + 1 \in 1..Len(given.heap[Top.src].dirs)
    BY <1>1, <1>3
  <2>2. LET o == given.heap[dir] IN
          dir \in Old /\ o.kind = "directive" /\ o.dirs = <<>> /\ o.subs = <<>>
    BY <1>1, <1>3, <2>1, DirectiveWhole, Zenon
  <2>3. Object(given.heap[dir], New)
    BY <1>1, <1>3, <2>1, InputsWhole
  <2> HIDE DEF dir
  <2>4. heap[dir] = given.heap[dir]
    BY <1>1, <2>2 DEF HeapOk
  <2> QED BY <2>2, <2>3, <2>4
<1>5. Header(given.heap, dir) \in Entries(given.heap, Top.src)
  BY <1>3 DEF Entries
<1> HIDE DEF dir
<1>6. /\ Shaped(heap, w) /\ Sourced(heap, w) /\ Top.dst \in CopiedBlocks(heap)
      /\ Doing(Top, heap, w, D, {})
  <2>1. Agree(heap, w, w) /\ Extends(heap, heap)
    BY DEF Agree, Extends
  <2> QED BY <1>1, <1>2, <2>1, BelowLater
<1>7. /\ AtPath(w[Top.dst], Top.src)
      /\ InStep(heap, Top, Top.d)
  BY <1>1, <1>3, <1>6 DEF Doing
<1>8. ~Top.copy /\ names # {} =>
        old \in Elements(Dst.dirs) /\ heap[old].name = heap[dir].name
  <2>1. Dst.dirs \in Seq(New)
    BY <1>1 DEF Dst, HeapOk, Object
  <2>2. Len(Dst.dirs) \in Nat /\ names \subseteq 1..Len(Dst.dirs)
    BY <2>1 DEF SameName
  <2>3. names # {} => First(names) \in names
    <3> HIDE DEF names
    <3> QED BY <2>2, FirstIn
  <2> QED BY <2>3 DEF SameName, Elements
<1>9. Present(dir) = IF Top.copy \/ names = {} THEN "absent"
                     ELSE CompareArgs(heap[old].args, heap[dir].args)
  BY DEF Present
<1> HIDE DEF names, old
<1>10. \A a, b : CompareArgs(a, b) # "absent"
  BY DEF CompareArgs
<1>11. Dst = heap[Top.dst]
  BY DEF Dst
<1>12. Present(dir) \in {"equal", "partial"} =>
         /\ old \in Elements(heap[Top.dst].dirs) /\ heap[old].name = heap[dir].name
         /\ Present(dir) = "equal" <=> heap[old].args = heap[dir].args
  <2>1. SUFFICES ASSUME Present(dir) \in {"equal", "partial"}
                 PROVE  /\ old \in Elements(heap[Top.dst].dirs) /\ heap[old].name = heap[dir].name
                        /\ Present(dir) = "equal" <=> heap[old].args = heap[dir].args
    OBVIOUS
  <2>2. /\ ~Top.copy /\ names # {} /\ Present(dir) = CompareArgs(heap[old].args, heap[dir].args)
        /\ old \in Elements(heap[Top.dst].dirs) /\ heap[old].name = heap[dir].name
    BY <1>8, <1>9, <1>11, <2>1
  <2>3. \E S : heap[old].args \in Seq(S)
    BY <1>1, <1>6, <2>2, CopiedArgs
  <2>4. \E S : heap[dir].args \in Seq(S)
    BY <1>1, <1>4, ArgsWhole
  <2> QED BY <2>1, <2>2, <2>3, <2>4, ComparedArgs
<1>13. \/ /\ Present(dir) = "absent" /\ Unused # {} /\ Advance
          /\ heap' = WithDirective([heap EXCEPT ![Malloc] = heap[dir]], Top.dst, Malloc)
          /\ UNCHANGED <<zap, broken, given, root, next, outcome, clash>>
       \/ (\E o : Fails(o)) \/ Crash("NULL argument")
       \/ Present(dir) = "partial" /\ Abort("duplicate")
       \/ /\ Present(dir) = "equal" /\ Advance
          /\ UNCHANGED <<heap, zap, broken, given, root, next, outcome, clash>>
  BY DEF MergeDirective, Outcomes, dir
<1>14. CASE /\ Present(dir) = "absent" /\ Unused # {} /\ Advance
            /\ heap' = WithDirective([heap EXCEPT ![Malloc] = heap[dir]], Top.dst, Malloc)
            /\ UNCHANGED <<zap, broken, given, root, next, outcome, clash>>
  <2> DEFINE a == Malloc
             o == heap[dir]
             g == WithDirective(Put(heap, a, o), Top.dst, a)
             x == <<o.name, o.args>>
  <2>1. a \in New /\ heap[a].kind = "none"
    <3>1. a \in Unused
      BY <1>14 DEF Malloc
    <3> QED BY <1>1, <1>14, <3>1, MallocNew DEF Unused, Live
  <2>2. heap' = g
    BY <1>14 DEF Put
  <2>3. /\ o.kind = "directive" /\ o.dirs = <<>> /\ o.subs = <<>> /\ Object(o, New)
        /\ x = Header(given.heap, dir) /\ x \in Entries(given.heap, Top.src)
    BY <1>4, <1>5 DEF Header
  <2>4. Follows(heap, Top.dst, Top.src, o)
    <3>1. CASE Top.copy
      <4>1. Len(heap[Top.dst].dirs) = Top.d /\ Begun(heap, Top.dst, Top.src, Top.d)
        BY <1>7, <3>1 DEF InStep
      <4>2. Top.d + 1 <= Len(given.heap[Top.src].dirs)
        BY <1>1, <1>3
      <4>3. x = Header(given.heap, given.heap[Top.src].dirs[Top.d + 1])
        BY <1>3, <2>3
      <4> QED BY <4>1, <4>2, <4>3 DEF Follows
    <3>2. CASE ~Top.copy
      <4>1. names = {}
        BY <1>9, <1>10, <1>14, <3>2
      <4>2. \A d \in Elements(heap[Top.dst].dirs) : heap[d].name # heap[dir].name
        BY <1>11, <4>1 DEF names, SameName, Elements
      <4> QED BY <4>2 DEF Follows
    <3> QED BY <3>1, <3>2
  <2> HIDE DEF a, o
  <2>5. g = WithDirective(Put(heap, a, o), Top.dst, a) /\ x = <<o.name, o.args>>
    OBVIOUS
  <2> HIDE DEF g, x
  <2>6. /\ Shaped(g, w) /\ Sourced(g, w) /\ Extends(heap, g)
        /\ Entries(g, Top.dst) = Entries(heap, Top.dst) \cup {x}
        /\ g[Top.dst].dirs = Append(heap[Top.dst].dirs, a) /\ heap[Top.dst].dirs \in Seq(New)
        /\ Header(g, a) = x
        /\ \A d \in Elements(heap[Top.dst].dirs) : Header(g, d) = Header(heap, d)
    BY <1>1, <1>6, <1>7, <2>1, <2>3, <2>4, <2>5, DirectiveMade
  <2>7. Header(given.heap, given.heap[Top.src].dirs[Top.d + 1]) \in Entries(g, Top.dst)
    BY <1>3, <2>3, <2>6
  <2>8. InStep(g, Top, Top.d + 1)
    <3>1. SUFFICES ASSUME Top.copy
                   PROVE  Len(g[Top.dst].dirs) = Top.d + 1 /\ Begun(g, Top.dst, Top.src, Top.d + 1)
      BY DEF InStep
    <3>2. Len(heap[Top.dst].dirs) = Top.d /\ Begun(heap, Top.dst, Top.src, Top.d)
      BY <1>7, <3>1 DEF InStep
    <3>3. /\ Len(heap[Top.dst].dirs) + 1 <= Len(given.heap[Top.src].dirs)
          /\ Header(g, a) = Header(given.heap, given.heap[Top.src].dirs[Len(heap[Top.dst].dirs) + 1])
      <4>1. Top.d + 1 <= Len(given.heap[Top.src].dirs)
        BY <1>1, <1>3
      <4>2. x = Header(given.heap, given.heap[Top.src].dirs[Top.d + 1])
        BY <1>3, <2>3
      <4> QED BY <2>6, <3>2, <4>1, <4>2
    <3>4. /\ g[Top.dst].dirs = Append(heap[Top.dst].dirs, a) /\ heap[Top.dst].dirs \in Seq(New)
          /\ \A d \in Elements(heap[Top.dst].dirs) : Header(g, d) = Header(heap, d)
          /\ Begun(heap, Top.dst, Top.src, Len(heap[Top.dst].dirs))
      BY <2>6, <3>2
    <3>5. Begun(g, Top.dst, Top.src, Len(heap[Top.dst].dirs) + 1)
          /\ Len(g[Top.dst].dirs) = Len(heap[Top.dst].dirs) + 1
      BY <3>3, <3>4, BegunGrows
    <3> QED BY <3>2, <3>5
  <2> QED BY <1>1, <1>2, <1>14, <2>2, <2>6, <2>7, <2>8, AdvanceMerged
<1>15. CASE /\ Present(dir) = "equal" /\ Advance
            /\ UNCHANGED <<heap, zap, broken, given, root, next, outcome, clash>>
  <2>1. Header(heap, old) = Header(given.heap, dir) /\ old \in Elements(heap[Top.dst].dirs)
    BY <1>4, <1>12, <1>15 DEF Header
  <2>2. Header(given.heap, given.heap[Top.src].dirs[Top.d + 1]) \in Entries(heap, Top.dst)
    BY <1>3, <2>1 DEF Entries
  <2>3. Extends(heap, heap)
    BY DEF Extends
  <2>4. InStep(heap, Top, Top.d + 1)
    BY <1>9, <1>15 DEF InStep
  <2> QED BY <1>1, <1>2, <1>6, <1>15, <2>2, <2>3, <2>4, AdvanceMerged
<1>16. CASE Present(dir) = "partial" /\ Abort("duplicate")
  <2>1. /\ old \in Elements(heap[Top.dst].dirs) /\ heap[old].name = heap[dir].name
        /\ heap[old].args # heap[dir].args
    BY <1>12, <1>16
  <2>2. PICK s : AtPath(w[Top.dst], s) /\ Header(heap, old) \in Entries(given.heap, s)
    BY <1>1, <1>6, <2>1, CopiedArgs
  <2> DEFINE x == Header(heap, old)
             y == Header(given.heap, dir)
  <2>3. x[1] = y[1] /\ x[2] # y[2]
    BY <1>4, <2>1 DEF Header
  <2> HIDE DEF x, y
  <2>4. x \in Entries(given.heap, s) /\ y \in Entries(given.heap, Top.src)
    BY <1>5, <2>2 DEF x, y
  <2>5. Disagreement
    BY <1>7, <2>2, <2>3, <2>4 DEF Disagreement
  <2>6. given' = given /\ outcome' = "duplicate"
    BY <1>16 DEF Abort
  <2> QED BY <2>5, <2>6, MergedStep
<1> QED BY <1>1, <1>13, <1>14, <1>15, <1>16, StopMerged

\* What is due is taken off, and the rest stays.
LEMMA DueStays ==
  ASSUME NEW P, NEW q \in Seq(P), q # <<>>
  PROVE  /\ \A p \in Elements(q) : p = q[Due(q)] \/ p \in Elements(RemoveAt(q, Due(q)))
         /\ Elements(RemoveAt(q, Due(q))) \subseteq Elements(q)
<1> DEFINE E == Elements(q)
           i == Due(q)
           r == RemoveAt(q, i)
<1>1. i \in 1..Len(q)
  <2> DEFINE m == {k \in 1..Len(q) : q[k][2] # Null}
  <2>0. Len(q) \in Nat /\ Len(q) >= 1
    OBVIOUS
  <2>1. CASE m = {}
    BY <2>0, <2>1 DEF Due
  <2>2. CASE m # {}
    <3>1. m \subseteq 1..Len(q) /\ Due(q) = First(m)
      BY <2>2 DEF Due
    <3> HIDE DEF m
    <3> QED BY <2>0, <2>2, <3>1, FirstIn
  <2> QED BY <2>1, <2>2
<1> HIDE DEF i
<1>2. \A S : \A s \in Seq(S) : \A j \in 1..Len(s) : \A k \in 1..Len(s) :
        k # j => \E l \in 1..Len(RemoveAt(s, j)) : RemoveAt(s, j)[l] = s[k]
  <2>1. ASSUME NEW S, NEW s \in Seq(S), NEW j \in 1..Len(s), NEW k \in 1..Len(s), k # j
        PROVE  \E l \in 1..Len(RemoveAt(s, j)) : RemoveAt(s, j)[l] = s[k]
    <3> DEFINE n == Len(s)
               t == RemoveAt(s, j)
               u == SubSeq(s, 1, j - 1)
               v == SubSeq(s, j + 1, n)
    <3>1. n \in Nat /\ j \in 1..n /\ k \in 1..n
      OBVIOUS
    <3>2. /\ u \in Seq(S) /\ Len(u) = j - 1 /\ \A l \in 1..(j - 1) : u[l] = s[l]
          /\ v \in Seq(S) /\ Len(v) = n - j /\ \A l \in 1..(n - j) : v[l] = s[j + l]
      OBVIOUS
    <3>3. t = u \o v
      BY DEF RemoveAt
    <3> HIDE DEF n, t, u, v
    <3>4. /\ Len(t) = Len(u) + Len(v) /\ \A l \in 1..Len(u) : t[l] = u[l]
          /\ \A l \in 1..Len(v) : t[Len(u) + l] = v[l]
      BY <3>2, <3>3
    <3>5. CASE k < j
      <4>1. k \in 1..Len(t) /\ t[k] = s[k]
        BY <3>1, <3>2, <3>4, <3>5
      <4> QED BY <4>1 DEF t
    <3>6. CASE k > j
      <4> DEFINE l == k - 1
                 e == k - j
      <4>1. e \in 1..(n - j) /\ l = Len(u) + e /\ j + e = k /\ l \in 1..Len(t)
        BY <3>1, <3>2, <3>4, <3>6
      <4> HIDE DEF e, l
      <4>2. t[l] = s[k]
        BY <3>2, <3>4, <4>1
      <4> QED BY <4>1, <4>2 DEF t
    <3> QED BY <2>1, <3>1, <3>5, <3>6
  <2> QED BY <2>1
<1>3. \A S : \A s \in Seq(S) : \A j \in 1..Len(s) : RemoveAt(s, j) \in Seq(S)
  <2>1. ASSUME NEW S, NEW s \in Seq(S), NEW j \in 1..Len(s)
        PROVE  RemoveAt(s, j) \in Seq(S)
    <3>1. SubSeq(s, 1, j - 1) \in Seq(S) /\ SubSeq(s, j + 1, Len(s)) \in Seq(S)
      OBVIOUS
    <3>2. \A u, v \in Seq(S) : u \o v \in Seq(S)
      OBVIOUS
    <3> QED BY <3>1, <3>2 DEF RemoveAt
  <2> QED BY <2>1
<1>4. q \in Seq(E)
  BY DEF Elements
<1>5. r \in Seq(E)
  BY <1>1, <1>3, <1>4
<1>6. \A S : \A s \in Seq(S) : Elements(s) \subseteq S
  BY DEF Elements
<1>7. Elements(r) \subseteq E
  <2> HIDE DEF E, r
  <2> QED BY <1>5, <1>6
<1>8. \A p \in E : p = q[i] \/ p \in Elements(r)
  <2> TAKE p \in E
  <2>1. PICK k \in 1..Len(q) : p = q[k]
    BY DEF Elements
  <2>2. CASE k = i
    BY <2>1, <2>2
  <2>3. CASE k # i
    BY <1>1, <1>2, <2>1, <2>3 DEF Elements
  <2> QED BY <2>2, <2>3
<1> QED BY <1>7, <1>8 DEF i

\* The match of a subblock has its name and arguments.
LEMMA MatchHeader ==
  ASSUME NEW S, Dst.subs \in Seq(S), NEW s, Match(s) # Null
  PROVE  Header(heap, Match(s)) = Header(heap, s)
<1> DEFINE same == {j \in Compared(s) : BlockEquals(heap[Dst.subs[j]], heap[s])}
<1>1. same \subseteq 1..Len(Dst.subs) /\ same # {} /\ Match(s) = Dst.subs[First(same)]
  BY DEF Compared, Match
<1>2. First(same) \in same
  <2>1. Len(Dst.subs) \in Nat
    OBVIOUS
  <2> HIDE DEF same
  <2> QED BY <1>1, <2>1, FirstIn
<1>3. BlockEquals(heap[Dst.subs[First(same)]], heap[s])
  BY <1>2
<1> QED BY <1>1, <1>3 DEF BlockEquals, Header

LEMMA MatchSubblocksMerged == ASSUME MergeInv, Kinded, Merged, MatchSubblocks PROVE Merged'
<1> DEFINE pairs == [k \in 1..Len(Src.subs) |-> <<Src.subs[k], Match(Src.subs[k])>>]
           f == [Top EXCEPT !.subs = pairs]
<1>1. /\ stack # <<>> /\ outcome = "running" /\ Top \in Frames /\ Top.src \in Old
      /\ Top.dst \in New /\ Top.d = Len(Src.dirs) /\ given \in Forests /\ HeapOk(heap)
  <2>1. stack # <<>> /\ outcome = "running" /\ Top.d = Len(Src.dirs)
    BY DEF MatchSubblocks, Running
  <2> QED BY <2>1, TopLast DEF Frames, MergeInv
<1>2. PICK w, D : Whole(heap, stack, root, next, w, D)
  BY <1>1 DEF Merged
<1>3. /\ Src = given.heap[Top.src] /\ Src.subs \in Seq(Old) /\ Dst.subs \in Seq(New)
  BY <1>1, InputsWhole DEF HeapOk, Src, Dst, Object
<1>4. \A s : /\ Match(s) \in New \cup {Null}
             /\ Match(s) # Null => Header(heap, Match(s)) = Header(heap, s)
  BY <1>3, MatchIn, MatchHeader
<1>5. pairs \in Seq(Pairs)
  BY <1>3, <1>4 DEF Pairs
<1>6. pairs # Null
  BY <1>5, NullNoPairs
<1>7. \A t \in Elements(Src.subs) : \E p \in Elements(pairs) : p[1] = t
  <2> TAKE t \in Elements(Src.subs)
  <2>1. PICK k \in 1..Len(Src.subs) : t = Src.subs[k]
    BY DEF Elements
  <2>2. Len(pairs) = Len(Src.subs)
    BY <1>3
  <2>3. pairs[k][1] = t
    BY <2>1
  <2> HIDE DEF pairs
  <2> QED BY <2>2, <2>3 DEF Elements
<1>8. \A p \in Elements(pairs) : p[2] # Null => Header(heap, p[2]) = Header(given.heap, p[1])
  <2> TAKE p \in Elements(pairs)
  <2>1. Len(pairs) = Len(Src.subs)
    BY <1>3
  <2>2. PICK k \in 1..Len(Src.subs) : p = pairs[k]
    <3> HIDE DEF pairs
    <3> QED BY <2>1 DEF Elements
  <2>3. p[1] = Src.subs[k] /\ p[2] = Match(Src.subs[k]) /\ Src.subs[k] \in Old
    BY <1>3, <2>2
  <2>4. Header(heap, Src.subs[k]) = Header(given.heap, Src.subs[k])
    BY <1>1, <2>3 DEF Header, HeapOk
  <2> QED BY <1>4, <2>3, <2>4
<1> HIDE DEF pairs
<1>9. /\ f.src = Top.src /\ f.dst = Top.dst /\ f.d = Top.d /\ f.subs = pairs /\ f.copy = Top.copy
  BY <1>1, <1>5, SameCall
<1> HIDE DEF f
<1>10. /\ Shaped(heap, w) /\ Sourced(heap, w) /\ Doing(Top, heap, w, D, {})
       /\ Extends(heap, heap)
  <2>1. Agree(heap, w, w) /\ Extends(heap, heap)
    BY DEF Agree, Extends
  <2> QED BY <1>1, <1>2, <2>1, BelowLater
<1>11. Doing(f, heap, w, D, {})
  BY <1>1, <1>3, <1>6, <1>7, <1>8, <1>9, <1>10 DEF Doing
<1>12. Whole(heap, Append(Below, f), root, next, w, D)
  <2>1. /\ CallsDone(Append(Below, f), next, heap, w, D, {})
        /\ Taken(heap, w, D) /\ Rooted(heap, root, next, w, D)
    BY <1>1, <1>2, <1>9, <1>10, <1>11, TopGoes
  <2> QED BY <1>10, <2>1 DEF Whole
<1>13. \/ Crash("NULL argument") \/ Abort("oom")
       \/ /\ stack' = Append(Below, f)
          /\ UNCHANGED <<heap, zap, broken, given, root, next, outcome, clash>>
  BY Zenon DEF MatchSubblocks, f, pairs
<1>14. CASE /\ stack' = Append(Below, f)
            /\ UNCHANGED <<heap, zap, broken, given, root, next, outcome, clash>>
  <2>1. Whole(heap', stack', root', next', w, D)
    BY <1>12, <1>14
  <2> QED BY <1>1, <1>14, <2>1, MergedStep
<1> QED BY <1>1, <1>13, <1>14, StopMerged

LEMMA MergeSubblockMerged == ASSUME MergeInv, Kinded, Merged, MergeSubblock PROVE Merged'
<1> DEFINE p == Top.subs
           r == RemoveAt(p, Due(p))
           c == [Top EXCEPT !.subs = r]
           s == p[Due(p)][1]
           m == p[Due(p)][2]
           t == Append(Below, c)
           f == Call(FALSE, s, m)
<1>1. /\ stack # <<>> /\ outcome = "running" /\ p # Null /\ p # <<>>
      /\ given \in Forests /\ HeapOk(heap)
  BY DEF MergeSubblock, Running, MergeInv
<1>2. PICK w, D : Whole(heap, stack, root, next, w, D)
  BY <1>1 DEF Merged
<1>3. /\ Top \in Frames /\ Below \in Seq(Callers) /\ stack = Append(Below, Top)
      /\ CallKinded(Top, heap) /\ p \in Seq(Pairs) /\ Top.src \in Old /\ Top.dst \in New
      /\ heap[Top.src] = given.heap[Top.src]
  BY <1>1, TopLast, StackFacts, StackElements DEF Frames, Kinded, MergeInv, HeapOk
<1>4. p[Due(p)] \in Elements(p) /\ p[Due(p)] \in Pairs /\ r \in Seq(Pairs)
  BY <1>1, <1>3, DueKinded, DueFacts
<1>5. s \in Old /\ s \in Elements(given.heap[Top.src].subs) /\ m \in Elements(heap[Top.dst].subs) \cup {Null}
      /\ m \in New \cup {Null}
  BY <1>1, <1>3, <1>4 DEF CallKinded, Pairs
<1>6. /\ Shaped(heap, w) /\ Sourced(heap, w) /\ Doing(Top, heap, w, D, {}) /\ Extends(heap, heap)
  <2>1. Agree(heap, w, w) /\ Extends(heap, heap)
    BY DEF Agree, Extends
  <2> QED BY <1>1, <1>2, <2>1, BelowLater
<1>7. AtPath(w[Top.dst], Top.src)
  BY <1>6 DEF Doing
<1>8. AtPath(Append(w[Top.dst], Header(given.heap, s)), s)
  <2> HIDE DEF s
  <2> QED BY <1>5, <1>7, AtBelow
<1>9. CASE m = Null
  <2>1. BeginCopy(s)
    BY <1>9 DEF MergeSubblock
  <2>2. stack \in Seq(Callers)
    <3>1. Top \in Callers
      <4> DEFINE Q == Seq(Pairs)
      <4>1. /\ Frames = [copy : BOOLEAN, src : Old, dst : New, d : Nat, subs : {Null} \cup Q]
            /\ Callers = [copy : BOOLEAN, src : Old, dst : New, d : Nat, subs : Q]
        BY DEF Frames, Callers
      <4> HIDE DEF Q
      <4> QED BY <1>1, <1>3, <4>1 DEF Q
    <3>2. \A S : \A q \in Seq(S) : \A x \in S : Append(q, x) \in Seq(S)
      OBVIOUS
    <3> QED BY <1>3, <3>1, <3>2
  <2>3. Top.subs \notin {Null, <<>>} /\ Top.subs[Due(Top.subs)][1] = s
    BY <1>1
  <2> HIDE DEF p, s, m
  <2> QED BY <1>1, <1>2, <1>5, <1>8, <2>1, <2>2, <2>3, BeginCopyMerged
<1>10. CASE m # Null
  <2>1. stack' = Append(t, f) /\ UNCHANGED <<heap, zap, broken, given, root, next, outcome, clash>>
    BY <1>10 DEF MergeSubblock
  <2>2. /\ c.src = Top.src /\ c.dst = Top.dst /\ c.copy = Top.copy /\ c.d = Top.d /\ c.subs = r
        /\ c \in Frames
    BY <1>3, <1>4, SameCall
  <2>3. r # Null
    BY <1>4, NullNoPairs
  <2>4. /\ \A x \in Elements(p) : x = p[Due(p)] \/ x \in Elements(r)
        /\ Elements(r) \subseteq Elements(p)
    BY <1>1, <1>3, DueStays
  <2>5. f.copy = FALSE /\ f.src = s /\ f.dst = m /\ f.d = 0 /\ f.subs = Null
    BY DEF Call
  <2>6. Header(heap, m) = Header(given.heap, s)
    BY <1>1, <1>4, <1>6, <1>10 DEF Doing
  <2> HIDE DEF c, r, f
  <2>7. Doing(c, heap, w, D, {s})
    <3>1. ASSUME NEW x \in Elements(given.heap[Top.src].subs) \ {s}
          PROVE  \/ \E q \in Elements(r) : q[1] = x
                 \/ <<Append(w[Top.dst], Header(given.heap, x)), x>> \in D
      BY <1>1, <1>6, <2>4 DEF Doing
    <3>2. \A q \in Elements(r) : q[2] # Null => Header(heap, q[2]) = Header(given.heap, q[1])
      BY <1>1, <1>6, <2>4 DEF Doing
    <3> HIDE DEF p, s
    <3> QED BY <1>1, <1>6, <2>2, <2>3, <3>1, <3>2 DEF Doing, p
  <2> HIDE DEF p, s, m
  <2>8. /\ CallsDone(t, next, heap, w, D, {s})
        /\ Taken(heap, w, D) /\ Rooted(heap, root, next, w, D)
    BY <1>1, <1>2, <1>6, <2>2, <2>7, TopGoes
  <2>9. w[m] = Append(w[Top.dst], Header(given.heap, s))
    BY <1>3, <1>5, <1>6, <1>10, <2>6 DEF Shaped
  <2>10. Doing(f, heap, w, D, {})
    BY <1>8, <2>5, <2>9 DEF Doing, InStep
  <2>11. Within(c, f, heap, w)
    BY <1>5, <2>2, <2>3, <2>5, <2>6, <2>9 DEF Within
  <2>12. t # <<>> /\ t[Len(t)] = c /\ t \in Seq(Frames)
    <3>1. \A S : \A q \in Seq(S) : \A x \in S :
            LET u == Append(q, x) IN u # <<>> /\ u[Len(u)] = x /\ u \in Seq(S)
      OBVIOUS
    <3>2. Below \in Seq(Frames)
      BY <1>1, TopLast
    <3> QED BY <2>2, <3>1, <3>2
  <2> HIDE DEF t
  <2>13. CallsDone(Append(t, f), next, heap, w, D, {})
    BY <2>5, <2>8, <2>10, <2>11, <2>12, CallsSplit
  <2>14. Whole(heap, Append(t, f), root, next, w, D)
    BY <1>6, <2>8, <2>13 DEF Whole
  <2>15. Whole(heap', stack', root', next', w, D)
    BY <2>1, <2>14
  <2> QED BY <1>1, <2>1, <2>15, MergedStep
<1> QED BY <1>9, <1>10

LEMMA FreeMerged == ASSUME Owning, Merged, Free PROVE Merged'
<1>1. zap # {} /\ UNCHANGED <<given, outcome>>
  BY DEF Free, FreeStep
<1>2. outcome # "running" /\ root = Null
  BY <1>1 DEF Owning
<1>3. outcome # "ok"
  BY <1>2 DEF Merged
<1> QED BY <1>1, <1>2, <1>3, MergedStep DEF Merged

\* The call that waits is told that the subblock s is taken over.
LEMMA CallerTold ==
  ASSUME NEW c \in Callers, NEW h, NEW w, NEW D, NEW s, Doing(c, h, w, D, {s}),
         <<Append(w[c.dst], Header(given.heap, s)), s>> \in D
  PROVE  /\ Doing(c, h, w, D, {})
         /\ c.subs # <<>> /\ c.subs[Due(c.subs)][1] = s =>
              Doing([c EXCEPT !.subs = RemoveAt(c.subs, Due(c.subs))], h, w, D, {})
<1> DEFINE p == c.subs
           r == RemoveAt(p, Due(p))
           e == [c EXCEPT !.subs = r]
<1>1. p \in Seq(Pairs) /\ p # Null /\ c \in Frames
  BY CallerFrame, NullNoPairs DEF Callers
<1>2. r \in Seq(Pairs) /\ r # Null
  BY <1>1, DueFacts, NullNoPairs
<1>3. /\ e.src = c.src /\ e.dst = c.dst /\ e.copy = c.copy /\ e.d = c.d /\ e.subs = r
  BY <1>1, <1>2, SameCall
<1>4. p # <<>> => /\ \A x \in Elements(p) : x = p[Due(p)] \/ x \in Elements(r)
                  /\ Elements(r) \subseteq Elements(p)
  BY <1>1, DueStays
<1> HIDE DEF e, r
<1>5. \A t \in Elements(given.heap[c.src].subs) :
        \/ \E q \in Elements(p) : q[1] = t
        \/ <<Append(w[c.dst], Header(given.heap, t)), t>> \in D
  BY <1>1 DEF Doing
<1>6. Doing(c, h, w, D, {})
  BY <1>1, <1>5 DEF Doing
<1>7. ASSUME p # <<>>, p[Due(p)][1] = s PROVE Doing(e, h, w, D, {})
  <2>1. \A t \in Elements(given.heap[c.src].subs) :
          \/ \E q \in Elements(r) : q[1] = t
          \/ <<Append(w[c.dst], Header(given.heap, t)), t>> \in D
    <3> TAKE t \in Elements(given.heap[c.src].subs)
    <3>1. CASE t = s
      BY <3>1
    <3>2. CASE t # s
      BY <1>4, <1>5, <1>7, <3>2
    <3> QED BY <3>1, <3>2
  <2>2. \A q \in Elements(r) : q[2] # Null => Header(h, q[2]) = Header(given.heap, q[1])
    BY <1>1, <1>4, <1>6, <1>7 DEF Doing
  <2> HIDE DEF p
  <2> QED BY <1>1, <1>2, <1>3, <1>6, <2>1, <2>2 DEF Doing, p
<1> QED BY <1>6, <1>7 DEF e, r

\* The block that the innermost call has read is taken over.
LEMMA TopTaken ==
  ASSUME MergeInv, Kinded, outcome = "running", stack # <<>>, NEW w, NEW D,
         Whole(heap, stack, root, next, w, D), Top.d = Len(Src.dirs), Top.subs = <<>>
  PROVE  Taken(heap, w, D \cup {<<w[Top.dst], Top.src>>})
<1> DEFINE n == <<w[Top.dst], Top.src>>
<1>1. /\ Doing(Top, heap, w, D, {}) /\ Top.dst \in CopiedBlocks(heap) /\ Taken(heap, w, D)
  <2>1. Agree(heap, w, w) /\ Extends(heap, heap)
    BY DEF Agree, Extends
  <2> QED BY <2>1, BelowLater
<1>2. /\ Top.src \in Old /\ Src = given.heap[Top.src] /\ given.heap[Top.src].dirs \in Seq(Old)
  BY StackFacts, InputsWhole DEF MergeInv, HeapOk, Src
<1>3. Stands(heap, w, w[Top.dst])
  BY <1>1 DEF Stands
<1>4. \A x \in Entries(given.heap, Top.src) : Holds(heap, w, w[Top.dst], x)
  <2> TAKE x \in Entries(given.heap, Top.src)
  <2>1. PICK d \in Elements(given.heap[Top.src].dirs) : x = Header(given.heap, d)
    BY EntriesFacts
  <2>2. PICK j \in 1..Len(given.heap[Top.src].dirs) : d = given.heap[Top.src].dirs[j]
    BY DEF Elements
  <2>3. j \in 1..Top.d
    BY <1>2, <2>2
  <2>4. x \in Entries(heap, Top.dst)
    BY <1>1, <2>1, <2>2, <2>3 DEF Doing
  <2> QED BY <1>1, <2>4 DEF Holds
<1>5. \A t \in Elements(given.heap[Top.src].subs) :
        <<Append(w[Top.dst], Header(given.heap, t)), t>> \in D
  <2>1. Top.subs # Null
    <3>1. Top.subs \in Seq(Pairs)
      OBVIOUS
    <3> QED BY <3>1, NullNoPairs
  <2>2. Elements(Top.subs) = {}
    BY EmptyLists
  <2> QED BY <1>1, <2>1, <2>2 DEF Doing
<1>6. n[1] = w[Top.dst] /\ n[2] = Top.src
  OBVIOUS
<1> HIDE DEF n
<1>7. ASSUME NEW e \in D \cup {n}
      PROVE  /\ Stands(heap, w, e[1])
             /\ \A x \in Entries(given.heap, e[2]) : Holds(heap, w, e[1], x)
             /\ \A t \in Elements(given.heap[e[2]].subs) :
                  <<Append(e[1], Header(given.heap, t)), t>> \in D \cup {n}
  <2>1. CASE e \in D
    BY <1>1, <2>1 DEF Taken
  <2>2. CASE e = n
    BY <1>3, <1>4, <1>5, <1>6, <2>2
  <2> QED BY <2>1, <2>2
<1> QED BY <1>7 DEF Taken, n

LEMMA ReturnMerged == ASSUME MergeInv, Owning, Kinded, Merged, Return PROVE Merged'
<1>1. stack # <<>> /\ outcome = "running" /\ HeapOk(heap) /\ Top.d = Len(Src.dirs) /\ Top.subs = <<>>
  BY DEF Return, Running, MergeInv
<1>2. PICK w, D : Whole(heap, stack, root, next, w, D)
  BY <1>1 DEF Merged
<1> DEFINE E == D \cup {<<w[Top.dst], Top.src>>}
<1>3. /\ Top \in Frames /\ Below \in Seq(Callers) /\ Top.dst \in New /\ Top.src \in Old
      /\ Below = <<>> => (Top.copy <=> root = Null)
      /\ Elements(stack) = Elements(Below) \cup {Top}
  BY <1>1, TopLast, StackFacts, StackElements, TopFacts DEF MergeInv
<1>4. Taken(heap, w, E)
  BY <1>1, <1>2, TopTaken
<1>5. D \subseteq E /\ <<w[Top.dst], Top.src>> \in E
  OBVIOUS
<1> HIDE DEF E
<1>6. ASSUME NEW g, Extends(heap, g)
      PROVE  /\ CallsDone(Below, next, g, w, E, {Top.src})
             /\ Below # <<>> => /\ Within(Below[Len(Below)], Top, heap, w)
                                /\ Within(Below[Len(Below)], Top, g, w)
             /\ Rooted(g, root, next, w, E) /\ Taken(g, w, E)
  <2>1. Agree(heap, w, w) /\ Rooted(heap, root, next, w, D) /\ Shaped(heap, w)
    BY <1>2 DEF Agree, Whole
  <2> QED BY <1>1, <1>2, <1>4, <1>5, <1>6, <2>1, BelowLater, RootLater, TakenGrows
<1>7. Extends(heap, heap) /\ Shaped(heap, w) /\ Sourced(heap, w)
  BY <1>2 DEF Extends, Whole
<1>8. /\ Top.dst \in CopiedBlocks(heap)
      /\ Below = <<>> => w[Top.dst] = <<>> /\ Top.src = Inputs[next]
  <2>1. Agree(heap, w, w)
    BY DEF Agree
  <2> QED BY <1>1, <1>2, <1>7, <2>1, BelowLater
<1>9. CASE Below = <<>>
  <2>1. /\ stack' = <<>> /\ next' = next + 1
        /\ root' = IF Top.copy THEN Top.dst ELSE root
        /\ UNCHANGED <<heap, zap, broken, given, outcome, clash>>
    BY <1>9 DEF Return
  <2>2. next \in Nat \ {0}
    BY DEF MergeInv
  <2>3. <<<<>>, Inputs[next]>> \in E
    BY <1>5, <1>8, <1>9
  <2>4. \A j \in 1..next : j \in 1..(next - 1) \/ j = next
    BY <2>2
  <2>5. Rooted(heap, root', next', w, E)
    <3>0. (next + 1) - 1 = next
      BY <2>2
    <3>1. CASE Top.copy
      <4>1. next = 1
        BY <1>1, <1>3, <1>9, <3>1 DEF Kinded
      <4>2. \A j \in 1..next : j = next
        BY <4>1
      <4> QED BY <1>8, <1>9, <2>1, <2>3, <3>0, <3>1, <4>2 DEF Rooted
    <3>2. CASE ~Top.copy
      <4>1. root # Null /\ Rooted(heap, root, next, w, E)
        BY <1>3, <1>6, <1>7, <1>9, <3>2
      <4> QED BY <2>1, <2>3, <2>4, <3>0, <3>2, <4>1 DEF Rooted
    <3> QED BY <3>1, <3>2
  <2>6. CallsDone(<<>>, next', heap, w, E, {})
    BY DEF CallsDone
  <2>7. Whole(heap, <<>>, root', next', w, E)
    BY <1>4, <1>7, <2>5, <2>6 DEF Whole
  <2>8. Whole(heap', stack', root', next', w, E)
    BY <2>1, <2>7
  <2> QED BY <1>1, <2>1, <2>8, MergedStep
<1>10. CASE Below # <<>>
  <2> DEFINE caller == Below[Len(Below)]
             rest   == SubSeq(Below, 1, Len(Below) - 1)
             r      == [caller EXCEPT !.subs = RemoveAt(caller.subs, Due(caller.subs))]
  <2>1. /\ caller \in Callers /\ rest \in Seq(Callers) /\ Below = Append(rest, caller)
        /\ caller \in Elements(Below)
    <3>1. \A S : \A x \in Seq(S) : x # <<>> =>
            /\ x[Len(x)] \in S /\ SubSeq(x, 1, Len(x) - 1) \in Seq(S)
            /\ x = Append(SubSeq(x, 1, Len(x) - 1), x[Len(x)])
      OBVIOUS
    <3>2. \A S : \A x \in Seq(S) : x # <<>> => x[Len(x)] \in Elements(x)
      BY DEF Elements
    <3> QED BY <1>3, <1>10, <3>1, <3>2, Zenon
  <2>2. /\ caller \in Frames /\ caller.dst \in New /\ caller.subs \in Seq(Pairs)
        /\ caller.subs # Null
    BY <2>1, CallerFrame, NullNoPairs DEF Callers
  <2>3. caller.dst \in CopiedBlocks(heap)
    <3>1. CallKinded(caller, heap)
      BY <1>3, <2>1 DEF Kinded
    <3> QED BY <2>2, <3>1 DEF CallKinded, CopiedBlocks
  <2>4. \/ /\ ~Top.copy /\ stack' = Below /\ root' = root /\ next' = next
           /\ UNCHANGED <<heap, zap, broken, given, outcome, clash>>
        \/ /\ Top.copy /\ heap' = WithSubblock(heap, caller.dst, Top.dst)
           /\ stack' = Append(rest, r)
           /\ UNCHANGED <<zap, broken, given, root, next, outcome, clash>>
        \/ \E o : Fails(o)
    BY <1>10 DEF Return
  <2>5. /\ r.src = caller.src /\ r.dst = caller.dst /\ r.copy = caller.copy
    <3>1. RemoveAt(caller.subs, Due(caller.subs)) \in Seq(Pairs)
      BY <2>2, DueFacts
    <3> HIDE DEF caller
    <3> QED BY <2>2, <3>1, SameCall
  <2>6. caller = Below[Len(Below)]
    OBVIOUS
  <2>7. r = [caller EXCEPT !.subs = RemoveAt(caller.subs, Due(caller.subs))]
    OBVIOUS
  <2> HIDE DEF caller, rest, r
  <2>8. /\ w[Top.dst] = Append(w[caller.dst], Header(given.heap, Top.src))
        /\ Header(heap, Top.dst) = Header(given.heap, Top.src)
        /\ Top.copy => caller.subs # <<>> /\ caller.subs[Due(caller.subs)][1] = Top.src
    BY <1>6, <1>7, <1>10, <2>6 DEF Within
  <2>9. <<Append(w[caller.dst], Header(given.heap, Top.src)), Top.src>> \in E
    BY <1>5, <2>8
  <2>10. ASSUME NEW g, Extends(heap, g)
         PROVE  /\ CallsDone(Append(rest, caller), next, g, w, E, {})
                /\ Top.copy => CallsDone(Append(rest, r), next, g, w, E, {})
    <3>1. CallsDone(Append(rest, caller), next, g, w, E, {Top.src})
      BY <1>6, <2>1, <2>10
    <3>2. /\ CallsDone(rest, next, g, w, E, {caller.src}) /\ Doing(caller, g, w, E, {Top.src})
          /\ rest = <<>> => w[caller.dst] = <<>> /\ caller.src = Inputs[next]
          /\ rest # <<>> => Within(rest[Len(rest)], caller, g, w)
      BY <2>1, <3>1, CallsSplit
    <3>3. /\ Doing(caller, g, w, E, {})
          /\ Top.copy => Doing(r, g, w, E, {})
      BY <2>1, <2>7, <2>8, <2>9, <3>2, CallerTold
    <3>4. rest # <<>> => Within(rest[Len(rest)], r, g, w)
      BY <2>5, <3>2 DEF Within
    <3>5. CallsDone(Append(rest, caller), next, g, w, E, {})
      BY <2>1, <3>2, <3>3, CallsSplit
    <3>6. Top.copy => CallsDone(Append(rest, r), next, g, w, E, {})
      BY <2>1, <2>5, <3>2, <3>3, <3>4, CallsSplit
    <3> QED BY <3>5, <3>6
  <2>11. CASE /\ ~Top.copy /\ stack' = Below /\ root' = root /\ next' = next
              /\ UNCHANGED <<heap, zap, broken, given, outcome, clash>>
    <3>1. Whole(heap, Below, root, next, w, E)
      BY <1>6, <1>7, <2>1, <2>10 DEF Whole
    <3>2. Whole(heap', stack', root', next', w, E)
      BY <2>11, <3>1
    <3> QED BY <1>1, <2>11, <3>2, MergedStep
  <2>12. CASE /\ Top.copy /\ heap' = WithSubblock(heap, caller.dst, Top.dst)
              /\ stack' = Append(rest, r)
              /\ UNCHANGED <<zap, broken, given, root, next, outcome, clash>>
    <3> DEFINE g == WithSubblock(heap, caller.dst, Top.dst)
    <3>1. w[Top.dst] = Append(w[caller.dst], Header(heap, Top.dst))
      BY <2>8
    <3>2. g = WithSubblock(heap, caller.dst, Top.dst) /\ heap' = g
      BY <2>12
    <3> HIDE DEF g
    <3>3. Shaped(g, w) /\ Sourced(g, w) /\ Extends(heap, g)
      BY <1>1, <1>7, <1>8, <2>3, <3>1, <3>2, BlockListed
    <3>4. Whole(g, Append(rest, r), root, next, w, E)
      BY <1>6, <2>10, <2>12, <3>3 DEF Whole
    <3>5. Whole(heap', stack', root', next', w, E)
      BY <2>12, <3>2, <3>4
    <3> QED BY <1>1, <2>12, <3>5, MergedStep
  <2> QED BY <1>1, <2>4, <2>11, <2>12, StopMerged
<1> QED BY <1>9, <1>10

\* With the rest, it holds in every state.
LEMMA MergedAlways == Spec => [](MergeInv /\ Owning /\ Kinded /\ Merged)
<1>1. Init => Merged
  <2> SUFFICES ASSUME Init PROVE Merged
    OBVIOUS
  <2>1. /\ given \in Forests /\ heap = given.heap /\ root = Null /\ stack = <<>>
        /\ next = 1 /\ outcome = "running"
    BY DEF Init
  <2> DEFINE w == [b \in New |-> <<>>]
  <2>2. w \in [New -> Seq(Headers)]
    OBVIOUS
  <2>3. \A b \in New : heap[b].kind = "none"
    <3>1. \A b \in New : given.heap[b].kind = "none"
      BY DEF New, Old
    <3> QED BY <2>1, <3>1
  <2>4. \A b \in New : Elements(heap[b].dirs) = {} /\ Elements(heap[b].subs) = {}
    <3> TAKE b \in New
    <3>1. heap[b] = NoObject
      <4>1. b \in Addr
        BY DEF New
      <4>2. given.heap[b].kind = "none" => given.heap[b] = NoObject
        BY <2>1, <4>1, ForestAssumption, Zenon
      <4> QED BY <2>1, <2>3, <4>2
    <3>2. NoObject.dirs = <<>> /\ NoObject.subs = <<>>
      BY DEF NoObject
    <3> QED BY <3>1, <3>2, EmptyLists
  <2> HIDE DEF w
  <2>5. Shaped(heap, w) /\ Sourced(heap, w)
    BY <2>2, <2>3, <2>4 DEF Shaped, Sourced, CopiedBlocks
  <2>6. Taken(heap, w, {}) /\ CallsDone(<<>>, 1, heap, w, {}, {}) /\ Rooted(heap, Null, 1, w, {})
    BY DEF Taken, CallsDone, Rooted
  <2>7. Whole(heap, stack, root, next, w, {})
    BY <2>1, <2>5, <2>6 DEF Whole
  <2> QED BY <2>1, <2>7 DEF Merged
<1>2. MergeInv /\ Owning /\ Kinded /\ Merged /\ [Next]_vars => Merged'
  <2> SUFFICES ASSUME MergeInv, Owning, Kinded, Merged, [Next]_vars PROVE Merged'
    OBVIOUS
  <2>1. CASE UNCHANGED vars
    <3>1. UNCHANGED <<heap, given, root, next, stack, outcome>>
      BY <2>1 DEF vars
    <3> QED BY <3>1, MergedStep DEF Merged
  <2> QED BY <2>1, NextInputMerged, MergeDirectiveMerged, MatchSubblocksMerged,
             MergeSubblockMerged, ReturnMerged, FreeMerged DEF Next
<1> QED BY <1>1, <1>2, KindedAlways, PTL DEF Spec

-----------------------------------------------------------------------------
\* What is at some level below a root is live.
LEMMA LevelsLive ==
  ASSUME NEW h, NEW R, Owned(h, R), NEW r \in R, NEW n \in Nat, NEW e \in Levels(h, r)[n]
  PROVE  e[2] \in LiveOf(h)
<1> DEFINE L == Levels(h, r)
           P == {m \in Nat : \A x \in L[m] : x[2] \in LiveOf(h)}
<1>1. L[0] = {<<<<>>, r>>} /\ \A m \in Nat : L[m + 1] = Deeper(h, L[m])
  BY LevelsExist
<1> HIDE DEF L
<1>2. 0 \in P
  <2>1. r \in LiveOf(h)
    BY DEF Owned
  <2> QED BY <1>1, <2>1
<1>3. ASSUME NEW m \in Nat, m \in P PROVE m + 1 \in P
  <2>1. ASSUME NEW x \in L[m + 1] PROVE x[2] \in LiveOf(h)
    <3>0. x \in Deeper(h, L[m])
      BY <1>1, <2>1
    <3>1. PICK y \in L[m] : \E s \in Elements(h[y[2]].subs) : x = <<Append(y[1], Header(h, s)), s>>
      BY <3>0, DeeperFacts
    <3>2. PICK s \in Elements(h[y[2]].subs) : x = <<Append(y[1], Header(h, s)), s>>
      BY <3>1
    <3>3. y[2] \in LiveOf(h)
      BY <1>3, <3>1
    <3>4. h[y[2]].subs \in Seq(LiveOf(h))
      BY <3>3 DEF Owned, Object
    <3>5. s \in LiveOf(h)
      BY <3>4 DEF Elements
    <3> QED BY <3>2, <3>5
  <2> QED BY <2>1
<1> HIDE DEF P
<1>4. Nat \subseteq P
  BY <1>2, <1>3, NatSetInduction
<1> QED BY <1>4 DEF P, L

\* An object is at one level only.
LEMMA LevelOnce ==
  ASSUME NEW h, NEW R, Owned(h, R), NEW r \in R, NEW n \in Nat, NEW m \in Nat,
         NEW e \in Levels(h, r)[n], NEW f \in Levels(h, r)[m], e[2] = f[2]
  PROVE  n = m
<1> DEFINE L == Levels(h, r)
           P == {i \in Nat : \A j \in Nat : \A x \in L[i], y \in L[j] : x[2] = y[2] => i = j}
<1>1. /\ L[0] = {<<<<>>, r>>}
      /\ \A i \in Nat : L[i + 1] = Deeper(h, L[i])
      /\ \A i \in Nat : \A x \in L[i] : x[2] \in LiveOf(h)
  BY LevelsExist, LevelsLive
<1> HIDE DEF L
<1>2. ASSUME NEW i \in Nat, NEW x \in L[i + 1]
      PROVE  \E y \in L[i] : y[2] \in LiveOf(h) /\ x[2] \in Kin(h[y[2]])
  <2>0. x \in Deeper(h, L[i])
    BY <1>1, <1>2
  <2>1. PICK y \in L[i] : \E s \in Elements(h[y[2]].subs) : x = <<Append(y[1], Header(h, s)), s>>
    BY <2>0, DeeperFacts
  <2>2. x[2] \in Elements(h[y[2]].subs)
    BY <2>1
  <2> QED BY <1>1, <2>1, <2>2 DEF Kin
<1>3. ASSUME NEW i \in Nat, NEW x \in L[i + 1] PROVE x[2] # r
  <2>1. \A a \in LiveOf(h) : r \notin Kin(h[a])
    BY DEF Owned
  <2> QED BY <1>2, <1>3, <2>1
<1>4. \A i \in Nat : i = 0 \/ \E k \in Nat : i = k + 1
  <2> TAKE i \in Nat
  <2>1. i # 0 => i - 1 \in Nat /\ i = (i - 1) + 1
    OBVIOUS
  <2> QED BY <2>1
<1>5. \A x \in L[0] : x[2] = r
  BY <1>1
<1>6. 0 \in P
  BY <1>3, <1>4, <1>5
<1>7. ASSUME NEW i \in Nat, i \in P PROVE i + 1 \in P
  <2>1. ASSUME NEW j \in Nat, NEW x \in L[i + 1], NEW y \in L[j], x[2] = y[2] PROVE i + 1 = j
    <3>1. j # 0
      BY <1>3, <1>5, <2>1
    <3>2. PICK k \in Nat : j = k + 1
      BY <1>4, <3>1
    <3>3. PICK u \in L[i] : u[2] \in LiveOf(h) /\ x[2] \in Kin(h[u[2]])
      BY <1>2, <2>1
    <3>4. PICK v \in L[k] : v[2] \in LiveOf(h) /\ y[2] \in Kin(h[v[2]])
      BY <1>2, <2>1, <3>2
    <3>5. u[2] = v[2]
      BY <2>1, <3>3, <3>4 DEF Owned
    <3>6. i = k
      BY <1>7, <3>3, <3>4, <3>5
    <3> QED BY <3>2, <3>6
  <2> QED BY <2>1
<1> HIDE DEF P
<1>8. Nat \subseteq P
  BY <1>6, <1>7, NatSetInduction
<1>9. \A i, j \in Nat : \A x \in L[i], y \in L[j] : x[2] = y[2] => i = j
  BY <1>8 DEF P
<1> QED BY <1>9 DEF L

\* So there are no more levels than addresses.
LEMMA LevelBound ==
  ASSUME NEW h, NEW R, Owned(h, R), NEW r \in R, NEW n \in Nat, Levels(h, r)[n] # {}
  PROVE  n \in 0..Cardinality(Addr)
<1> DEFINE L == Levels(h, r)
           P == {i \in Nat : L[i] # {} => \A j \in 0..i : L[j] # {}}
<1>1. \A i \in Nat : L[i + 1] = Deeper(h, L[i])
  BY LevelsExist
<1>2. /\ \A i \in Nat : \A x \in L[i] : x[2] \in LiveOf(h)
      /\ \A i, j \in Nat : \A x \in L[i], y \in L[j] : x[2] = y[2] => i = j
  BY LevelsLive, LevelOnce
<1>3. L[n] # {}
  OBVIOUS
<1> HIDE DEF L
<1>4. 0 \in P
  OBVIOUS
<1>5. ASSUME NEW i \in Nat, i \in P PROVE i + 1 \in P
  <2>1. ASSUME NEW x \in L[i + 1] PROVE L[i] # {}
    <3>1. x \in Deeper(h, L[i])
      BY <1>1, <2>1
    <3> QED BY <3>1, DeeperFacts
  <2>2. \A j \in 0..(i + 1) : j \in 0..i \/ j = i + 1
    OBVIOUS
  <2> QED BY <1>5, <2>1, <2>2
<1> HIDE DEF P
<1>6. Nat \subseteq P
  BY <1>4, <1>5, NatSetInduction
<1>7. \A j \in 0..n : j \in Nat /\ L[j] # {}
  BY <1>3, <1>6 DEF P
<1> DEFINE at(j) == CHOOSE x \in L[j] : TRUE
           f == [j \in 0..n |-> at(j)[2]]
<1>8. \A j \in 0..n : at(j) \in L[j]
  BY <1>7
<1> HIDE DEF at
<1>9. \A j \in 0..n : f[j] = at(j)[2] /\ at(j)[2] \in Addr
  BY <1>2, <1>7, <1>8 DEF LiveOf
<1>10. f \in [0..n -> Addr]
  BY <1>9
<1>11. \A i, j \in 0..n : f[i] = f[j] => i = j
  BY <1>2, <1>7, <1>8, <1>9
<1> HIDE DEF f
<1>12. f \in Injection(0..n, Addr)
  BY <1>10, <1>11 DEF Injection, IsInjective
<1>13. Cardinality(0..n) <= Cardinality(Addr)
  BY <1>12, FiniteAssumption, FS_Injection
<1>14. Cardinality(0..n) = n + 1 /\ Cardinality(Addr) \in Nat
  <2>1. Cardinality(0..n) = IF 0 > n THEN 0 ELSE n - 0 + 1
    BY FS_Interval
  <2>2. Cardinality(Addr) \in Nat
    BY FiniteAssumption, FS_CardinalityType
  <2> QED BY <2>1, <2>2
<1> QED BY <1>13, <1>14

\* What is below a block that is held, however many lists below.
LEMMA InBlocks ==
  ASSUME Owning, NEW r \in Held, NEW e
  PROVE  e \in BlocksIn(r) <=> \E n \in Nat : e \in Levels(heap, r)[n]
<1>1. Owned(heap, Held) /\ Cardinality(Addr) \in Nat
  BY FiniteAssumption, FS_CardinalityType DEF Owning
<1>2. ASSUME NEW n \in Nat, e \in Levels(heap, r)[n] PROVE e \in BlocksIn(r)
  <2>1. n \in 0..Cardinality(Addr)
    BY <1>1, <1>2, LevelBound
  <2> QED BY <1>2, <2>1 DEF BlocksIn
<1>3. ASSUME e \in BlocksIn(r) PROVE \E n \in Nat : e \in Levels(heap, r)[n]
  <2>1. PICK n \in 0..Cardinality(Addr) : e \in Levels(heap, r)[n]
    BY <1>3 DEF BlocksIn
  <2>2. n \in Nat
    BY <1>1, <2>1
  <2> QED BY <2>1, <2>2
<1> QED BY <1>2, <1>3

\* The inputs are read as they were given.
LEMMA InputLevels ==
  ASSUME MergeInv, NEW r \in Elements(Inputs), NEW n \in Nat
  PROVE  Levels(heap, r)[n] = Levels(given.heap, r)[n]
<1> DEFINE L == Levels(heap, r)
           M == Levels(given.heap, r)
           P == {m \in Nat : L[m] = M[m]}
<1>1. /\ L[0] = {<<<<>>, r>>} /\ \A m \in Nat : L[m + 1] = Deeper(heap, L[m])
      /\ M[0] = {<<<<>>, r>>} /\ \A m \in Nat : M[m + 1] = Deeper(given.heap, M[m])
  BY LevelsExist
<1>2. \A m \in Nat : \A x \in M[m] : x[2] \in Old
  BY LevelsTyped DEF MergeInv
<1>3. \A a \in Old : heap[a] = given.heap[a] /\ given.heap[a].subs \in Seq(Old)
  BY InputsWhole DEF MergeInv, HeapOk
<1> HIDE DEF L, M
<1>4. 0 \in P
  BY <1>1
<1>5. ASSUME NEW m \in Nat, m \in P PROVE m + 1 \in P
  <2>1. L[m] = M[m]
    BY <1>5
  <2>2. ASSUME NEW y \in M[m], NEW s \in Elements(heap[y[2]].subs)
        PROVE  /\ heap[y[2]].subs = given.heap[y[2]].subs
               /\ Header(heap, s) = Header(given.heap, s)
    <3>1. y[2] \in Old
      BY <1>2, <2>2
    <3>2. heap[y[2]] = given.heap[y[2]] /\ given.heap[y[2]].subs \in Seq(Old)
      BY <1>3, <3>1
    <3>3. s \in Elements(given.heap[y[2]].subs)
      BY <2>2, <3>2
    <3>4. s \in Old
      BY <3>2, <3>3 DEF Elements
    <3> QED BY <1>3, <3>2, <3>4 DEF Header
  <2>3. \A y \in M[m] : heap[y[2]].subs = given.heap[y[2]].subs
    BY <1>2, <1>3
  <2>4. Deeper(heap, M[m]) = Deeper(given.heap, M[m])
    <3>1. ASSUME NEW x PROVE x \in Deeper(heap, M[m]) <=> x \in Deeper(given.heap, M[m])
      <4>1. (\E y \in M[m] : \E s \in Elements(heap[y[2]].subs) : x = <<Append(y[1], Header(heap, s)), s>>)
              <=> \E y \in M[m] : \E s \in Elements(given.heap[y[2]].subs) :
                    x = <<Append(y[1], Header(given.heap, s)), s>>
        BY <2>2, <2>3, Zenon
      <4>2. x \in Deeper(heap, M[m]) <=>
              \E y \in M[m] : \E s \in Elements(heap[y[2]].subs) : x = <<Append(y[1], Header(heap, s)), s>>
        BY DeeperFacts
      <4>3. x \in Deeper(given.heap, M[m]) <=>
              \E y \in M[m] : \E s \in Elements(given.heap[y[2]].subs) :
                x = <<Append(y[1], Header(given.heap, s)), s>>
        BY DeeperFacts
      <4> QED BY <4>1, <4>2, <4>3
    <3> QED BY <3>1
  <2>5. L[m + 1] = Deeper(heap, L[m]) /\ M[m + 1] = Deeper(given.heap, M[m])
    BY <1>1
  <2>6. L[m + 1] = M[m + 1]
    BY <2>1, <2>4, <2>5
  <2> QED BY <2>6
<1> HIDE DEF P
<1>6. Nat \subseteq P
  BY <1>4, <1>5, NatSetInduction
<1> QED BY <1>6 DEF P, L, M

\* The blocks of the inputs with their paths, and the directives in them.
LEMMA InInputs ==
  ASSUME MergeInv, Owning
  PROVE  /\ \A e : e \in OfInputs(BlocksIn) <=> e = <<e[1], e[2]>> /\ AtPath(e[1], e[2])
         /\ \A p : p \in OfInputs(PathsIn) <=> \E s : AtPath(p, s)
         /\ \A z : z \in OfInputs(EntriesIn) <=>
              \E p, s : AtPath(p, s) /\ \E x \in Entries(given.heap, s) : z = <<p, x>>
         /\ \A p, s : AtPath(p, s) => EntriesOf(s) = Entries(given.heap, s)
<1>1. ASSUME NEW r \in Elements(Inputs), NEW e
      PROVE  e \in BlocksIn(r) <=> \E n \in Nat : e \in Levels(given.heap, r)[n]
  <2>1. r \in Held
    BY DEF Held
  <2> QED BY <2>1, InBlocks, InputLevels
<1>2. \A e : e \in OfInputs(BlocksIn) <=> \E r \in Elements(Inputs) : e \in BlocksIn(r)
  BY DEF OfInputs
<1>3. ASSUME NEW e PROVE e \in OfInputs(BlocksIn) <=> e = <<e[1], e[2]>> /\ AtPath(e[1], e[2])
  <2>1. ASSUME NEW r \in Elements(Inputs), e \in BlocksIn(r)
        PROVE  e = <<e[1], e[2]>> /\ AtPath(e[1], e[2])
    <3>1. PICK n \in Nat : e \in Levels(given.heap, r)[n]
      BY <1>1, <2>1
    <3>2. e = <<e[1], e[2]>>
      BY <3>1, LevelsTyped DEF MergeInv
    <3> QED BY <3>1, <3>2 DEF AtPath
  <2>2. ASSUME e = <<e[1], e[2]>>, AtPath(e[1], e[2])
        PROVE  \E r \in Elements(Inputs) : e \in BlocksIn(r)
    BY <1>1, <2>2 DEF AtPath
  <2> QED BY <1>2, <2>1, <2>2
<1>4. ASSUME NEW p, NEW s, AtPath(p, s) PROVE EntriesOf(s) = Entries(given.heap, s)
  <2>1. s \in Old
    BY <1>4, AtTyped DEF MergeInv
  <2>2. heap[s] = given.heap[s] /\ given.heap[s].dirs \in Seq(Old)
    BY <2>1, InputsWhole DEF MergeInv, HeapOk
  <2>3. \A d \in Elements(heap[s].dirs) : d \in Old
    BY <2>2 DEF Elements
  <2>4. \A d \in Elements(heap[s].dirs) : Header(heap, d) = Header(given.heap, d)
    BY <2>3 DEF Header, MergeInv, HeapOk
  <2> QED BY <2>2, <2>4 DEF EntriesOf, Entry, Entries
<1>5. ASSUME NEW p PROVE p \in OfInputs(PathsIn) <=> \E s : AtPath(p, s)
  <2>1. p \in OfInputs(PathsIn) <=> \E r \in Elements(Inputs) : p \in PathsIn(r)
    BY DEF OfInputs
  <2>2. p \in OfInputs(PathsIn) <=> \E r \in Elements(Inputs) : \E e \in BlocksIn(r) : p = e[1]
    BY <2>1 DEF PathsIn
  <2>3. p \in OfInputs(PathsIn) <=> \E e \in OfInputs(BlocksIn) : p = e[1]
    BY <1>2, <2>2
  <2>4. \A s : <<p, s>>[1] = p /\ <<p, s>>[2] = s
    OBVIOUS
  <2> QED BY <1>3, <2>3, <2>4
<1>6. ASSUME NEW z
      PROVE  z \in OfInputs(EntriesIn) <=>
               \E p, s : AtPath(p, s) /\ \E x \in Entries(given.heap, s) : z = <<p, x>>
  <2>1. z \in OfInputs(EntriesIn) <=> \E r \in Elements(Inputs) : z \in EntriesIn(r)
    BY DEF OfInputs
  <2>2. \A r : z \in EntriesIn(r) <=> \E e \in BlocksIn(r) : \E x \in EntriesOf(e[2]) : z = <<e[1], x>>
    BY DEF EntriesIn
  <2>3. z \in OfInputs(EntriesIn) <=>
          \E e \in OfInputs(BlocksIn) : \E x \in EntriesOf(e[2]) : z = <<e[1], x>>
    BY <1>2, <2>1, <2>2
  <2>4. ASSUME NEW e \in OfInputs(BlocksIn), NEW x \in EntriesOf(e[2]), z = <<e[1], x>>
        PROVE  \E p, s : AtPath(p, s) /\ \E y \in Entries(given.heap, s) : z = <<p, y>>
    BY <1>3, <1>4, <2>4
  <2>5. ASSUME NEW p, NEW s, AtPath(p, s), NEW x \in Entries(given.heap, s), z = <<p, x>>
        PROVE  \E e \in OfInputs(BlocksIn) : \E y \in EntriesOf(e[2]) : z = <<e[1], y>>
    <3> DEFINE e == <<p, s>>
    <3>1. e[1] = p /\ e[2] = s /\ e = <<e[1], e[2]>>
      OBVIOUS
    <3> HIDE DEF e
    <3>2. e \in OfInputs(BlocksIn)
      BY <1>3, <2>5, <3>1
    <3>3. x \in EntriesOf(e[2])
      BY <1>4, <2>5, <3>1
    <3> QED BY <2>5, <3>1, <3>2, <3>3
  <2> QED BY <2>3, <2>4, <2>5
<1> QED BY <1>3, <1>4, <1>5, <1>6

\* Every block of the inputs has been taken over.
LEMMA AllTaken ==
  ASSUME MergeInv, root # Null, next > Len(Inputs), NEW w, NEW D,
         Taken(heap, w, D), Rooted(heap, root, next, w, D), NEW p, NEW s, AtPath(p, s)
  PROVE  <<p, s>> \in D
<1>1. PICK r \in Elements(Inputs) : \E n \in Nat : <<p, s>> \in Levels(given.heap, r)[n]
  BY DEF AtPath
<1>2. PICK n \in Nat : <<p, s>> \in Levels(given.heap, r)[n]
  BY <1>1
<1> DEFINE L == Levels(given.heap, r)
           P == {m \in Nat : L[m] \subseteq D}
<1>3. L[0] = {<<<<>>, r>>} /\ \A m \in Nat : L[m + 1] = Deeper(given.heap, L[m])
  BY LevelsExist
<1>4. <<p, s>> \in L[n]
  BY <1>2
<1> HIDE DEF L
<1>5. 0 \in P
  <2>1. PICK j \in 1..Len(Inputs) : r = Inputs[j]
    BY DEF Elements
  <2>2. next \in Nat /\ Len(Inputs) \in Nat
    BY InputsWhole DEF MergeInv
  <2>3. j \in 1..(next - 1)
    BY <2>1, <2>2
  <2>4. <<<<>>, r>> \in D
    BY <2>1, <2>3 DEF Rooted
  <2> QED BY <1>3, <2>4
<1>6. ASSUME NEW m \in Nat, m \in P PROVE m + 1 \in P
  <2>1. ASSUME NEW x \in L[m + 1] PROVE x \in D
    <3>1. x \in Deeper(given.heap, L[m])
      BY <1>3, <2>1
    <3>2. PICK y \in L[m] : \E t \in Elements(given.heap[y[2]].subs) :
            x = <<Append(y[1], Header(given.heap, t)), t>>
      BY <3>1, DeeperFacts
    <3>3. y \in D
      BY <1>6, <3>2
    <3> QED BY <3>2, <3>3 DEF Taken
  <2> QED BY <2>1
<1> HIDE DEF P
<1>7. Nat \subseteq P
  BY <1>5, <1>6, NatSetInduction
<1> QED BY <1>4, <1>7 DEF P

\* Who lists a copied block that is not the merged one.
LEMMA CopyListed ==
  ASSUME MergeInv, Owning, stack = <<>>, root # Null, NEW w, Shaped(heap, w),
         NEW b \in CopiedBlocks(heap), b # root
  PROVE  \E c \in CopiedBlocks(heap) :
           /\ b \in Elements(heap[c].subs) /\ w[b] = Append(w[c], Header(heap, b))
<1>1. /\ b \in New /\ b \in Addr /\ b \notin Old /\ heap[b].kind = "block"
      /\ given \in Forests /\ HeapOk(heap)
  BY DEF CopiedBlocks, New, MergeInv
<1>2. b \notin Held
  <2>1. Copies(stack) = {}
    BY DEF Copies
  <2>2. zap = {}
    BY DEF Owning
  <2>3. Inputs \in Seq(Old)
    BY <1>1, InputsWhole
  <2>4. b \notin Elements(Inputs)
    BY <1>1, <2>3 DEF Elements
  <2> QED BY <2>1, <2>2, <2>4 DEF Held
<1>3. PICK c \in LiveOf(heap) : b \in Kin(heap[c])
  <2>1. b \in LiveOf(heap)
    BY <1>1 DEF LiveOf
  <2> QED BY <1>2, <2>1 DEF Owning, Owned
<1>4. c \in New
  <2>1. ASSUME c \in Old PROVE FALSE
    <3>1. heap[c] = given.heap[c] /\ given.heap[c].dirs \in Seq(Old) /\ given.heap[c].subs \in Seq(Old)
      BY <1>1, <2>1, InputsWhole DEF HeapOk
    <3>2. \A x \in Kin(heap[c]) : x \in Old
      BY <3>1 DEF Kin, Elements
    <3> QED BY <1>1, <1>3, <3>2
  <2> QED BY <1>3, <2>1 DEF LiveOf, New
<1>5. b \in Elements(heap[c].subs)
  <2>1. b \notin Elements(heap[c].dirs)
    BY <1>1, <1>4 DEF Shaped
  <2> QED BY <1>3, <2>1 DEF Kin
<1>6. heap[c].kind = "block" /\ w[b] = Append(w[c], Header(heap, b))
  BY <1>4, <1>5 DEF Shaped
<1> QED BY <1>4, <1>5, <1>6 DEF CopiedBlocks

\* The merged block has all copied blocks below it, each at its path.
LEMMA ResultBlocks ==
  ASSUME MergeInv, Owning, stack = <<>>, root # Null, NEW w, NEW i, NEW D,
         Shaped(heap, w), Rooted(heap, root, i, w, D), NEW e
  PROVE  e \in BlocksIn(root) <=> \E b \in CopiedBlocks(heap) : e = <<w[b], b>>
<1> DEFINE L == Levels(heap, root)
           P == {m \in Nat : \A x \in L[m] : \E b \in CopiedBlocks(heap) : x = <<w[b], b>>}
           Q == {m \in Nat : \A b \in CopiedBlocks(heap) : Len(w[b]) = m => <<w[b], b>> \in L[m]}
<1>1. L[0] = {<<<<>>, root>>} /\ \A m \in Nat : L[m + 1] = Deeper(heap, L[m])
  BY LevelsExist
<1>2. root \in CopiedBlocks(heap) /\ w[root] = <<>> /\ HeapOk(heap)
  BY DEF Rooted, MergeInv
<1>3. \A n \in Nat : L[n] = Levels(heap, root)[n]
  OBVIOUS
<1> HIDE DEF L
<1>4. \A b \in CopiedBlocks(heap) : b \in New /\ w[b] \in Seq(Headers)
  BY DEF CopiedBlocks, Shaped
<1>5. 0 \in P
  BY <1>1, <1>2
<1>6. ASSUME NEW m \in Nat, m \in P PROVE m + 1 \in P
  <2>1. ASSUME NEW x \in L[m + 1] PROVE \E b \in CopiedBlocks(heap) : x = <<w[b], b>>
    <3>1. x \in Deeper(heap, L[m])
      BY <1>1, <2>1
    <3>2. PICK y \in L[m] : \E t \in Elements(heap[y[2]].subs) : x = <<Append(y[1], Header(heap, t)), t>>
      BY <3>1, DeeperFacts
    <3>3. PICK t \in Elements(heap[y[2]].subs) : x = <<Append(y[1], Header(heap, t)), t>>
      BY <3>2
    <3>4. PICK c \in CopiedBlocks(heap) : y = <<w[c], c>>
      BY <1>6, <3>2
    <3>5. y[1] = w[c] /\ y[2] = c
      BY <3>4
    <3>6. c \in New /\ t \in Elements(heap[c].subs)
      BY <1>4, <3>3, <3>5
    <3>7. heap[t].kind = "block" /\ w[t] = Append(w[c], Header(heap, t))
      BY <3>6 DEF Shaped
    <3>8. t \in New
      BY <1>2, <3>6, CopiesList
    <3>9. t \in CopiedBlocks(heap)
      BY <3>7, <3>8 DEF CopiedBlocks
    <3> QED BY <3>3, <3>5, <3>7, <3>9
  <2> QED BY <2>1
<1>7. ASSUME NEW m \in Nat, NEW b \in CopiedBlocks(heap), Len(w[b]) = m, b # root
      PROVE  \E c \in CopiedBlocks(heap) :
               /\ b \in Elements(heap[c].subs) /\ w[b] = Append(w[c], Header(heap, b))
               /\ m # 0 /\ Len(w[c]) = m - 1
  <2>1. PICK c \in CopiedBlocks(heap) :
          b \in Elements(heap[c].subs) /\ w[b] = Append(w[c], Header(heap, b))
    BY <1>7, CopyListed
  <2>2. \A S : \A s \in Seq(S) : \A x : Len(Append(s, x)) = Len(s) + 1 /\ Len(s) \in Nat
    OBVIOUS
  <2>3. Len(w[b]) = Len(w[c]) + 1 /\ Len(w[c]) \in Nat
    BY <1>4, <2>1, <2>2
  <2> QED BY <1>7, <2>1, <2>3
<1>8. 0 \in Q
  <2>1. \A b \in CopiedBlocks(heap) : Len(w[b]) = 0 => b = root
    BY <1>7
  <2> QED BY <1>1, <1>2, <2>1
<1>9. ASSUME NEW m \in Nat, m \in Q PROVE m + 1 \in Q
  <2>1. ASSUME NEW b \in CopiedBlocks(heap), Len(w[b]) = m + 1 PROVE <<w[b], b>> \in L[m + 1]
    <3>1. b # root
      <4>1. Len(<<>>) = 0
        OBVIOUS
      <4> QED BY <1>2, <2>1, <4>1
    <3>2. PICK c \in CopiedBlocks(heap) :
            /\ b \in Elements(heap[c].subs) /\ w[b] = Append(w[c], Header(heap, b))
            /\ Len(w[c]) = (m + 1) - 1
      BY <1>7, <2>1, <3>1
    <3>3. <<w[c], c>> \in L[m]
      BY <1>9, <3>2
    <3> DEFINE y == <<w[c], c>>
    <3>4. y[1] = w[c] /\ y[2] = c /\ y \in L[m]
      BY <3>3
    <3> HIDE DEF y
    <3>5. \E s \in Elements(heap[y[2]].subs) : <<w[b], b>> = <<Append(y[1], Header(heap, s)), s>>
      BY <3>2, <3>4
    <3>6. <<w[b], b>> \in Deeper(heap, L[m])
      BY <3>4, <3>5, DeeperFacts
    <3> QED BY <1>1, <3>6
  <2> QED BY <2>1
<1> HIDE DEF P, Q
<1>10. Nat \subseteq P
  BY <1>5, <1>6, NatSetInduction
<1>11. Nat \subseteq Q
  BY <1>8, <1>9, NatSetInduction
<1>12. e \in BlocksIn(root) <=> \E n \in Nat : e \in L[n]
  <2>1. root \in Held
    BY DEF Held
  <2> QED BY <1>3, <2>1, InBlocks
<1>13. ASSUME NEW b \in CopiedBlocks(heap) PROVE \E n \in Nat : <<w[b], b>> \in L[n]
  <2>1. Len(w[b]) \in Nat
    BY <1>4
  <2> QED BY <1>11, <2>1 DEF Q
<1> QED BY <1>10, <1>12, <1>13 DEF P

\* What a finished merge is, for the paths and the entries of the copies.
LEMMA ResultFacts ==
  ASSUME MergeInv, Owning, Merged, outcome = "ok"
  PROVE  \E w :
           /\ \A e : e \in BlocksIn(root) <=> \E b \in CopiedBlocks(heap) : e = <<w[b], b>>
           /\ Sourced(heap, w)
           /\ \A p, s : AtPath(p, s) => /\ Stands(heap, w, p)
                                        /\ \A x \in Entries(given.heap, s) : Holds(heap, w, p, x)
<1>1. /\ root # Null /\ next > Len(Inputs) /\ stack = <<>>
      /\ \E w, D : Whole(heap, stack, root, next, w, D)
  BY DEF Merged
<1>2. PICK w, D : Whole(heap, stack, root, next, w, D)
  BY <1>1
<1>3. Shaped(heap, w) /\ Sourced(heap, w) /\ Taken(heap, w, D) /\ Rooted(heap, root, next, w, D)
  BY <1>2 DEF Whole
<1>4. \A e : e \in BlocksIn(root) <=> \E b \in CopiedBlocks(heap) : e = <<w[b], b>>
  BY <1>1, <1>3, ResultBlocks
<1>5. ASSUME NEW p, NEW s, AtPath(p, s)
      PROVE  Stands(heap, w, p) /\ \A x \in Entries(given.heap, s) : Holds(heap, w, p, x)
  <2>1. <<p, s>> \in D
    BY <1>1, <1>3, <1>5, AllTaken
  <2> DEFINE e == <<p, s>>
  <2>2. e[1] = p /\ e[2] = s /\ e \in D
    BY <2>1
  <2> HIDE DEF e
  <2> QED BY <1>3, <2>2 DEF Taken
<1> QED BY <1>3, <1>4, <1>5

\* A finished merge is the union of its inputs.
LEMMA ResultUnion == ASSUME MergeInv, Owning, Merged PROVE MergeIsUnion
<1> SUFFICES ASSUME outcome = "ok"
             PROVE  /\ PathsIn(root) = OfInputs(PathsIn)
                    /\ EntriesIn(root) = OfInputs(EntriesIn)
  BY DEF MergeIsUnion
<1>1. PICK w : /\ \A e : e \in BlocksIn(root) <=> \E b \in CopiedBlocks(heap) : e = <<w[b], b>>
               /\ Sourced(heap, w)
               /\ \A p, s : AtPath(p, s) =>
                    /\ Stands(heap, w, p)
                    /\ \A x \in Entries(given.heap, s) : Holds(heap, w, p, x)
  BY ResultFacts
<1>2. ASSUME NEW p PROVE p \in PathsIn(root) <=> p \in OfInputs(PathsIn)
  <2>1. p \in PathsIn(root) <=> \E e \in BlocksIn(root) : p = e[1]
    BY DEF PathsIn
  <2>2. p \in PathsIn(root) <=> \E b \in CopiedBlocks(heap) : p = w[b]
    <3>1. ASSUME NEW e \in BlocksIn(root) PROVE \E b \in CopiedBlocks(heap) : e[1] = w[b]
      BY <1>1, <3>1
    <3>2. ASSUME NEW b \in CopiedBlocks(heap) PROVE \E e \in BlocksIn(root) : e[1] = w[b]
      <4>1. <<w[b], b>> \in BlocksIn(root) /\ <<w[b], b>>[1] = w[b]
        BY <1>1
      <4> QED BY <4>1
    <3> QED BY <2>1, <3>1, <3>2
  <2>3. p \in OfInputs(PathsIn) <=> \E s : AtPath(p, s)
    BY InInputs
  <2>4. \A b \in CopiedBlocks(heap) : \E s : AtPath(w[b], s)
    BY <1>1 DEF Sourced, Stems
  <2> QED BY <1>1, <2>2, <2>3, <2>4 DEF Stands
<1>3. ASSUME NEW z PROVE z \in EntriesIn(root) <=> z \in OfInputs(EntriesIn)
  <2>1. z \in EntriesIn(root) <=> \E e \in BlocksIn(root) : \E x \in EntriesOf(e[2]) : z = <<e[1], x>>
    BY DEF EntriesIn
  <2>2. \A b : EntriesOf(b) = Entries(heap, b)
    BY DEF EntriesOf, Entries, Entry
  <2>3. z \in EntriesIn(root) <=>
          \E b \in CopiedBlocks(heap) : \E x \in Entries(heap, b) : z = <<w[b], x>>
    <3>1. ASSUME NEW e \in BlocksIn(root)
          PROVE  \E b \in CopiedBlocks(heap) : e[1] = w[b] /\ EntriesOf(e[2]) = Entries(heap, b)
      <4>1. PICK b \in CopiedBlocks(heap) : e = <<w[b], b>>
        BY <1>1, <3>1
      <4>2. e[1] = w[b] /\ e[2] = b
        BY <4>1
      <4> QED BY <2>2, <4>2
    <3>2. ASSUME NEW b \in CopiedBlocks(heap)
          PROVE  \E e \in BlocksIn(root) : e[1] = w[b] /\ EntriesOf(e[2]) = Entries(heap, b)
      <4>1. <<w[b], b>> \in BlocksIn(root) /\ <<w[b], b>>[1] = w[b] /\ <<w[b], b>>[2] = b
        BY <1>1
      <4> QED BY <2>2, <4>1
    <3>3. ASSUME NEW e \in BlocksIn(root), NEW x \in EntriesOf(e[2]), z = <<e[1], x>>
          PROVE  \E b \in CopiedBlocks(heap) : \E y \in Entries(heap, b) : z = <<w[b], y>>
      BY <3>1, <3>3
    <3>4. ASSUME NEW b \in CopiedBlocks(heap), NEW x \in Entries(heap, b), z = <<w[b], x>>
          PROVE  \E e \in BlocksIn(root) : \E y \in EntriesOf(e[2]) : z = <<e[1], y>>
      BY <3>2, <3>4
    <3> QED BY <2>1, <3>3, <3>4
  <2>4. z \in OfInputs(EntriesIn) <=>
          \E p, s : AtPath(p, s) /\ \E x \in Entries(given.heap, s) : z = <<p, x>>
    BY InInputs
  <2>5. ASSUME NEW b \in CopiedBlocks(heap), NEW x \in Entries(heap, b)
        PROVE  \E s : AtPath(w[b], s) /\ x \in Entries(given.heap, s)
    <3>1. PICK d \in Elements(heap[b].dirs) : x = Header(heap, d)
      BY <2>5, EntriesFacts
    <3>2. Stems(heap, b, w[b])
      BY <1>1 DEF Sourced
    <3> QED BY <3>1, <3>2 DEF Stems
  <2>6. \A p, s : AtPath(p, s) => \A x \in Entries(given.heap, s) :
          \E b \in CopiedBlocks(heap) : w[b] = p /\ x \in Entries(heap, b)
    BY <1>1 DEF Holds
  <2> QED BY <2>3, <2>4, <2>5, <2>6
<1> QED BY <1>2, <1>3

\* The directives of one name in a block of the result come from one block.
LEMMA ResultDoubles == ASSUME MergeInv, Owning, Merged PROVE SameNameOnlyInherited
<1> SUFFICES ASSUME outcome = "ok", NEW e \in BlocksIn(root)
             PROVE  \E y \in OfInputs(BlocksIn) :
                      /\ y[1] = e[1]
                      /\ \A j, k \in 1..Len(heap[e[2]].dirs) :
                           j < k /\ heap[heap[e[2]].dirs[j]].name = heap[heap[e[2]].dirs[k]].name =>
                             /\ k <= Len(heap[y[2]].dirs)
                             /\ Entry(heap[y[2]].dirs[j]) = Entry(heap[e[2]].dirs[j])
                             /\ Entry(heap[y[2]].dirs[k]) = Entry(heap[e[2]].dirs[k])
  BY DEF SameNameOnlyInherited
<1>1. PICK w : /\ \A x : x \in BlocksIn(root) <=> \E b \in CopiedBlocks(heap) : x = <<w[b], b>>
               /\ Sourced(heap, w)
  BY ResultFacts
<1>2. PICK b \in CopiedBlocks(heap) : e = <<w[b], b>>
  BY <1>1
<1>3. e[1] = w[b] /\ e[2] = b /\ Grown(heap, b, w[b])
  BY <1>1, <1>2 DEF Sourced, Stems
<1>4. PICK s : \E m \in Nat : AtPath(w[b], s) /\ Begun(heap, b, s, m) /\ NewNames(heap, b, m)
  BY <1>3 DEF Grown
<1>5. PICK m \in Nat : AtPath(w[b], s) /\ Begun(heap, b, s, m) /\ NewNames(heap, b, m)
  BY <1>4
<1> DEFINE f == <<w[b], s>>
<1>6. f[1] = w[b] /\ f[2] = s /\ f = <<f[1], f[2]>>
  OBVIOUS
<1> HIDE DEF f
<1>7. f \in OfInputs(BlocksIn)
  BY <1>5, <1>6, InInputs
<1>8. /\ heap[s].dirs = given.heap[s].dirs /\ given.heap[s].dirs \in Seq(Old)
      /\ \A d \in Old : Entry(d) = Header(given.heap, d)
  <2>1. given \in Forests /\ HeapOk(heap) /\ s \in Old
    BY <1>5, AtTyped DEF MergeInv
  <2> QED BY <2>1, InputsWhole DEF HeapOk, Entry, Header
<1>9. ASSUME NEW j \in 1..Len(heap[b].dirs), NEW k \in 1..Len(heap[b].dirs), j < k,
             heap[heap[b].dirs[j]].name = heap[heap[b].dirs[k]].name
      PROVE  /\ k <= Len(given.heap[s].dirs)
             /\ Entry(given.heap[s].dirs[j]) = Entry(heap[b].dirs[j])
             /\ Entry(given.heap[s].dirs[k]) = Entry(heap[b].dirs[k])
  <2>1. k <= m
    BY <1>5, <1>9 DEF NewNames
  <2>2. j \in 1..m /\ k \in 1..m
    BY <1>9, <2>1
  <2>3. /\ k <= Len(given.heap[s].dirs) /\ j <= Len(given.heap[s].dirs)
        /\ Header(heap, heap[b].dirs[j]) = Header(given.heap, given.heap[s].dirs[j])
        /\ Header(heap, heap[b].dirs[k]) = Header(given.heap, given.heap[s].dirs[k])
    BY <1>5, <2>2 DEF Begun
  <2>4. given.heap[s].dirs[j] \in Old /\ given.heap[s].dirs[k] \in Old
    BY <1>8, <2>2, <2>3
  <2> QED BY <1>8, <2>3, <2>4 DEF Entry
<1> QED BY <1>3, <1>6, <1>7, <1>8, <1>9

\* When the answer is "duplicate", two inputs do disagree.
LEMMA ResultConflict == ASSUME MergeInv, Owning, Merged PROVE ConflictIsReal
<1> SUFFICES ASSUME outcome = "duplicate"
             PROVE  \E x, y \in OfInputs(EntriesIn) :
                      x[1] = y[1] /\ x[2][1] = y[2][1] /\ x[2][2] # y[2][2]
  BY DEF ConflictIsReal
<1>1. PICK p, s, t : /\ AtPath(p, s) /\ AtPath(p, t)
                     /\ \E x \in Entries(given.heap, s), y \in Entries(given.heap, t) :
                          x[1] = y[1] /\ x[2] # y[2]
  BY DEF Merged, Disagreement
<1>2. PICK x \in Entries(given.heap, s), y \in Entries(given.heap, t) : x[1] = y[1] /\ x[2] # y[2]
  BY <1>1
<1> DEFINE u == <<p, x>>
           v == <<p, y>>
<1>3. u \in OfInputs(EntriesIn) /\ v \in OfInputs(EntriesIn)
  BY <1>1, <1>2, InInputs
<1>4. u[1] = p /\ v[1] = p /\ u[2] = x /\ v[2] = y
  OBVIOUS
<1> HIDE DEF u, v
<1> QED BY <1>2, <1>3, <1>4

\* config_merge_n returns the union of its inputs (configfile_merge.c): what it built
\* has a block at every path where an input has one, with every directive that an
\* input has there, and has no other block or directive.
THEOREM MergesAsUnion == Spec => []MergeIsUnion
BY MergedAlways, ResultUnion, PTL

\* merge_into never adds a directive next to one of the same name, not even the
\* same one again: where a block of the result has several of one name, one block of
\* one input has them at the same places.
THEOREM DoublesInherited == Spec => []SameNameOnlyInherited
BY MergedAlways, ResultDoubles, PTL

\* merge_into answers that a directive is a duplicate only if at one path the inputs
\* have directives with its name and different arguments.
THEOREM ConflictsReal == Spec => []ConflictIsReal
BY MergedAlways, ResultConflict, PTL
=============================================================================
