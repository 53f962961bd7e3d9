-------------------------------- MODULE Merge --------------------------------
(***************************************************************************)
(* config_merge and config_merge_n: the first input is copied, the others  *)
(* are merged into the copy one after the other.  merge_into and           *)
(* config_block_copy call themselves and each other, so the state has a    *)
(* stack of their calls; one step handles one directive or one subblock.   *)
(* Copying a block is merging it into a new one without looking for        *)
(* anything that is there already.                                         *)
(***************************************************************************)
EXTENDS ConfigTree, SequencesExt

CONSTANTS Forests     \* the inputs to start from: a heap and the main blocks in it

\* There are finitely many addresses.
ASSUME FiniteAssumption == IsFiniteSet(Addr)

\* What is on a heap is whole: a block lists directives and blocks that are there,
\* directives list nothing, each object is listed once or is a root, a block, and
\* there is nothing else.
ASSUME ForestAssumption ==
  \A F \in Forests :
    /\ F.heap = [a \in Addr |-> F.heap[a]]
    /\ \A a \in Addr : LET o == F.heap[a] IN
         /\ o = [kind |-> o.kind, name |-> o.name, args |-> o.args,
                 dirs |-> o.dirs, subs |-> o.subs]
         /\ o.kind \in {"none", "block", "directive"} /\ (o.kind = "none" => o = NoObject)
         /\ o.dirs \in Seq(Addr) /\ o.subs \in Seq(Addr) /\ o.args \in Seq(Elements(o.args))
         /\ \A d \in Elements(o.dirs) :
              F.heap[d].kind = "directive" /\ F.heap[d].dirs = <<>> /\ F.heap[d].subs = <<>>
         /\ \A b \in Elements(o.subs) : F.heap[b].kind = "block"
         /\ IsInjective(o.dirs) /\ IsInjective(o.subs)
         /\ Elements(o.dirs) \cap Elements(o.subs) = {}
    /\ F.roots \in Seq(Addr) \ {<<>>} /\ IsInjective(F.roots)
    /\ \A r \in Elements(F.roots) : F.heap[r].kind = "block"
    /\ LET listed(a) == Elements(F.heap[a].dirs) \cup Elements(F.heap[a].subs) IN
         /\ \A a, b \in Addr : a # b => listed(a) \cap listed(b) = {}
         /\ \A a \in Addr : listed(a) \cap Elements(F.roots) = {}
         /\ \A a \in Addr : \/ F.heap[a].kind = "none" \/ a \in Elements(F.roots)
                            \/ \E b \in Addr : a \in listed(b)

\* NULL is no list of subblocks, not even an empty one.
ASSUME PairsAssumption == Null \notin Seq(Addr \X (Addr \cup {Null}))

VARIABLES given,      \* ghost: the forest the run began with
          root,       \* the merged block, once it is a whole copy of the first
          next,       \* the input to merge next
          stack,      \* the calls under way, innermost last
          outcome,    \* "running", "ok", "duplicate" or "oom"
          clash       \* ghost: the block and the directive that conflict

vars == <<heap, zap, broken, given, root, next, stack, outcome, clash>>

Inputs == given.roots

\* Mutated Call: the block read is merged into.
CallSwapped(copy, src, dst) ==
  [copy |-> copy, src |-> IF copy THEN src ELSE dst, dst |-> IF copy THEN dst ELSE src,
   d |-> 0, subs |-> Null]

\* A call: dst is the block built or merged into, src the block read; d counts
\* its directives done, subs lists the subblocks to do, each with its match.
Call(copy, src, dst) == [copy |-> copy, src |-> src, dst |-> dst, d |-> 0, subs |-> Null]
Top   == stack[Len(stack)]
Below == SubSeq(stack, 1, Len(stack) - 1)
Src   == heap[Top.src]
Dst   == heap[Top.dst]

Init == /\ given \in Forests
        /\ heap = given.heap /\ zap = {} /\ broken = "no"
        /\ root = Null /\ next = 1 /\ stack = <<>>
        /\ outcome = "running" /\ clash = Null

Running == outcome = "running" /\ broken = "no"

\* Mutated Abort: the callers forget their copies.
AbortLeaky(reason) ==
  /\ zap' = {root} \ {Null}
  /\ outcome' = reason /\ stack' = <<>> /\ root' = Null
  /\ UNCHANGED <<heap, broken, given, next>>

\* The copies under way are freed by their callers and the merged block by
\* config_merge_n, and NULL is returned.
Abort(reason) ==
  /\ zap' = {stack[k].dst : k \in {j \in 1..Len(stack) : stack[j].copy}}
              \cup ({root} \ {Null})
  /\ outcome' = reason /\ stack' = <<>> /\ root' = Null
  /\ UNCHANGED <<heap, broken, given, next>>
Crash(how) == /\ broken' = how
              /\ UNCHANGED <<heap, zap, given, root, next, stack, outcome, clash>>
Fails(o) == \/ o = "fail" /\ Abort("oom") /\ UNCHANGED clash
            \/ o = "crash" /\ Crash("NULL list")

\* What an allocation may come to, "ok" only if there is an address left.
Outcomes(os) == os \ (IF Unused = {} THEN {"ok"} ELSE {})

\* config_block_copy's first half: the block with its name and arguments.
BeginCopy(b) ==
  \E o \in Outcomes(Build(heap[b].args)) :
    \/ /\ o = "ok"
       /\ heap' = [heap EXCEPT ![Malloc] = Block(heap[b].name, heap[b].args)]
       /\ stack' = Append(stack, Call(TRUE, b, Malloc))
       /\ UNCHANGED <<zap, broken, given, root, next, outcome, clash>>
    \/ Fails(o)

\* config_merge_n takes the next input, or is done.
NextInput ==
  /\ Running /\ stack = <<>>
  /\ \/ next = 1 /\ root = Null /\ BeginCopy(Inputs[1])
     \/ /\ root # Null /\ next <= Len(Inputs)
        /\ stack' = <<Call(FALSE, Inputs[next], root)>>
        /\ UNCHANGED <<heap, zap, broken, given, root, next, outcome, clash>>
     \/ /\ root # Null /\ next > Len(Inputs)
        /\ outcome' = "ok"
        /\ UNCHANGED <<heap, zap, broken, given, root, next, stack, clash>>

\* strcmp on arguments: the first pair that differs, or has a NULL, decides.
CompareArgs(a, b) ==
  LET stops == {k \in 1..Len(a) : a[k] # b[k] \/ a[k] = Null}
      k     == CHOOSE k \in stops : \A j \in stops : k <= j IN
    CASE Len(a) # Len(b)               -> "partial"
      [] Len(a) = Len(b) /\ stops = {} -> "equal"
      [] OTHER                         -> IF Null \in {a[k], b[k]} THEN "crash" ELSE "partial"

\* The first directive of the block merged into that has the name of dir_other.
SameName(dir) == {j \in 1..Len(Dst.dirs) : heap[Dst.dirs[j]].name = heap[dir].name}
First(S)      == CHOOSE j \in S : \A k \in S : j <= k

\* Mutated Present: the name decides.
PresentByName(dir) == IF Top.copy \/ SameName(dir) = {} THEN "absent" ELSE "equal"
\* Mutated Present: an exact match is added all the same.
PresentTwice(dir) ==
  IF Top.copy \/ SameName(dir) = {} THEN "absent"
  ELSE LET found == CompareArgs(heap[Dst.dirs[First(SameName(dir))]].args, heap[dir].args)
       IN  IF found = "equal" THEN "absent" ELSE found

\* directive_equals against the directives present, as far as the loop goes.
Present(dir) ==
  IF Top.copy \/ SameName(dir) = {} THEN "absent"
  ELSE CompareArgs(heap[Dst.dirs[First(SameName(dir))]].args, heap[dir].args)

\* Mutated Advance: a directive is skipped, or the loop stays where it is.
AdvanceTwice == stack' = Append(Below, [Top EXCEPT !.d = @ + 2])
AdvanceNever == stack' = stack

Advance == stack' = Append(Below, [Top EXCEPT !.d = @ + 1])

\* One directive of the block read: an exact match stays once, another with its
\* name is an error, a new one is copied and added.
MergeDirective ==
  /\ Running /\ stack # <<>> /\ Top.d < Len(Src.dirs)
  /\ LET dir == Src.dirs[Top.d + 1] IN
       \/ /\ Present(dir) = "absent"
          /\ \E o \in Outcomes(Build(heap[dir].args) \cup Grow(Dst.dirs)) :
               \/ /\ o = "ok" /\ Advance
                  /\ heap' = WithDirective([heap EXCEPT ![Malloc] = heap[dir]],
                                           Top.dst, Malloc)
                  /\ UNCHANGED <<zap, broken, given, root, next, outcome, clash>>
               \/ Fails(o)
       \/ /\ Present(dir) = "equal" /\ Advance
          /\ UNCHANGED <<heap, zap, broken, given, root, next, outcome, clash>>
       \/ /\ Present(dir) = "partial" /\ Abort("duplicate")
          /\ clash' = <<Top.dst, dir>>
       \/ Present(dir) = "crash" /\ Crash("NULL argument")

\* block_equals: NULL arguments are compared too, whatever differs before them.
Comparable(a, b) == a.name = b.name /\ Len(a.args) = Len(b.args)
BlockEquals(a, b) == a.name = b.name /\ a.args = b.args
NullCompared(a, b) == Comparable(a, b) /\ Null \in Elements(a.args \o b.args)

\* The subblocks of the block merged into that s is compared with: up to its match.
Compared(s) == IF Top.copy THEN {}
               ELSE {j \in 1..Len(Dst.subs) : \A k \in 1..(j - 1) :
                                                 ~BlockEquals(heap[Dst.subs[k]], heap[s])}

\* Mutated Match: the arguments are not compared.
MatchByName(s) ==
  LET same == {j \in Compared(s) : heap[Dst.subs[j]].name = heap[s].name} IN
    IF same = {} THEN Null ELSE Dst.subs[First(same)]

\* The block a subblock of the block read goes into, Null if there is none.
Match(s) ==
  LET same == {j \in Compared(s) : BlockEquals(heap[Dst.subs[j]], heap[s])} IN
    IF same = {} THEN Null ELSE Dst.subs[First(same)]

\* The subblocks are matched before any is merged.
MatchSubblocks ==
  /\ Running /\ stack # <<>> /\ Top.d = Len(Src.dirs) /\ Top.subs = Null
  /\ LET pairs == [k \in 1..Len(Src.subs) |-> <<Src.subs[k], Match(Src.subs[k])>>]
         nulls == \E s \in Elements(Src.subs) : \E j \in Compared(s) :
                     NullCompared(heap[Dst.subs[j]], heap[s]) IN
       \/ nulls /\ Crash("NULL argument")
       \/ /\ ~nulls
          /\ stack' = Append(Below, [Top EXCEPT !.subs = pairs])
          /\ UNCHANGED <<heap, zap, broken, given, root, next, outcome, clash>>
       \/ ~Top.copy /\ Src.subs # <<>> /\ Abort("oom") /\ UNCHANGED clash

\* The place of the subblock to do next: those with a match come first.
Due(pairs) == LET matched == {k \in 1..Len(pairs) : pairs[k][2] # Null} IN
                IF matched = {} THEN 1 ELSE First(matched)

\* It is merged into its match, or copied.
MergeSubblock ==
  /\ Running /\ stack # <<>> /\ Top.subs \notin {Null, <<>>}
  /\ LET s == Top.subs[Due(Top.subs)][1]
         m == Top.subs[Due(Top.subs)][2] IN
       IF m = Null
         THEN BeginCopy(s)
         ELSE /\ stack' = Append(Append(Below, [Top EXCEPT !.subs = RemoveAt(@, Due(@))]),
                                 Call(FALSE, s, m))
              /\ UNCHANGED <<heap, zap, broken, given, root, next, outcome, clash>>

\* A call returns; a finished copy is stored by its caller, the copy of the
\* first input is the merged block.
Return ==
  /\ Running /\ stack # <<>> /\ Top.d = Len(Src.dirs) /\ Top.subs = <<>>
  /\ IF ~Top.copy \/ Below = <<>>
       THEN /\ stack' = Below
            /\ root' = IF Top.copy THEN Top.dst ELSE root
            /\ next' = IF Below = <<>> THEN next + 1 ELSE next
            /\ UNCHANGED <<heap, zap, broken, given, outcome, clash>>
       ELSE LET caller == Below[Len(Below)] IN
            \E o \in Grow(heap[caller.dst].subs) :
              \/ /\ o = "ok"
                 /\ heap' = WithSubblock(heap, caller.dst, Top.dst)
                 /\ stack' = Append(SubSeq(Below, 1, Len(Below) - 1),
                                    [caller EXCEPT !.subs = RemoveAt(@, Due(@))])
                 /\ UNCHANGED <<zap, broken, given, root, next, outcome, clash>>
              \/ Fails(o)

Free == FreeStep /\ UNCHANGED <<given, root, next, stack, outcome, clash>>

Next == NextInput \/ MergeDirective \/ MatchSubblocks \/ MergeSubblock \/ Return \/ Free

Spec == Init /\ [][Next]_vars /\ WF_vars(Next)
-----------------------------------------------------------------------------
TypeOK ==
  /\ \A a \in Addr : /\ heap[a].kind \in {"none", "block", "directive"}
                    /\ Elements(Kids(heap[a])) \subseteq Addr
  /\ zap \subseteq Addr /\ broken \in {"no", "double free", "NULL list", "NULL argument"}
  /\ root \in Live \cup {Null} /\ next \in 1..(Len(Inputs) + 1)
  /\ outcome \in {"running", "ok", "duplicate", "oom"}
  /\ \A f \in Elements(stack) :
       /\ heap[f.src].kind = "block" /\ heap[f.dst].kind = "block" /\ f.src # f.dst
       /\ f.d <= Len(heap[f.src].dirs) /\ f.copy \in BOOLEAN
       /\ f.subs # Null => {p[1] : p \in Elements(f.subs)} \subseteq Elements(heap[f.src].subs)
       /\ f.subs # Null => {p[2] : p \in Elements(f.subs)} \subseteq
                              Elements(heap[f.dst].subs) \cup {Null}

\* The blocks of a heap h that are n lists below r, each with its path: the names
\* and arguments on the way.
Header(h, b) == <<h[b].name, h[b].args>>
Deeper(h, E) == UNION {{<<Append(e[1], Header(h, s)), s>> : s \in Elements(h[e[2]].subs)} : e \in E}
Levels(h, r) == LET L[n \in Nat] == IF n = 0 THEN {<<<<>>, r>>} ELSE Deeper(h, L[n - 1]) IN L

\* No path is longer than there are addresses.
BlocksIn(r)  == UNION {Levels(heap, r)[n] : n \in 0..Cardinality(Addr)}
Entry(d)     == Header(heap, d)
EntriesOf(b) == {Entry(d) : d \in Elements(heap[b].dirs)}
PathsIn(r)   == {e[1] : e \in BlocksIn(r)}
EntriesIn(r) == UNION {{<<e[1], x>> : x \in EntriesOf(e[2])} : e \in BlocksIn(r)}
OfInputs(F(_)) == UNION {F(r) : r \in Elements(Inputs)}

\* config_merge_n returns a block with the blocks and the directives of all the
\* inputs, each at its path, and with nothing else.
MergeIsUnion == outcome = "ok" => /\ PathsIn(root) = OfInputs(PathsIn)
                                  /\ EntriesIn(root) = OfInputs(EntriesIn)

\* Merging never puts a directive next to another of its name, be it the same one
\* again: those of one name in a block of the result stand, where they stand, as
\* they stood in one block of one input (merge_into:69: "exact matches stay
\* once", merge.h:9).
SameNameOnlyInherited ==
  outcome = "ok" =>
    \A x \in BlocksIn(root) : \E y \in OfInputs(BlocksIn) :
      LET dirs == heap[x[2]].dirs  from == heap[y[2]].dirs IN
        /\ y[1] = x[1]
        /\ \A j, k \in 1..Len(dirs) :
             j < k /\ heap[dirs[j]].name = heap[dirs[k]].name =>
               k <= Len(from) /\ Entry(from[j]) = Entry(dirs[j]) /\ Entry(from[k]) = Entry(dirs[k])

\* "Duplicate" is answered only when the inputs do disagree: at one path they
\* have a directive with two different argument lists.
ConflictIsReal ==
  outcome = "duplicate" =>
    \E x, y \in OfInputs(EntriesIn) : x[1] = y[1] /\ x[2][1] = y[2][1] /\ x[2][2] # y[2][2]

\* The inputs are const: whatever happens, they are as they were given.
InputsUntouched == \A a \in Addr : given.heap[a].kind # "none" => heap[a] = given.heap[a]

\* Wherever the merge stops, every live object belongs to the inputs, a copy
\* under way, the result or the free under way, and to one of them only.
Roots == Inputs \o [k \in 1..Len(stack) |-> IF stack[k].copy THEN stack[k].dst ELSE Null]
                \o <<root>>
OneOwner ==
  /\ broken # "double free"
  /\ broken = "no" => \A a \in Addr :
       Cardinality(Owners(a, Roots)) = IF a \in Live THEN 1 ELSE 0

\* configfile_merge.c:69: "exact matches stay once, same-name conflicts error
\* out".  A directive the block already has, word for word, ought not to conflict.
ExactMatchNeverConflicts == [][clash' # clash => Entry(clash'[2]) \notin EntriesOf(clash'[1])]_vars

\* Every merge comes to an end, whatever the inputs and the failures.
Returns == <>((outcome # "running" /\ zap = {}) \/ broken # "no")
=============================================================================
