------------------------------ MODULE ConfigTree ------------------------------
(***************************************************************************)
(* The objects of configfile.c: blocks and directives on a heap.  A name   *)
(* or an argument is copied into the object it is given to, so a text is a *)
(* value here and only blocks and directives have addresses.               *)
(***************************************************************************)
EXTENDS Naturals, Sequences

CONSTANTS Addr,      \* the addresses malloc gives out
          Null       \* NULL, as an address and as a text

ASSUME TreeAssumption == Null \notin Addr

VARIABLES heap,      \* what each address holds
          zap,       \* what config_block_free has still to visit
          broken     \* how the program went out of bounds, "no" if it did not

tree == <<heap, zap, broken>>

NoObject == [kind |-> "none", name |-> Null, args |-> <<>>, dirs |-> <<>>, subs |-> <<>>]
\* config_block_create and config_directive_create, and the arguments added.
Block(name, args)     == [NoObject EXCEPT !.kind = "block", !.name = name, !.args = args]
Directive(name, args) == [NoObject EXCEPT !.kind = "directive", !.name = name,
                                          !.args = args]

Elements(s) == {s[k] : k \in 1..Len(s)}
Kids(o)     == o.dirs \o o.subs
Live        == {a \in Addr : heap[a].kind # "none"}
Unused      == Addr \ Live
Malloc      == CHOOSE a \in Unused : TRUE

\* What config_realloc_array does for a list: its callers take a failure for a
\* success as long as the list is empty, and write through NULL.
Grow(list) == {"ok", IF list = <<>> THEN "crash" ELSE "fail"}

\* An object is created and its arguments are copied one after the other.
Build(args) == {"ok", "fail"} \cup (IF args = <<>> THEN {} ELSE {"crash"})

\* Mutated WithDirective: the newest comes first.
WithFirstDirective(h, b, d) == [h EXCEPT ![b].dirs = <<d>> \o @]

\* config_block_add_directive and config_block_add_subblock, once they succeed.
WithDirective(h, b, d) == [h EXCEPT ![b].dirs = Append(@, d)]
WithSubblock(h, b, s)  == [h EXCEPT ![b].subs = Append(@, s)]

\* One object of config_block_free's recursion, config_directive_free included:
\* its children are freed as well.  Their order does not matter here.
FreeStep == /\ broken = "no" /\ zap # {}
            /\ LET a == CHOOSE x \in zap : TRUE IN
                 /\ heap' = [heap EXCEPT ![a] = NoObject]
                 /\ zap' = (zap \ {a}) \cup Elements(Kids(heap[a]))
                 /\ broken' = IF a \in Live THEN broken ELSE "double free"

\* The places that refer to a: slots of live blocks, roots, the free under way.
Owners(a, roots) ==
  (UNION {{<<b, k>> : k \in {j \in 1..Len(Kids(heap[b])) : Kids(heap[b])[j] = a}} : b \in Live})
  \cup {<<Null, k>> : k \in {j \in 1..Len(roots) : roots[j] = a}}
  \cup (IF a \in zap THEN {<<Null, 0>>} ELSE {})
=============================================================================
