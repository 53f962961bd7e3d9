------------------------------ MODULE Deserialize ------------------------------
(***************************************************************************)
(* config_deserialize: parse_contents and parse_statement over the tokens  *)
(* that lex_token returns.  The environment chooses the next token as it is*)
(* read and decides which allocation fails.  The text of a word is told by *)
(* its place in the input, so all words differ; "main" is text 0, and an   *)
(* empty quoted word is a word whose text is NULL.                         *)
(***************************************************************************)
EXTENDS ConfigTree, FiniteSets

CONSTANTS MaxTokens    \* bound: tokens of the input, the last one included

ASSUME DeserializeAssumption == MaxTokens \in Nat \ {0} /\ Addr # {}

VARIABLES toks,      \* the tokens read so far
          stack,     \* the blocks under construction, innermost last, each with
                     \* the head and the arguments of its unfinished statement
          texts,     \* the token texts allocated
          pc,        \* "parsing", "failing" or "done"
          result,    \* what config_deserialize returns
          oom        \* ghost: an allocation failed

vars == <<heap, zap, broken, toks, stack, texts, pc, result, oom>>

Kinds == {"word", "empty", "lbrace", "rbrace", "semicolon", "error", "eof"}

Frame(b) == [block |-> b, head |-> 0, args |-> <<>>]
Top      == stack[Len(stack)]
Depth    == Len(stack) - 1
Below    == SubSeq(stack, 1, Len(stack) - 1)
Parent   == stack[Depth].block

\* config_block_create("main"), which may fail at once.
Init == /\ heap = [a \in Addr |-> NoObject] /\ zap = {} /\ broken = "no"
        /\ toks = <<>> /\ stack = <<>> /\ texts = {} /\ pc = "main"
        /\ result = Null /\ oom = FALSE

CreateMain ==
  /\ pc = "main"
  /\ \/ /\ heap' = [heap EXCEPT ![Malloc] = Block(0, <<>>)]
        /\ stack' = <<Frame(Malloc)>> /\ pc' = "parsing" /\ UNCHANGED oom
     \/ /\ pc' = "done" /\ oom' = TRUE /\ UNCHANGED <<heap, stack>>
  /\ UNCHANGED <<zap, broken, toks, texts, result>>

\* lex_token returns a token of kind k; a word's text is allocated.
Read(k) == /\ pc = "parsing" /\ broken = "no" /\ Len(toks) < MaxTokens
           /\ Len(toks) = MaxTokens - 1 => k \in {"eof", "error"}
           /\ toks' = Append(toks, k)
\* The place of the token read, which is its text.
Here == Len(toks) + 1

InContents  == Top.head = 0
InStatement == Top.head # 0

\* Mutated ReadHead: the text of the word is not looked at.
ReadHeadUnchecked ==
  /\ InContents
  /\ \E k \in {"word", "empty"} :
       /\ Read(k)
       /\ stack' = Append(Below, [Top EXCEPT !.head = IF k = "word" THEN Here ELSE Null])
       /\ texts' = IF k = "word" THEN texts \cup {Here} ELSE texts
  /\ UNCHANGED <<tree, pc, result, oom>>

\* A word with a text opens a statement.
ReadHead ==
  /\ Read("word") /\ InContents
  /\ stack' = Append(Below, [Top EXCEPT !.head = Here])
  /\ texts' = texts \cup {Here}
  /\ UNCHANGED <<tree, pc, result, oom>>

\* A word is an argument; an empty one is a NULL text.
ReadArg(k) ==
  /\ k \in {"word", "empty"} /\ Read(k) /\ InStatement
  /\ \/ /\ stack' = Append(Below, [Top EXCEPT !.args = Append(@,
                              IF k = "word" THEN Here ELSE Null)])
        /\ texts' = IF k = "word" THEN texts \cup {Here} ELSE texts
        /\ UNCHANGED <<pc, oom>>
     \/ pc' = "failing" /\ oom' = TRUE /\ UNCHANGED <<stack, texts>>
  /\ UNCHANGED <<tree, result>>

\* Mutated Forget: the argument list is not freed.
ForgetHead(f) == texts' = texts \ {f.head}

\* token_list_free and token_free of the statement that ends.
Forget(f) == texts' = texts \ ({f.head} \cup Elements(f.args))

\* The ends an operation on the tree may come to: "ok", "fail" or "crash".
Fails(o) == /\ o = "fail" /\ pc' = "failing" /\ oom' = TRUE
            /\ UNCHANGED <<heap, zap, broken, stack, texts>>
Crashes(o) == /\ o = "crash" /\ broken' = "NULL list" /\ oom' = TRUE
              /\ UNCHANGED <<heap, zap, stack, texts, pc>>

\* An argument may be refused once the object is there.  The array of the first
\* one is not, it crashes, and a NULL text is not copied.
Partial(args) == args \notin {<<>>, <<Null>>}

\* Mutated Discards: the object is left to nobody.
Abandons(a, h) == /\ heap' = h /\ zap' = {} /\ pc' = "failing" /\ oom' = TRUE
                  /\ UNCHANGED <<broken, stack, texts>>

\* The object at a is made, but an argument or its place in the list is refused:
\* it goes to config_directive_free or config_block_free.  Which of its arguments
\* it lacks makes no difference to that.
Discards(a, h) == /\ heap' = h /\ zap' = {a} /\ pc' = "failing" /\ oom' = TRUE
                  /\ UNCHANGED <<broken, stack, texts>>

\* parse_statement at ';': the directive is built and stored.  If it is built
\* but not stored it is freed before the statement is.
StoreDirective ==
  /\ Read("semicolon") /\ InStatement
  /\ LET d == Malloc
         b == Top.block
         built == [heap EXCEPT ![d] = Directive(Top.head, Top.args)] IN
       \/ /\ Unused # {} /\ heap' = WithDirective(built, b, d)
          /\ stack' = Append(Below, Frame(b)) /\ Forget(Top)
          /\ UNCHANGED <<zap, broken, pc, oom>>
       \/ /\ Unused # {}
          /\ Partial(Top.args) \/ "fail" \in Grow(heap[b].dirs)
          /\ Discards(d, built)
       \/ \E o \in Build(Top.args) \cup Grow(heap[b].dirs) : Fails(o) \/ Crashes(o)
  /\ UNCHANGED result

\* parse_statement at '{': the subblock is built, and parsed before it is stored.
\* If it cannot be given its arguments it is freed before the statement is; one
\* that fails later is its frame's (Unwind).
OpenBlock ==
  /\ Read("lbrace") /\ InStatement
  /\ LET built == [heap EXCEPT ![Malloc] = Block(Top.head, Top.args)] IN
       \/ /\ Unused # {} /\ heap' = built
          /\ stack' = Append(stack, Frame(Malloc))
          /\ UNCHANGED <<zap, broken, texts, pc, oom>>
       \/ Unused # {} /\ Partial(Top.args) /\ Discards(Malloc, built)
       \/ \E o \in Build(Top.args) : Fails(o) \/ Crashes(o)
  /\ UNCHANGED result

\* '}' closes the innermost block, which is then stored in the one around it.
CloseBlock ==
  /\ Read("rbrace") /\ InContents /\ Depth > 0
  /\ \E o \in Grow(heap[Parent].subs) :
       \/ /\ o = "ok"
          /\ heap' = WithSubblock(heap, Parent, Top.block)
          /\ stack' = Append(SubSeq(stack, 1, Depth - 1), Frame(Parent))
          /\ Forget(stack[Depth])
          /\ UNCHANGED <<zap, broken, pc, oom>>
       \/ Fails(o) \/ Crashes(o)
  /\ UNCHANGED result

\* Mutated Succeed: the end of the input closes every block.
SucceedInside ==
  /\ Read("eof") /\ InContents
  /\ pc' = "done" /\ result' = Top.block /\ stack' = <<>>
  /\ UNCHANGED <<tree, texts, oom>>

\* The input ends where it may.
Succeed ==
  /\ Read("eof") /\ InContents /\ Depth = 0
  /\ pc' = "done" /\ result' = Top.block /\ stack' = <<>>
  /\ UNCHANGED <<tree, texts, oom>>

\* A token with no place where it stands, TOKEN_ERROR included.
Refused == IF InContents
             THEN {"empty", "lbrace", "semicolon", "error"}
                  \cup (IF Depth = 0 THEN {"rbrace"} ELSE {"eof"})
             ELSE {"error", "eof", "rbrace"}

\* Mutated Refuse: parse_statement reads on after an error.
SkipError == /\ pc = "parsing" /\ \E k \in Refused :
                  /\ Read(k)
                  /\ pc' = IF InStatement /\ k = "error" THEN pc ELSE "failing"
             /\ UNCHANGED <<tree, stack, texts, result, oom>>

Refuse == /\ pc = "parsing" /\ \E k \in Refused : Read(k)
          /\ pc' = "failing"
          /\ UNCHANGED <<tree, stack, texts, result, oom>>

\* The frames return -1 one by one: each frees the texts of its statement, and
\* its caller the block, which is gone before the next frame returns.
Unwind ==
  /\ pc = "failing" /\ broken = "no" /\ zap = {}
  /\ IF stack = <<>>
       THEN pc' = "done" /\ UNCHANGED <<stack, zap, texts>>
       ELSE /\ Forget(Top) /\ zap' = {Top.block} /\ stack' = Below
            /\ UNCHANGED pc
  /\ UNCHANGED <<heap, broken, toks, result, oom>>

Free == FreeStep /\ UNCHANGED <<toks, stack, texts, pc, result, oom>>

Next == \/ CreateMain \/ ReadHead \/ (\E k \in Kinds : ReadArg(k)) \/ StoreDirective
        \/ OpenBlock \/ CloseBlock \/ Succeed \/ Refuse \/ Unwind \/ Free

\* The parser reads on until it returns.
Spec == Init /\ [][Next]_vars /\ WF_vars(Next)
-----------------------------------------------------------------------------
Words == (1..MaxTokens) \cup {0, Null}

TypeOK ==
  /\ \A a \in Addr : /\ heap[a].kind \in {"none", "block", "directive"}
                    /\ heap[a].name \in Words /\ Elements(heap[a].args) \subseteq Words
                    /\ Elements(Kids(heap[a])) \subseteq Addr
  /\ zap \subseteq Addr /\ broken \in {"no", "double free", "NULL list"}
  /\ Len(toks) <= MaxTokens /\ Elements(toks) \subseteq Kinds
  /\ \A f \in Elements(stack) : /\ f.block \in Live /\ heap[f.block].kind = "block"
                              /\ f.head \in 0..MaxTokens /\ Elements(f.args) \subseteq Words
  /\ texts \subseteq 1..MaxTokens /\ pc \in {"main", "parsing", "failing", "done"}
  /\ result \in Addr \cup {Null} /\ oom \in BOOLEAN

\* The objects someone outside the tree is responsible for.
Roots == [k \in 1..Len(stack) |-> stack[k].block] \o <<result>>

\* Ownership: whatever fails and wherever, a live block or directive has exactly
\* one place that will free it (a list, the recursion's frame, the result or the
\* free under way), and nothing refers to an object that is gone.
OneOwner ==
  /\ broken # "double free"
  /\ broken = "no" => \A a \in Addr :
       Cardinality(Owners(a, Roots)) = IF a \in Live THEN 1 ELSE 0

\* config_deserialize leaves nothing behind: no token text, and no object at all
\* when it returns NULL.
CleanEnd == pc = "done" => texts = {} /\ (result = Null => Live = {})

\* Grammar of a token sequence t, told by positions instead of by recursion.
DepthAt(t, p) == Cardinality({q \in 1..p : t[q] = "lbrace"})
                 - Cardinality({q \in 1..p : t[q] = "rbrace"})
Legal(t, p) == IF p > 1 /\ t[p - 1] \in {"word", "empty"}
                 THEN t[p] \in {"word", "empty", "semicolon", "lbrace"}
                 ELSE \/ t[p] = "word"
                      \/ t[p] = "rbrace" /\ DepthAt(t, p - 1) > 0
                      \/ t[p] = "eof" /\ DepthAt(t, p - 1) = 0
Document(t) == /\ \A p \in 1..Len(t) : Legal(t, p)
               /\ t # <<>> /\ t[Len(t)] = "eof"

\* A configuration is returned exactly for the token sequences of the grammar,
\* and never for one during which an allocation failed.
AcceptsDocuments == pc = "done" => (result # Null <=> Document(toks) /\ ~oom)

\* The statement that ends at p: where it begins, its arguments, its block.
Last(S)       == CHOOSE x \in S \cup {0} : \A y \in S : y <= x
HeadOf(t, p)  == 1 + Last({q \in 1..(p - 1) : t[q] \in {"semicolon", "lbrace", "rbrace"}})
ArgsOf(t, p)  == [k \in 1..(p - 1 - HeadOf(t, p)) |->
                    IF t[HeadOf(t, p) + k] = "word" THEN HeadOf(t, p) + k ELSE Null]
Open(t, p)    == {q \in 1..(p - 1) : /\ t[q] = "lbrace"
                                     /\ \A r \in q..(p - 1) : DepthAt(t, r) >= DepthAt(t, q)}
BlockOf(t, p) == IF Open(t, p) = {} THEN 0 ELSE HeadOf(t, Last(Open(t, p)))
Ends(t, k)    == {p \in 1..Len(t) : t[p] = k}

\* The statements in the block of that name that end with a token of kind k.
In(t, k, name) == {HeadOf(t, p) : p \in {q \in Ends(t, k) : BlockOf(t, q) = name}}

\* A list holds the objects whose names are in S, in the order of the input.
NamesIn(list) == [j \in 1..Len(list) |-> heap[list[j]].name]
InOrder(s, S) == /\ Elements(s) = S /\ Len(s) = Cardinality(S)
                 /\ \A j, k \in 1..Len(s) : j < k => s[j] < s[k]

\* Nothing of the input is lost, doubled or misplaced: the tree returned has one
\* directive for each ';' and one block for each '{', in the block around it, in
\* the order of the input, with the words that stood before it.
TreeFaithful ==
  pc = "done" /\ result # Null =>
    /\ Cardinality(Live) = 1 + Cardinality(Ends(toks, "semicolon") \cup Ends(toks, "lbrace"))
    /\ heap[result] = [heap[result] EXCEPT !.kind = "block", !.name = 0, !.args = <<>>]
    /\ \A a \in Live : LET o == heap[a]  block == o.kind = "block" IN
         /\ InOrder(NamesIn(o.dirs), IF block THEN In(toks, "semicolon", o.name) ELSE {})
         /\ InOrder(NamesIn(o.subs), IF block THEN In(toks, "lbrace", o.name) ELSE {})
         /\ a = result \/ \E p \in Ends(toks, IF block THEN "lbrace" ELSE "semicolon") :
                             HeadOf(toks, p) = o.name /\ ArgsOf(toks, p) = o.args

\* configfile.c:87 calls a failed allocation "Allocation failed" and returns -1:
\* running out of memory ought to be reported, not to end the program.
NeverCrashes == broken # "NULL list"

\* Every input is parsed to its end or refused.
Returns == <>(pc = "done" \/ broken # "no")
=============================================================================
