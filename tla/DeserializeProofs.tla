-------------------------- MODULE DeserializeProofs --------------------------
(***************************************************************************)
(* The parser, for any input, any number of addresses and wherever an      *)
(* allocation fails.  First ownership: what is live is in the tree of one  *)
(* block under construction, in the result or about to be freed, and       *)
(* nothing is left when config_deserialize returns.  Then the grammar: it  *)
(* returns a configuration exactly for the documents, and the tree is the  *)
(* document's.                                                             *)
(***************************************************************************)
EXTENDS Deserialize, TreeProofs, SequenceTheorems, Induction

\* The blocks of the frames, and who holds what between two steps.
Chain == [k \in 1..Len(stack) |-> stack[k].block]
Held  == (Elements(Chain) \cup zap) \cup ({result} \ {Null})

\* A statement without a head has no arguments.
Frames == {f \in [block : Addr, head : Nat, args : Seq(Nat \cup {Null})] :
             f.head = 0 => f.args = <<>>}
TextsOf(f) == {f.head} \cup Elements(f.args)

\* Where the parser stands.
Phase ==
  \/ pc = "main" /\ stack = <<>> /\ zap = {} /\ result = Null
  \/ pc = "parsing" /\ stack # <<>> /\ zap = {} /\ result = Null
  \/ pc = "failing" /\ result = Null
  \/ pc = "done" /\ stack = <<>> /\ zap = {} /\ result \in Addr \cup {Null}

\* The frames have blocks of their own, none of them is being freed, and they
\* hold the texts.
Sound ==
  /\ stack \in Seq(Frames) /\ Apart(Chain) /\ zap \cap Elements(Chain) = {}
  /\ texts \subseteq Nat \ {0}
  /\ \A x \in texts : \E k \in 1..Len(stack) : x \in TextsOf(stack[k])
  /\ toks \in Seq(Kinds)

Parse == broken = "no" /\ Phase /\ Sound /\ Owned(heap, Held) /\ Ranked(heap)

\* After a crash nothing happens any more.
Inv == Parse \/ (broken = "NULL list" /\ pc = "parsing")

\* The first m frames of the stack.
LEMMA Kept ==
  ASSUME NEW S, NEW s \in Seq(S), NEW m \in 0..Len(s)
  PROVE  /\ SubSeq(s, 1, m) \in Seq(S) /\ Len(SubSeq(s, 1, m)) = m
         /\ \A k \in 1..m : SubSeq(s, 1, m)[k] = s[k]
<1>1. m \in Int /\ m >= 0 /\ \A i \in 1..m : s[i] \in S
  OBVIOUS
<1>2. /\ SubSeq(s, 1, m) \in Seq(S)
      /\ Len(SubSeq(s, 1, m)) = IF 1 <= m THEN m - 1 + 1 ELSE 0
      /\ \A i \in 1..(m - 1 + 1) : SubSeq(s, 1, m)[i] = s[1 + i - 1]
  BY <1>1, SubSeqProperties
<1>3. m - 1 + 1 = m /\ \A i \in 1..m : 1 + i - 1 = i
  BY <1>1
<1>4. Len(SubSeq(s, 1, m)) = m
  BY <1>1, <1>2
<1> QED BY <1>2, <1>3, <1>4

\* The stack without its innermost frame.
LEMMA Popped ==
  ASSUME NEW S, NEW s \in Seq(S), s # <<>>
  PROVE  /\ SubSeq(s, 1, Len(s) - 1) \in Seq(S)
         /\ Len(SubSeq(s, 1, Len(s) - 1)) = Len(s) - 1
         /\ Len(s) \in Nat \ {0} /\ s[Len(s)] \in S
         /\ \A k \in 1..(Len(s) - 1) : SubSeq(s, 1, Len(s) - 1)[k] = s[k]
<1>1. Len(s) \in Nat \ {0} /\ s[Len(s)] \in S
  OBVIOUS
<1>2. Len(s) - 1 \in 0..Len(s)
  BY <1>1
<1> QED BY <1>1, <1>2, Kept, Zenon

\* The stack with another frame.
LEMMA Pushed ==
  ASSUME NEW S, NEW s \in Seq(S), NEW f \in S, NEW t, t = Append(s, f)
  PROVE  /\ t \in Seq(S) /\ Len(t) = Len(s) + 1 /\ Len(s) \in Nat
         /\ t[Len(s) + 1] = f /\ \A k \in 1..Len(s) : t[k] = s[k]
OBVIOUS

\* t is s with f in the place of its last element.
NewTop(t, s, f) == /\ Len(t) = Len(s) /\ Len(s) \in Nat \ {0} /\ t[Len(s)] = f
                   /\ \A k \in 1..(Len(s) - 1) : t[k] = s[k]

\* Its innermost frame replaced.
LEMMA Replaced ==
  ASSUME NEW S, NEW s \in Seq(S), s # <<>>, NEW f \in S,
         NEW t, t = Append(SubSeq(s, 1, Len(s) - 1), f)
  PROVE  t \in Seq(S) /\ NewTop(t, s, f)
<1> DEFINE r == SubSeq(s, 1, Len(s) - 1)
<1> HIDE DEF r
<1>1. /\ r \in Seq(S) /\ Len(r) = Len(s) - 1 /\ Len(s) \in Nat \ {0}
      /\ s[Len(s)] \in S /\ \A k \in 1..(Len(s) - 1) : r[k] = s[k]
  BY Popped, Zenon DEF r
<1>2. /\ t \in Seq(S) /\ Len(t) = Len(r) + 1 /\ Len(r) \in Nat
      /\ t[Len(r) + 1] = f /\ \A k \in 1..Len(r) : t[k] = r[k]
  <2>1. t = Append(r, f)
    BY DEF r
  <2> QED BY <1>1, <2>1, Pushed
<1> QED BY <1>1, <1>2 DEF NewTop

\* The frame that is read into goes on: the tree stays as it is.
LEMMA FrameGoesOn ==
  ASSUME Parse, pc = "parsing", NEW f \in Frames, f.block = Top.block,
         stack' = Append(Below, f)
  PROVE  /\ stack' \in Seq(Frames) /\ stack' # <<>> /\ Chain' = Chain
         /\ NewTop(stack', stack, f)
<1>1. stack \in Seq(Frames) /\ stack # <<>>
  BY DEF Parse, Phase, Sound
<1>2. stack' \in Seq(Frames) /\ NewTop(stack', stack, f)
  BY <1>1, Replaced DEF Below
<1>3. Len(stack') = Len(stack) /\ \A k \in 1..Len(stack) : stack'[k].block = stack[k].block
  BY <1>2 DEF Top, NewTop
<1>4. Chain' = Chain
  BY <1>3 DEF Chain
<1>5. stack' # <<>>
  BY <1>2 DEF NewTop
<1> QED BY <1>2, <1>4, <1>5

\* The texts after a step that changes the innermost frame only.
LEMMA TextsFollow ==
  ASSUME Parse, NEW f, NewTop(stack', stack, f),
         texts' \subseteq Nat \ {0},
         \A x \in texts' : \/ x \in texts /\ x \notin TextsOf(Top)
                           \/ x \in TextsOf(f)
  PROVE  \A x \in texts' : \E k \in 1..Len(stack') : x \in TextsOf(stack'[k])
<1>1. /\ Len(stack') = Len(stack) /\ Len(stack) \in Nat \ {0} /\ stack'[Len(stack)] = f
      /\ \A k \in 1..(Len(stack) - 1) : stack'[k] = stack[k]
  BY DEF NewTop
<1>2. ASSUME NEW x \in texts' PROVE \E k \in 1..Len(stack') : x \in TextsOf(stack'[k])
  <2>1. CASE x \in TextsOf(f)
    BY <1>1, <2>1
  <2>2. CASE x \in texts /\ x \notin TextsOf(Top)
    <3>1. PICK k \in 1..Len(stack) : x \in TextsOf(stack[k])
      BY <2>2 DEF Parse, Sound
    <3>2. k \in 1..(Len(stack) - 1)
      BY <1>1, <2>2, <3>1 DEF Top
    <3> QED BY <1>1, <3>1, <3>2
  <2> QED BY <2>1, <2>2
<1> QED BY <1>2

\* Between two steps: the blocks of the frames are held and live.
LEMMA ChainFacts ==
  ASSUME Parse
  PROVE  /\ Len(Chain) = Len(stack) /\ Len(stack) \in Nat
         /\ \A k \in 1..Len(stack) : Chain[k] = stack[k].block /\ stack[k] \in Frames
         /\ \A k \in 1..Len(stack) : Chain[k] \in Elements(Chain)
         /\ Elements(Chain) \subseteq Held /\ Held \subseteq LiveOf(heap)
         /\ LiveOf(heap) \subseteq Addr /\ Null \notin Addr
         /\ stack # <<>> => Len(stack) \in 1..Len(stack)
<1>1. stack \in Seq(Frames) /\ Held \subseteq LiveOf(heap)
  BY DEF Parse, Sound, Owned
<1>2. Len(stack) \in Nat /\ \A k \in 1..Len(stack) : stack[k] \in Frames
  BY <1>1
<1>3. Len(Chain) = Len(stack) /\ \A k \in 1..Len(stack) : Chain[k] = stack[k].block
  BY <1>2 DEF Chain
<1>4. \A k \in 1..Len(stack) : Chain[k] \in Elements(Chain)
  BY <1>3 DEF Elements
<1>5. stack # <<>> => Len(stack) \in 1..Len(stack)
  BY <1>1
<1> QED BY <1>1, <1>2, <1>3, <1>4, <1>5, TreeAssumption DEF LiveOf, Held

\* Only the innermost frame changes: the stack stays sound.
LEMMA FrameSound ==
  ASSUME Parse, pc = "parsing", NEW f \in Frames, f.block = Top.block,
         stack' = Append(Below, f), toks' \in Seq(Kinds), zap' = zap,
         texts' \subseteq Nat \ {0},
         \A x \in texts' : \/ x \in texts /\ x \notin TextsOf(Top)
                           \/ x \in TextsOf(f)
  PROVE  Sound' /\ Chain' = Chain /\ stack' # <<>>
<1>1. /\ stack' \in Seq(Frames) /\ stack' # <<>> /\ Chain' = Chain
      /\ NewTop(stack', stack, f)
  BY FrameGoesOn
<1>2. \A x \in texts' : \E k \in 1..Len(stack') : x \in TextsOf(stack'[k])
  BY <1>1, TextsFollow
<1>3. Apart(Chain') /\ zap' \cap Elements(Chain') = {}
  BY <1>1 DEF Parse, Sound
<1> QED BY <1>1, <1>2, <1>3 DEF Sound

\* A step that leaves the tree, the blocks of the frames and the result alone.
LEMMA TreeStays ==
  ASSUME Parse, UNCHANGED <<tree, result>>, Chain' = Chain, Sound', Phase'
  PROVE  Parse'
<1>1. heap' = heap /\ zap' = zap /\ broken' = broken /\ result' = result
  BY DEF tree
<1>2. Held' = Held
  BY <1>1 DEF Held
<1>3. Owned(heap', Held') /\ Ranked(heap')
  BY <1>1, <1>2 DEF Parse
<1> QED BY <1>1, <1>3 DEF Parse

\* A token is read by the innermost frame, whose statement may be under way.
LEMMA ReadFacts ==
  ASSUME Parse, pc = "parsing"
  PROVE  /\ stack # <<>> /\ Top \in Frames /\ zap = {} /\ result = Null
         /\ Top.block \in Addr /\ Top.head \in Nat /\ Top.args \in Seq(Nat \cup {Null})
         /\ Top = [block |-> Top.block, head |-> Top.head, args |-> Top.args]
         /\ InContents => TextsOf(Top) = {0}
         /\ Here \in Nat \ {0}
         /\ \A k \in Kinds : Read(k) => toks' \in Seq(Kinds)
<1>1. /\ stack # <<>> /\ zap = {} /\ result = Null /\ stack \in Seq(Frames)
      /\ toks \in Seq(Kinds)
  BY DEF Parse, Phase, Sound
<1>2. Top \in Frames
  BY <1>1 DEF Top
<1>3. /\ Top.block \in Addr /\ Top.head \in Nat /\ Top.args \in Seq(Nat \cup {Null})
      /\ Top = [block |-> Top.block, head |-> Top.head, args |-> Top.args]
      /\ Top.head = 0 => Top.args = <<>>
  BY <1>2 DEF Frames
<1>4. InContents => TextsOf(Top) = {0}
  BY <1>3 DEF InContents, TextsOf, Elements
<1>5. Here \in Nat \ {0} /\ \A k \in Kinds : Read(k) => toks' \in Seq(Kinds)
  BY <1>1 DEF Here, Read
<1> QED BY <1>1, <1>2, <1>3, <1>4, <1>5

LEMMA InvReadHead == ASSUME Parse, ReadHead PROVE Parse'
<1> DEFINE f == [Top EXCEPT !.head = Here]
<1>1. /\ pc = "parsing" /\ InContents /\ stack' = Append(Below, f)
      /\ texts' = texts \cup {Here} /\ UNCHANGED <<tree, pc, result>> /\ Read("word")
  BY DEF ReadHead, Read
<1>2. /\ Top = [block |-> Top.block, head |-> Top.head, args |-> Top.args]
      /\ Top.block \in Addr /\ Top.args \in Seq(Nat \cup {Null})
      /\ Here \in Nat \ {0} /\ TextsOf(Top) = {0} /\ toks' \in Seq(Kinds)
      /\ zap = {} /\ result = Null
  BY <1>1, ReadFacts DEF Kinds
<1>3. f = [block |-> Top.block, head |-> Here, args |-> Top.args]
  <2> DEFINE t == Top
  <2> HIDE DEF t
  <2>1. t = [block |-> t.block, head |-> t.head, args |-> t.args]
    BY <1>2 DEF t
  <2>2. [t EXCEPT !.head = Here] = [block |-> t.block, head |-> Here, args |-> t.args]
    BY <2>1
  <2> QED BY <2>2 DEF t
<1> HIDE DEF f
<1>4. f \in Frames /\ f.block = Top.block /\ f.head = Here
  BY <1>2, <1>3 DEF Frames
<1>5. /\ texts' \subseteq Nat \ {0}
      /\ \A x \in texts' : \/ x \in texts /\ x \notin TextsOf(Top)
                           \/ x \in TextsOf(f)
  BY <1>1, <1>2, <1>4 DEF Parse, Sound, TextsOf
<1>6. Sound' /\ Chain' = Chain /\ stack' # <<>>
  BY <1>1, <1>2, <1>4, <1>5, FrameSound DEF tree
<1>7. Phase'
  BY <1>1, <1>2, <1>6 DEF Phase, tree
<1> QED BY <1>1, <1>6, <1>7, TreeStays

LEMMA InvReadArg == ASSUME Parse, NEW k \in Kinds, ReadArg(k) PROVE Parse'
<1>1. /\ pc = "parsing" /\ UNCHANGED <<tree, result>> /\ Read(k)
  BY DEF ReadArg, Read
<1>2. /\ Top = [block |-> Top.block, head |-> Top.head, args |-> Top.args]
      /\ Top.block \in Addr /\ Top.head \in Nat /\ Top.args \in Seq(Nat \cup {Null})
      /\ Here \in Nat \ {0} /\ toks' \in Seq(Kinds) /\ Top \in Frames
      /\ zap = {} /\ result = Null /\ stack # <<>>
  BY <1>1, ReadFacts
<1> DEFINE x == IF k = "word" THEN Here ELSE Null
           f == [Top EXCEPT !.args = Append(@, x)]
<1>3. CASE /\ stack' = Append(Below, f)
           /\ texts' = (IF k = "word" THEN texts \cup {Here} ELSE texts)
           /\ UNCHANGED <<pc, oom>>
  <2>1. f = [block |-> Top.block, head |-> Top.head, args |-> Append(Top.args, x)]
    <3> DEFINE t == Top
    <3> HIDE DEF t, x
    <3>1. t = [block |-> t.block, head |-> t.head, args |-> t.args]
      BY <1>2 DEF t
    <3>2. [t EXCEPT !.args = Append(@, x)]
            = [block |-> t.block, head |-> t.head, args |-> Append(t.args, x)]
      BY <3>1
    <3> QED BY <3>2 DEF t
  <2>2. x \in Nat \cup {Null} /\ (k = "word" => x = Here)
    BY <1>2
  <2> HIDE DEF f, x
  <2>3. /\ Append(Top.args, x) \in Seq(Nat \cup {Null})
        /\ Elements(Append(Top.args, x)) = Elements(Top.args) \cup {x}
    BY <1>2, <2>2, AppendFacts
  <2>4. /\ f \in Frames /\ f.block = Top.block
        /\ TextsOf(f) = TextsOf(Top) \cup {x}
    <3>1. Top.head # 0
      BY DEF ReadArg, InStatement
    <3>2. f \in Frames
      BY <1>2, <2>1, <2>3, <3>1 DEF Frames
    <3>3. f.block = Top.block /\ f.head = Top.head /\ f.args = Append(Top.args, x)
      BY <2>1
    <3> QED BY <2>3, <3>2, <3>3 DEF TextsOf
  <2>5. /\ texts' \subseteq Nat \ {0}
        /\ \A y \in texts' : \/ y \in texts /\ y \notin TextsOf(Top)
                             \/ y \in TextsOf(f)
    BY <1>2, <1>3, <2>2, <2>4 DEF Parse, Sound
  <2>6. Sound' /\ Chain' = Chain /\ stack' # <<>>
    BY <1>1, <1>2, <1>3, <2>4, <2>5, FrameSound DEF tree, f, x
  <2>7. Phase'
    BY <1>1, <1>2, <1>3, <2>6 DEF Phase, tree
  <2> QED BY <1>1, <2>6, <2>7, TreeStays
<1>4. CASE pc' = "failing" /\ UNCHANGED <<stack, texts>>
  <2>1. Chain' = Chain
    BY <1>4 DEF Chain
  <2>2. Sound'
    BY <1>1, <1>2, <1>4, <2>1 DEF Parse, Sound, tree
  <2>3. Phase'
    BY <1>1, <1>2, <1>4 DEF Phase, tree
  <2> QED BY <1>1, <2>1, <2>2, <2>3, TreeStays
<1> QED BY <1>3, <1>4 DEF ReadArg

\* The parser gives up at a token, or because memory is short.
LEMMA InvGivesUp ==
  ASSUME Parse, pc = "parsing", toks' \in Seq(Kinds), pc' = "failing",
         UNCHANGED <<tree, stack, texts, result>>
  PROVE  Parse'
<1>1. Chain' = Chain
  BY DEF Chain
<1>2. zap = {} /\ result = Null
  BY ReadFacts
<1>3. Sound'
  BY <1>1, <1>2 DEF Parse, Sound, tree
<1>4. Phase'
  BY <1>2 DEF Phase, tree
<1> QED BY <1>1, <1>3, <1>4, TreeStays

LEMMA InvRefuse == ASSUME Parse, Refuse PROVE Parse'
<1>1. PICK k \in Refused : Read(k)
  BY DEF Refuse
<1>2. k \in Kinds
  BY DEF Refused, Kinds
<1>3. pc = "parsing" /\ toks' \in Seq(Kinds)
  BY <1>1, <1>2, ReadFacts DEF Read
<1> QED BY <1>3, InvGivesUp DEF Refuse

\* An operation on the tree that does not succeed.
LEMMA InvShort ==
  ASSUME Parse, pc = "parsing", toks' \in Seq(Kinds), result' = result,
         NEW o, Fails(o) \/ Crashes(o)
  PROVE  Inv'
<1>1. CASE Fails(o)
  BY <1>1, InvGivesUp DEF Fails, Inv, tree
<1>2. CASE Crashes(o)
  BY <1>2 DEF Crashes, Inv
<1> QED BY <1>1, <1>2

\* malloc returns an address that is not live.
LEMMA MallocFacts ==
  ASSUME Unused # {}
  PROVE  Malloc \in Addr \ LiveOf(heap)
<1>1. Malloc \in Unused
  BY DEF Malloc
<1> QED BY <1>1 DEF Unused, Live, LiveOf

\* It is put where there was none: it changes no rank.
LEMMA RankNew ==
  ASSUME NEW h, NEW W, Owned(h, W), Ranked(h), NEW a \in Addr \ LiveOf(h), NEW o,
         o.dirs = <<>>, o.subs = <<>>, NEW g, g = [h EXCEPT ![a] = o]
  PROVE  Ranked(g)
<1>1. g = [x \in Addr |-> IF x = a THEN o ELSE h[x]]
  BY DEF Owned
<1>2. Kin(o) = {}
  BY DEF Kin, Elements
<1>3. \A b \in LiveOf(g) : Kin(g[b]) = {} \/ (b \in LiveOf(h) /\ g[b] = h[b])
  BY <1>1, <1>2 DEF LiveOf
<1> QED BY <1>3, RankKept

\* An object is made, but goes to be freed at once.
Late == /\ \E k \in Kinds : Read(k)
        /\ Unused # {}
        /\ \E o \in {Block(Top.head, Top.args), Directive(Top.head, Top.args)} :
             Discards(Malloc, [heap EXCEPT ![Malloc] = o])
        /\ result' = result

LEMMA InvLate == ASSUME Parse, Late PROVE Parse'
<1> DEFINE d == Malloc
<1>1. PICK o \in {Block(Top.head, Top.args), Directive(Top.head, Top.args)} :
         Discards(d, [heap EXCEPT ![d] = o])
  BY DEF Late
<1>2. /\ heap' = [heap EXCEPT ![d] = o] /\ zap' = {d} /\ pc' = "failing"
      /\ UNCHANGED <<broken, stack, texts, result>>
  BY <1>1 DEF Discards, Late
<1>3. pc = "parsing" /\ toks' \in Seq(Kinds) /\ zap = {} /\ result = Null
  <2>1. PICK k \in Kinds : Read(k)
    BY DEF Late
  <2> QED BY <2>1, ReadFacts DEF Read
<1>4. d \in Addr \ LiveOf(heap)
  BY MallocFacts DEF Late
<1>5. /\ o = [kind |-> o.kind, name |-> o.name, args |-> o.args,
              dirs |-> o.dirs, subs |-> o.subs]
      /\ o.kind # "none" /\ o.dirs = <<>> /\ o.subs = <<>>
  BY NewObjects
<1> HIDE DEF d
<1>6. Owned(heap, Held) /\ Ranked(heap)
  BY DEF Parse
<1>7. Owned(heap', Held \cup {d})
  BY <1>2, <1>4, <1>5, <1>6, OwnedNew
<1>8. Ranked(heap')
  BY <1>2, <1>4, <1>5, <1>6, RankNew
<1>9. Chain' = Chain
  BY <1>2 DEF Chain
<1>10. Held' = Held \cup {d}
  BY <1>2, <1>3, <1>9 DEF Held
<1>11. d \notin Elements(Chain)
  <2>1. Held \subseteq LiveOf(heap)
    BY <1>6 DEF Owned
  <2> QED BY <1>4, <2>1 DEF Held
<1>12. Sound'
  BY <1>2, <1>3, <1>9, <1>11 DEF Parse, Sound
<1>13. Phase' /\ broken' = "no"
  BY <1>2, <1>3 DEF Phase, Parse
<1> QED BY <1>7, <1>8, <1>10, <1>12, <1>13 DEF Parse

LEMMA InvStoreDirective == ASSUME Parse, StoreDirective PROVE Inv'
<1>1. pc = "parsing" /\ result' = result /\ toks' \in Seq(Kinds)
  <2>1. Read("semicolon") /\ "semicolon" \in Kinds
    BY DEF StoreDirective, Kinds
  <2> QED BY <2>1, ReadFacts DEF StoreDirective, Read
<1> DEFINE d == Malloc
           b == Top.block
           o == Directive(Top.head, Top.args)
           h == [heap EXCEPT ![d] = o]
<1>2. \/ /\ Unused # {} /\ heap' = WithDirective(h, b, d)
         /\ stack' = Append(Below, Frame(b)) /\ Forget(Top) /\ UNCHANGED <<zap, broken, pc>>
      \/ Late
      \/ \E e : Fails(e) \/ Crashes(e)
  BY DEF StoreDirective, Late, Kinds
<1>3. CASE \E e : Fails(e) \/ Crashes(e)
  BY <1>1, <1>3, InvShort
<1>4. CASE /\ Unused # {} /\ heap' = WithDirective(h, b, d)
           /\ stack' = Append(Below, Frame(b)) /\ Forget(Top) /\ UNCHANGED <<zap, broken, pc>>
  <2>1. d \in Addr \ LiveOf(heap)
    BY <1>4, MallocFacts
  <2>2. /\ o = [kind |-> o.kind, name |-> o.name, args |-> o.args,
                dirs |-> o.dirs, subs |-> o.subs]
        /\ o.kind # "none" /\ o.dirs = <<>> /\ o.subs = <<>>
    BY NewObjects
  <2> HIDE DEF d, o
  <2>3. Owned(heap, Held) /\ Ranked(heap)
    BY DEF Parse
  <2>4. Owned(h, Held \cup {d}) /\ LiveOf(h) = LiveOf(heap) \cup {d}
    BY <2>1, <2>2, <2>3, OwnedNew
  <2>5. Ranked(h)
    BY <2>1, <2>2, <2>3, RankNew
  <2>6. /\ stack # <<>> /\ Top \in Frames /\ b \in Addr /\ zap = {} /\ result = Null
    BY <1>1, ReadFacts
  <2>7. b \in Held /\ b \in LiveOf(heap)
    BY <2>6, ChainFacts DEF Top
  <2> HIDE DEF h, b
  <2>8. Listed(h, heap', b, d)
    BY <1>4 DEF Listed
  <2>9. Owned(heap', (Held \cup {d}) \ {d})
    BY <2>4, <2>7, <2>8, OwnedListed
  <2>10. Ranked(heap')
    <3>1. b # d /\ b \in Held \cup {d} /\ d \in Held \cup {d}
      BY <2>1, <2>7
    <3> QED BY <2>4, <2>5, <2>8, <3>1, RankListed
  <2>11. /\ Sound' /\ Chain' = Chain /\ stack' # <<>>
    <3>1. Frame(b) \in Frames /\ Frame(b).block = b
      BY <2>6 DEF Frame, Frames
    <3>2. /\ texts' \subseteq Nat \ {0}
          /\ \A x \in texts' : \/ x \in texts /\ x \notin TextsOf(Top)
                               \/ x \in TextsOf(Frame(b))
      BY <1>4 DEF Forget, Parse, Sound, TextsOf
    <3> QED BY <1>1, <1>4, <3>1, <3>2, FrameSound DEF b
  <2>12. Held' = Held /\ d \notin Held
    <3>1. Held' = Held
      BY <1>1, <1>4, <2>11 DEF Held
    <3> QED BY <2>1, <3>1, ChainFacts
  <2>13. Owned(heap', Held')
    <3>1. (Held \cup {d}) \ {d} = Held'
      BY <2>12
    <3> QED BY <2>9, <3>1
  <2>14. Phase' /\ broken' = "no"
    BY <1>1, <1>4, <2>6, <2>11 DEF Phase, Parse
  <2> QED BY <2>10, <2>11, <2>13, <2>14 DEF Parse, Inv
<1>5. CASE Late
  BY <1>5, InvLate DEF Inv
<1> QED BY <1>2, <1>3, <1>4, <1>5

\* A block is new on top of the stack, with a frame of its own.
LEMMA ChainGrows ==
  ASSUME Parse, zap' = {}, zap = {}, UNCHANGED <<texts, result>>, toks' \in Seq(Kinds),
         NEW a \in Addr \ LiveOf(heap), stack' = Append(stack, Frame(a))
  PROVE  Sound' /\ Held' = Held \cup {a} /\ stack' # <<>>
<1>1. stack \in Seq(Frames) /\ Apart(Chain) /\ a \notin Elements(Chain) /\ Len(stack) \in Nat
  BY ChainFacts DEF Parse, Sound
<1>2. Frame(a) \in Frames /\ Frame(a).block = a
  BY DEF Frame, Frames
<1>3. /\ stack' \in Seq(Frames) /\ Len(stack') = Len(stack) + 1
      /\ stack'[Len(stack) + 1] = Frame(a) /\ \A k \in 1..Len(stack) : stack'[k] = stack[k]
  BY <1>1, <1>2, Pushed
<1>4. Chain' = Append(Chain, a) /\ Chain \in Seq(Addr)
  <2>1. Chain \in Seq(Addr) /\ Len(Chain) = Len(stack)
    BY <1>1 DEF Chain, Frames
  <2>2. Chain' \in Seq(Addr) /\ Len(Chain') = Len(stack) + 1
    BY <1>1, <1>3 DEF Chain, Frames
  <2>3. /\ Append(Chain, a) \in Seq(Addr) /\ Len(Append(Chain, a)) = Len(stack) + 1
        /\ Append(Chain, a)[Len(stack) + 1] = a
        /\ \A k \in 1..Len(stack) : Append(Chain, a)[k] = stack[k].block
    BY <1>1, <2>1, ChainFacts
  <2>4. \A k \in 1..(Len(stack) + 1) : Chain'[k] = stack'[k].block
    BY <1>3 DEF Chain
  <2>5. \A k \in 1..(Len(stack) + 1) : Chain'[k] = Append(Chain, a)[k]
    <3>1. \A k \in 1..(Len(stack) + 1) : k \in 1..Len(stack) \/ k = Len(stack) + 1
      BY <1>1
    <3> QED BY <1>2, <1>3, <2>3, <2>4, <3>1
  <2>6. Chain' = Append(Chain, a)
    <3> DEFINE s == Chain'
               t == Append(Chain, a)
    <3>1. s \in Seq(Addr) /\ t \in Seq(Addr) /\ Len(s) = Len(t)
          /\ \A k \in 1..Len(s) : s[k] = t[k]
      BY <2>2, <2>3, <2>5
    <3> HIDE DEF s, t
    <3>2. s = t
      BY <3>1, SeqEqual
    <3> QED BY <3>2 DEF s, t
  <2> QED BY <2>1, <2>6
<1>5. Elements(Chain') = Elements(Chain) \cup {a} /\ Apart(Chain')
  BY <1>1, <1>4, AppendFacts
<1>6. \A x \in texts' : \E k \in 1..Len(stack') : x \in TextsOf(stack'[k])
  <2>1. ASSUME NEW x \in texts' PROVE \E k \in 1..Len(stack') : x \in TextsOf(stack'[k])
    <3>1. PICK k \in 1..Len(stack) : x \in TextsOf(stack[k])
      BY <2>1 DEF Parse, Sound
    <3>2. k \in 1..Len(stack') /\ stack'[k] = stack[k]
      BY <1>1, <1>3
    <3> QED BY <3>1, <3>2
  <2> QED BY <2>1
<1>7. Sound'
  BY <1>3, <1>5, <1>6 DEF Parse, Sound
<1>8. Held' = Held \cup {a}
  BY <1>5, TreeAssumption DEF Held
<1>9. stack' # <<>>
  BY <1>1, <1>3
<1> QED BY <1>7, <1>8, <1>9

\* A new object is put on the heap and held.
LEMMA HeapGrows ==
  ASSUME Owned(heap, Held), Ranked(heap), Unused # {}, NEW name, NEW args,
         heap' = [heap EXCEPT ![Malloc] = Block(name, args)], Held' = Held \cup {Malloc}
  PROVE  Owned(heap', Held') /\ Ranked(heap')
<1> DEFINE a == Malloc
           o == Block(name, args)
<1>1. a \in Addr \ LiveOf(heap)
  BY MallocFacts
<1>2. /\ o = [kind |-> o.kind, name |-> o.name, args |-> o.args,
              dirs |-> o.dirs, subs |-> o.subs]
      /\ o.kind # "none" /\ o.dirs = <<>> /\ o.subs = <<>>
  BY NewObjects
<1> HIDE DEF a, o
<1>3. Owned([heap EXCEPT ![a] = o], Held \cup {a})
  BY <1>1, <1>2, OwnedNew
<1>4. heap' = [heap EXCEPT ![a] = o] /\ Held' = Held \cup {a}
  BY DEF a, o
<1>5. Ranked(heap')
  BY <1>1, <1>2, <1>4, RankNew
<1> QED BY <1>3, <1>4, <1>5

LEMMA InvOpenBlock == ASSUME Parse, OpenBlock PROVE Inv'
<1>1. pc = "parsing" /\ result' = result /\ toks' \in Seq(Kinds)
  <2>1. Read("lbrace") /\ "lbrace" \in Kinds
    BY DEF OpenBlock, Kinds
  <2> QED BY <2>1, ReadFacts DEF OpenBlock, Read
<1>2. \/ /\ Unused # {} /\ heap' = [heap EXCEPT ![Malloc] = Block(Top.head, Top.args)]
         /\ stack' = Append(stack, Frame(Malloc)) /\ UNCHANGED <<zap, broken, texts, pc>>
      \/ Late
      \/ \E e : Fails(e) \/ Crashes(e)
  BY DEF OpenBlock, Late, Kinds
<1>3. CASE \E e : Fails(e) \/ Crashes(e)
  BY <1>1, <1>3, InvShort
<1>4. CASE /\ Unused # {} /\ heap' = [heap EXCEPT ![Malloc] = Block(Top.head, Top.args)]
           /\ stack' = Append(stack, Frame(Malloc)) /\ UNCHANGED <<zap, broken, texts, pc>>
  <2>1. zap = {} /\ result = Null
    BY <1>1, ReadFacts
  <2>2. Sound' /\ Held' = Held \cup {Malloc} /\ stack' # <<>>
    BY <1>1, <1>4, <2>1, MallocFacts, ChainGrows
  <2>3. Owned(heap', Held') /\ Ranked(heap')
    BY <1>4, <2>2, HeapGrows DEF Parse
  <2>4. Phase' /\ broken' = "no"
    BY <1>1, <1>4, <2>1, <2>2 DEF Phase, Parse
  <2> QED BY <2>2, <2>3, <2>4 DEF Parse, Inv
<1>5. CASE Late
  BY <1>5, InvLate DEF Inv
<1> QED BY <1>2, <1>3, <1>4, <1>5

LEMMA InvCreateMain == ASSUME Parse, CreateMain PROVE Parse'
<1>1. pc = "main" /\ stack = <<>> /\ zap = {} /\ result = Null /\ toks \in Seq(Kinds)
  BY DEF CreateMain, Parse, Phase, Sound
<1>2. UNCHANGED <<zap, broken, toks, texts, result>>
  BY DEF CreateMain
<1>3. CASE /\ heap' = [heap EXCEPT ![Malloc] = Block(0, <<>>)]
           /\ stack' = <<Frame(Malloc)>> /\ pc' = "parsing"
  <2>1. Held = {}
    <3>1. Chain = <<>>
      BY <1>1 DEF Chain
    <3> QED BY <1>1, <3>1 DEF Held, Elements
  <2>2. LiveOf(heap) = {}
    BY <2>1, NoneHeld DEF Parse
  <2>3. Unused # {}
    BY <2>2, DeserializeAssumption DEF Unused, Live, LiveOf
  <2>4. stack' = Append(stack, Frame(Malloc))
    BY <1>1, <1>3
  <2>5. Sound' /\ Held' = Held \cup {Malloc} /\ stack' # <<>>
    BY <1>1, <1>2, <2>3, <2>4, MallocFacts, ChainGrows
  <2>6. Owned(heap', Held') /\ Ranked(heap')
    BY <1>3, <2>3, <2>5, HeapGrows DEF Parse
  <2>7. Phase' /\ broken' = "no"
    BY <1>1, <1>2, <1>3, <2>5 DEF Phase, Parse
  <2> QED BY <2>5, <2>6, <2>7 DEF Parse
<1>4. CASE pc' = "done" /\ UNCHANGED <<heap, stack>>
  <2>1. Chain' = Chain
    BY <1>4 DEF Chain
  <2>2. Sound'
    BY <1>2, <1>4, <2>1 DEF Parse, Sound
  <2>3. Phase'
    BY <1>1, <1>2, <1>4 DEF Phase
  <2> QED BY <1>2, <1>4, <2>1, <2>2, <2>3, TreeStays DEF tree
<1> QED BY <1>3, <1>4 DEF CreateMain

LEMMA InvSucceed == ASSUME Parse, Succeed PROVE Parse'
<1>1. /\ pc = "parsing" /\ InContents /\ Depth = 0 /\ pc' = "done" /\ result' = Top.block
      /\ stack' = <<>> /\ UNCHANGED <<tree, texts>> /\ toks' \in Seq(Kinds)
  <2>1. Read("eof") /\ "eof" \in Kinds
    BY DEF Succeed, Kinds
  <2> QED BY <2>1, ReadFacts DEF Succeed, Read
<1>2. /\ stack # <<>> /\ zap = {} /\ result = Null /\ Top.block \in Addr /\ TextsOf(Top) = {0}
  BY <1>1, ReadFacts
<1>3. Len(stack) = 1 /\ Top = stack[1]
  BY <1>1, ChainFacts DEF Depth, Top
<1>4. texts = {}
  BY <1>2, <1>3 DEF Parse, Sound
<1>5. Chain' = <<>> /\ Elements(Chain) = {Top.block}
  <2>1. Chain' = <<>>
    BY <1>1 DEF Chain
  <2>2. Len(Chain) = 1 /\ Chain[1] = Top.block
    BY <1>3, ChainFacts
  <2> QED BY <2>1, <2>2 DEF Elements
<1>6. Held' = Held /\ Elements(Chain') = {}
  <2>1. Elements(Chain') = {}
    BY <1>5 DEF Elements
  <2> QED BY <1>1, <1>2, <1>5, <2>1, TreeAssumption DEF Held, tree
<1>7. Sound'
  <2>1. Apart(Chain')
    BY <1>5 DEF Apart
  <2> QED BY <1>1, <1>4, <1>6, <2>1 DEF Parse, Sound, tree
<1>8. Owned(heap', Held') /\ Ranked(heap') /\ broken' = "no"
  BY <1>1, <1>6 DEF Parse, tree
<1>9. Phase'
  BY <1>1, <1>2 DEF Phase, tree
<1> QED BY <1>7, <1>8, <1>9 DEF Parse

\* The innermost frame is gone: its block is no longer one of theirs.
LEMMA ChainShrinks ==
  ASSUME Parse, stack # <<>>, stack' \in Seq(Frames), Len(stack') = Len(stack) - 1,
         \A k \in 1..(Len(stack) - 1) : stack'[k].block = stack[k].block
  PROVE  /\ Elements(Chain') = Elements(Chain) \ {Top.block} /\ Apart(Chain')
         /\ Top.block \in Elements(Chain)
<1>1. /\ Len(stack) \in Nat \ {0} /\ Len(Chain) = Len(stack)
      /\ \A k \in 1..Len(stack) : Chain[k] = stack[k].block
      /\ Top.block = Chain[Len(stack)] /\ Top.block \in Elements(Chain)
  BY ChainFacts DEF Top
<1>2. \A j, k \in 1..Len(stack) : Chain[j] = Chain[k] => j = k
  BY <1>1 DEF Parse, Sound, Apart
<1> DEFINE n == Len(stack) - 1
           c == Chain'
<1>3. n \in Nat /\ Len(stack) = n + 1 /\ 1..Len(stack) = (1..n) \cup {n + 1} /\ n + 1 \notin 1..n
  BY <1>1
<1>4. Len(c) = n /\ \A k \in 1..n : c[k] = stack[k].block
  BY <1>3 DEF Chain
<1>5. \A k \in 1..n : c[k] = Chain[k]
  BY <1>1, <1>3, <1>4
<1> HIDE DEF n, c
<1>6. Apart(c)
  BY <1>2, <1>3, <1>4, <1>5 DEF Apart
<1>7. Elements(c) = {Chain[k] : k \in 1..n}
  BY <1>4, <1>5 DEF Elements
<1>8. Elements(Chain) = {Chain[k] : k \in 1..n} \cup {Chain[n + 1]}
  BY <1>1, <1>3 DEF Elements
<1>9. Chain[n + 1] \notin {Chain[k] : k \in 1..n}
  BY <1>2, <1>3
<1> QED BY <1>1, <1>3, <1>6, <1>7, <1>8, <1>9 DEF c

LEMMA InvCloseBlock == ASSUME Parse, CloseBlock PROVE Inv'
<1>1. /\ pc = "parsing" /\ result' = result /\ toks' \in Seq(Kinds)
      /\ InContents /\ Depth > 0
  <2>1. Read("rbrace") /\ "rbrace" \in Kinds
    BY DEF CloseBlock, Kinds
  <2> QED BY <2>1, ReadFacts DEF CloseBlock, Read
<1>2. \/ /\ heap' = WithSubblock(heap, Parent, Top.block)
         /\ stack' = Append(SubSeq(stack, 1, Depth - 1), Frame(Parent))
         /\ Forget(stack[Depth]) /\ UNCHANGED <<zap, broken, pc>>
      \/ \E e : Fails(e) \/ Crashes(e)
  BY DEF CloseBlock
<1>3. CASE \E e : Fails(e) \/ Crashes(e)
  BY <1>1, <1>3, InvShort
<1>4. CASE /\ heap' = WithSubblock(heap, Parent, Top.block)
           /\ stack' = Append(SubSeq(stack, 1, Depth - 1), Frame(Parent))
           /\ Forget(stack[Depth]) /\ UNCHANGED <<zap, broken, pc>>
  <2>1. /\ stack # <<>> /\ zap = {} /\ result = Null /\ TextsOf(Top) = {0}
        /\ stack \in Seq(Frames)
    BY <1>1, ReadFacts DEF Parse, Sound
  <2>2. /\ Depth \in 1..Len(stack) /\ Len(stack) \in 1..Len(stack)
        /\ Depth = Len(stack) - 1 /\ Len(stack) \in Nat
    BY <1>1, <2>1, ChainFacts DEF Depth
  <2>3. /\ Parent = Chain[Depth] /\ Top.block = Chain[Len(stack)] /\ Parent # Top.block
        /\ Parent \in Held /\ Top.block \in Held /\ Parent \in LiveOf(heap)
        /\ Parent \in Addr
    <3>1. Parent = Chain[Depth] /\ Top.block = Chain[Len(stack)]
      BY <2>2, ChainFacts DEF Parent, Top
    <3>2. Chain[Depth] # Chain[Len(stack)]
      BY <2>2, ChainFacts DEF Parse, Sound, Apart
    <3> QED BY <2>2, <3>1, <3>2, ChainFacts
  <2>4. Listed(heap, heap', Parent, Top.block)
    BY <1>4 DEF Listed
  <2>5. Owned(heap', Held \ {Top.block}) /\ Ranked(heap')
    <3>1. Owned(heap, Held) /\ Ranked(heap)
      BY DEF Parse
    <3>2. Owned(heap', Held \ {Top.block})
      BY <2>3, <2>4, <3>1, OwnedListed
    <3>3. Ranked(heap')
      BY <2>3, <2>4, <3>1, RankListed
    <3> QED BY <3>2, <3>3
  <2> DEFINE r == SubSeq(stack, 1, Depth - 1)
             f == Frame(Parent)
  <2>6. r \in Seq(Frames) /\ Len(r) = Depth - 1 /\ \A k \in 1..(Depth - 1) : r[k] = stack[k]
    <3>1. Depth - 1 \in 0..Len(stack)
      BY <2>2
    <3> QED BY <2>1, <3>1, Kept, Zenon
  <2>7. f \in Frames /\ f.block = Parent
    BY <2>3 DEF Frame, Frames
  <2> HIDE DEF r, f
  <2>8. /\ stack' \in Seq(Frames) /\ Len(stack') = Depth /\ stack'[Depth] = f
        /\ \A k \in 1..(Depth - 1) : stack'[k] = stack[k]
    <3>1. stack' = Append(r, f)
      BY <1>4 DEF r, f
    <3>2. /\ stack' \in Seq(Frames) /\ Len(stack') = Len(r) + 1 /\ Len(r) \in Nat
          /\ stack'[Len(r) + 1] = f /\ \A k \in 1..Len(r) : stack'[k] = r[k]
      BY <2>6, <2>7, <3>1, Pushed
    <3>3. Depth - 1 + 1 = Depth
      BY <2>2
    <3> QED BY <2>6, <3>2, <3>3
  <2>9. 1..Depth = (1..(Depth - 1)) \cup {Depth} /\ 1..Len(stack) = (1..Depth) \cup {Len(stack)}
    BY <2>2
  <2>10. \A k \in 1..(Len(stack) - 1) : stack'[k].block = stack[k].block
    <3>1. stack[Depth].block = Parent
      BY DEF Parent
    <3> QED BY <2>2, <2>7, <2>8, <2>9, <3>1
  <2>11. /\ Elements(Chain') = Elements(Chain) \ {Top.block} /\ Apart(Chain')
    BY <2>1, <2>2, <2>8, <2>10, ChainShrinks
  <2>12. \A x \in texts' : \E k \in 1..Len(stack') : x \in TextsOf(stack'[k])
    <3>1. ASSUME NEW x \in texts' PROVE \E k \in 1..Len(stack') : x \in TextsOf(stack'[k])
      <4>1. x \in texts /\ x \notin TextsOf(stack[Depth]) /\ x # 0
        BY <1>4, <3>1 DEF Forget, TextsOf, Parse, Sound
      <4>2. PICK k \in 1..Len(stack) : x \in TextsOf(stack[k])
        BY <4>1 DEF Parse, Sound
      <4>3. k # Depth /\ k # Len(stack)
        BY <2>1, <4>1, <4>2 DEF Top
      <4>4. k \in 1..(Depth - 1) /\ k \in 1..Depth
        BY <2>9, <4>2, <4>3
      <4> QED BY <2>8, <4>2, <4>4
    <3> QED BY <3>1
  <2>13. Sound'
    BY <1>1, <1>4, <2>1, <2>8, <2>11, <2>12 DEF Forget, Parse, Sound
  <2>14. Held' = Held \ {Top.block}
    BY <1>1, <1>4, <2>1, <2>11 DEF Held
  <2>15. stack' # <<>>
    BY <2>2, <2>8
  <2>16. Phase' /\ broken' = "no"
    BY <1>1, <1>4, <2>1, <2>15 DEF Phase, Parse
  <2> QED BY <2>5, <2>13, <2>14, <2>16 DEF Parse, Inv
<1> QED BY <1>2, <1>3, <1>4

LEMMA InvUnwind == ASSUME Parse, Unwind PROVE Parse'
<1>1. /\ pc = "failing" /\ zap = {} /\ result = Null /\ UNCHANGED <<heap, broken, toks, result>>
      /\ stack \in Seq(Frames)
  BY DEF Unwind, Parse, Phase, Sound
<1>2. CASE stack = <<>>
  <2>1. pc' = "done" /\ UNCHANGED <<stack, zap, texts>>
    BY <1>2 DEF Unwind
  <2>2. Chain' = Chain
    BY <2>1 DEF Chain
  <2>3. Sound'
    BY <1>1, <2>1, <2>2 DEF Parse, Sound
  <2>4. Phase'
    BY <1>1, <1>2, <2>1 DEF Phase
  <2> QED BY <1>1, <2>1, <2>2, <2>3, <2>4, TreeStays DEF tree
<1>3. CASE stack # <<>>
  <2>1. Forget(Top) /\ zap' = {Top.block} /\ stack' = Below /\ pc' = pc
    BY <1>3 DEF Unwind
  <2>2. /\ stack' \in Seq(Frames) /\ Len(stack') = Len(stack) - 1 /\ Len(stack) \in Nat \ {0}
        /\ \A k \in 1..(Len(stack) - 1) : stack'[k] = stack[k]
    BY <1>1, <1>3, <2>1, Popped, Zenon DEF Below
  <2>3. /\ Elements(Chain') = Elements(Chain) \ {Top.block} /\ Apart(Chain')
        /\ Top.block \in Elements(Chain)
    BY <1>3, <2>2, ChainShrinks
  <2>4. \A x \in texts' : \E k \in 1..Len(stack') : x \in TextsOf(stack'[k])
    <3>1. ASSUME NEW x \in texts' PROVE \E k \in 1..Len(stack') : x \in TextsOf(stack'[k])
      <4>1. x \in texts /\ x \notin TextsOf(Top)
        BY <2>1, <3>1 DEF Forget, TextsOf
      <4>2. PICK k \in 1..Len(stack) : x \in TextsOf(stack[k])
        BY <4>1 DEF Parse, Sound
      <4>3. k \in 1..(Len(stack) - 1)
        BY <2>2, <4>1, <4>2 DEF Top
      <4> QED BY <2>2, <4>2, <4>3
    <3> QED BY <3>1
  <2>5. Sound'
    BY <1>1, <2>1, <2>2, <2>3, <2>4 DEF Forget, Parse, Sound
  <2>6. Held' = Held
    BY <1>1, <2>1, <2>3 DEF Held
  <2>7. Phase' /\ broken' = "no"
    BY <1>1, <2>1 DEF Phase, Parse
  <2>8. Owned(heap', Held') /\ Ranked(heap')
    BY <1>1, <2>6 DEF Parse
  <2> QED BY <2>5, <2>7, <2>8 DEF Parse
<1> QED BY <1>2, <1>3

LEMMA InvFree == ASSUME Parse, Free PROVE Parse'
<1> DEFINE a == CHOOSE x \in zap : TRUE
<1>1. /\ zap # {} /\ heap' = [heap EXCEPT ![a] = NoObject]
      /\ zap' = (zap \ {a}) \cup Elements(Kids(heap[a]))
      /\ broken' = (IF a \in Live THEN broken ELSE "double free")
      /\ UNCHANGED <<toks, stack, texts, pc, result>>
  BY DEF Free, FreeStep
<1>2. a \in zap
  BY <1>1
<1> HIDE DEF a
<1>3. pc = "failing" /\ result = Null
  BY <1>1 DEF Parse, Phase
<1>4. /\ Owned(heap, Held) /\ Ranked(heap) /\ a \in Held /\ a \in LiveOf(heap)
      /\ a \notin Elements(Chain)
  BY <1>2, ChainFacts DEF Parse, Sound, Held
<1>5. Elements(Kids(heap[a])) = Kin(heap[a])
  <2>1. heap[a].dirs \in Seq(LiveOf(heap)) /\ heap[a].subs \in Seq(LiveOf(heap))
    BY <1>4 DEF Owned, Object
  <2> QED BY <2>1, ConcatFacts DEF Kids, Kin
<1>6. /\ Owned(heap', (Held \ {a}) \cup Kin(heap[a]))
      /\ LiveOf(heap') = LiveOf(heap) \ {a}
  BY <1>1, <1>4, OwnedFreed
<1>7. Chain' = Chain
  BY <1>1 DEF Chain
<1>8. Kin(heap[a]) \cap Held = {}
  BY <1>4 DEF Owned
<1>9. Held' = (Held \ {a}) \cup Kin(heap[a])
  BY <1>1, <1>3, <1>4, <1>5, <1>7 DEF Held
<1>10. Sound'
  BY <1>1, <1>5, <1>7, <1>8 DEF Parse, Sound, Held
<1>11. Ranked(heap')
  <2>1. heap' = [x \in Addr |-> IF x = a THEN NoObject ELSE heap[x]]
    BY <1>1, <1>4 DEF Owned
  <2>2. \A b \in LiveOf(heap') : b \in LiveOf(heap) /\ heap'[b] = heap[b]
    BY <1>6, <2>1 DEF LiveOf
  <2> QED BY <1>4, <2>2, RankKept
<1>12. broken' = "no" /\ Phase'
  BY <1>1, <1>3, <1>4 DEF Parse, Phase, Live, LiveOf
<1> QED BY <1>6, <1>9, <1>10, <1>11, <1>12 DEF Parse

LEMMA InvInit == Init => Inv
<1> SUFFICES ASSUME Init PROVE Parse
  BY DEF Inv
<1>1. Chain = <<>>
  BY DEF Init, Chain
<1>2. Elements(Chain) = {} /\ Apart(Chain) /\ Held = {}
  BY <1>1 DEF Init, Elements, Apart, Held
<1>3. LiveOf(heap) = {} /\ heap = [a \in Addr |-> heap[a]]
  BY DEF Init, LiveOf, NoObject
<1>4. Owned(heap, Held)
  BY <1>2, <1>3 DEF Owned
<1>5. Ranked(heap)
  <2>1. [a \in Addr |-> 0] \in [Addr -> 0..0] /\ 0 \in Nat
    OBVIOUS
  <2> QED BY <1>3, <2>1 DEF Ranked
<1>6. Sound /\ Phase
  BY <1>2 DEF Init, Sound, Phase
<1> QED BY <1>4, <1>5, <1>6 DEF Init, Parse

LEMMA InvNext == Inv /\ [Next]_vars => Inv'
<1> SUFFICES ASSUME Inv, [Next]_vars PROVE Inv'
  OBVIOUS
<1>1. CASE UNCHANGED vars
  <2>1. /\ heap' = heap /\ zap' = zap /\ broken' = broken /\ toks' = toks /\ stack' = stack
        /\ texts' = texts /\ pc' = pc /\ result' = result
    BY <1>1 DEF vars
  <2>2. CASE Parse
    <3>1. Chain' = Chain
      BY <2>1 DEF Chain
    <3>2. Sound' /\ Phase'
      BY <2>1, <2>2, <3>1 DEF Parse, Sound, Phase
    <3>3. Parse'
      BY <2>1, <2>2, <3>1, <3>2, TreeStays DEF tree
    <3> QED BY <3>3 DEF Inv
  <2>3. CASE broken = "NULL list" /\ pc = "parsing"
    BY <2>1, <2>3 DEF Inv
  <2> QED BY <2>2, <2>3 DEF Inv
<1>2. CASE broken = "NULL list" /\ pc = "parsing" /\ Next
  <2>1. ~CreateMain /\ ~(\E k \in Kinds : Read(k)) /\ ~Unwind /\ ~Free /\ ~Refuse
    BY <1>2 DEF CreateMain, Read, Unwind, Free, FreeStep, Refuse
  <2>2. {"word", "semicolon", "lbrace", "rbrace", "eof"} \subseteq Kinds
    BY DEF Kinds
  <2>3. /\ ~ReadHead /\ ~StoreDirective /\ ~OpenBlock /\ ~CloseBlock /\ ~Succeed
        /\ ~(\E k \in Kinds : ReadArg(k))
    BY <2>1, <2>2 DEF ReadHead, StoreDirective, OpenBlock, CloseBlock, Succeed, ReadArg
  <2> QED BY <1>2, <2>1, <2>3 DEF Next
<1>3. CASE Parse /\ Next
  <2>1. CASE CreateMain
    BY <1>3, <2>1, InvCreateMain DEF Inv
  <2>2. CASE ReadHead
    BY <1>3, <2>2, InvReadHead DEF Inv
  <2>3. CASE \E k \in Kinds : ReadArg(k)
    BY <1>3, <2>3, InvReadArg DEF Inv
  <2>4. CASE StoreDirective
    BY <1>3, <2>4, InvStoreDirective
  <2>5. CASE OpenBlock
    BY <1>3, <2>5, InvOpenBlock
  <2>6. CASE CloseBlock
    BY <1>3, <2>6, InvCloseBlock
  <2>7. CASE Succeed
    BY <1>3, <2>7, InvSucceed DEF Inv
  <2>8. CASE Refuse
    BY <1>3, <2>8, InvRefuse DEF Inv
  <2>9. CASE Unwind
    BY <1>3, <2>9, InvUnwind DEF Inv
  <2>10. CASE Free
    BY <1>3, <2>10, InvFree DEF Inv
  <2> QED BY <1>3, <2>1, <2>2, <2>3, <2>4, <2>5, <2>6, <2>7, <2>8, <2>9, <2>10 DEF Next
<1> QED BY <1>1, <1>2, <1>3 DEF Inv

\* What is held is the frames', the result's or the free under way.
LEMMA RootsHold == Parse => Holders(Roots, Held)
<1> SUFFICES ASSUME Parse PROVE Holders(Roots, Held)
  OBVIOUS
<1> DEFINE r == Roots
           s == <<result>>
           S == Addr \cup {Null}
<1>1. /\ Chain \in Seq(S) /\ s \in Seq(S) /\ Len(s) = 1 /\ s[1] = result
      /\ r = Chain \o s
  <2>1. result \in S
    BY DEF Parse, Phase
  <2>2. Chain \in Seq(S)
    BY DEF Parse, Sound, Chain, Frames
  <2> QED BY <2>1, <2>2 DEF Roots, Chain
<1>2. Elements(s) = {result} /\ Apart(s)
  BY <1>1 DEF Elements, Apart
<1>3. Apart(Chain) /\ zap \cap Elements(Chain) = {} /\ Elements(Chain) \subseteq Addr
      /\ Null \notin Addr /\ zap \subseteq Addr
  BY ChainFacts DEF Parse, Sound, Held
<1>4. result = Null \/ (Elements(Chain) = {} /\ zap = {})
  <2>1. stack = <<>> => Elements(Chain) = {}
    <3>1. ASSUME stack = <<>> PROVE Chain = <<>>
      BY <3>1 DEF Chain
    <3> QED BY <3>1 DEF Elements
  <2> QED BY <2>1 DEF Parse, Phase
<1> HIDE DEF r, s, S
<1>5. r \in Seq(S) /\ Elements(r) = Elements(Chain) \cup {result}
  BY <1>1, <1>2, ConcatFacts
<1>6. Apart(r)
  <2>1. Elements(Chain) \cap Elements(s) = {}
    BY <1>2, <1>3, <1>4
  <2> QED BY <1>1, <1>2, <1>3, <2>1, ConcatFacts
<1>7. Held = (Elements(r) \ {Null}) \cup zap
  BY <1>3, <1>5 DEF Held
<1>8. zap \cap Elements(r) = {}
  BY <1>3, <1>4, <1>5
<1>9. r \in Seq(Addr \cup {Null})
  BY <1>5 DEF S
<1> QED BY <1>6, <1>7, <1>8, <1>9 DEF Holders, Apart, r

\* Wherever an allocation of config_deserialize fails, each block and directive
\* that is live has exactly one place that will free it, nothing refers to one
\* that is gone, and none is freed twice.
THEOREM OwnedOnce == Spec => []OneOwner
<1>1. Inv => OneOwner
  <2> SUFFICES ASSUME Inv PROVE OneOwner
    OBVIOUS
  <2>1. ASSUME Parse, NEW a \in Addr
        PROVE  Cardinality(Owners(a, Roots)) = IF a \in Live THEN 1 ELSE 0
    BY <2>1, RootsHold, OwnersCount DEF Parse
  <2>2. broken # "double free" /\ (broken = "no" => Parse)
    BY DEF Inv, Parse
  <2> QED BY <2>1, <2>2 DEF OneOwner
<1> QED BY <1>1, InvInit, InvNext, PTL DEF Spec

\* When config_deserialize returns, no token text is left, and if it returns
\* NULL no block or directive either.
THEOREM NothingLeft == Spec => []CleanEnd
<1>1. Inv => CleanEnd
  <2> SUFFICES ASSUME Inv, pc = "done" PROVE texts = {} /\ (result = Null => Live = {})
    BY DEF CleanEnd
  <2>1. Parse /\ stack = <<>> /\ zap = {}
    BY DEF Inv, Parse, Phase
  <2>2. texts = {}
    BY <2>1 DEF Parse, Sound
  <2>3. ASSUME result = Null PROVE Live = {}
    <3>1. Chain = <<>>
      BY <2>1 DEF Chain
    <3>2. Held = {}
      BY <2>1, <2>3, <3>1 DEF Held, Elements
    <3> QED BY <2>1, <3>2, NoneHeld DEF Parse, Live, LiveOf
  <2> QED BY <2>2, <2>3
<1> QED BY <1>1, InvInit, InvNext, PTL DEF Spec
-----------------------------------------------------------------------------
\* Grammar: what one more token makes of the positions of an input.

Separators == {"semicolon", "lbrace", "rbrace"}

LEMMA LastFacts ==
  ASSUME NEW b \in Nat, NEW S \in SUBSET (1..b)
  PROVE  /\ Last(S) \in S \cup {0} /\ \A y \in S : y <= Last(S)
         /\ \A x \in S : (\A y \in S : y <= x) => Last(S) = x
         /\ Last(S) \in 0..b /\ (S = {} => Last(S) = 0)
         /\ S # {} => Last(S) \in S /\ Last(S) \in 1..b
<1>1. \E x \in S \cup {0} : \A y \in S : y <= x
  <2>1. CASE S = {}
    BY <2>1
  <2>2. CASE S # {}
    <3>1. S \in SUBSET Nat /\ \A x \in S : x <= b
      OBVIOUS
    <3> QED BY <2>2, <3>1, NatMax
  <2> QED BY <2>1, <2>2
<1>2. Last(S) \in S \cup {0} /\ \A y \in S : y <= Last(S)
  BY <1>1 DEF Last
<1>3. ASSUME NEW x \in S, \A y \in S : y <= x PROVE Last(S) = x
  <2>1. x \in 1..b /\ x <= Last(S)
    BY <1>2
  <2>2. Last(S) \in S \/ Last(S) = 0
    BY <1>2
  <2>3. Last(S) # 0
    BY <2>1
  <2>4. Last(S) \in 1..b /\ Last(S) <= x
    BY <1>3, <2>2, <2>3
  <2> QED BY <2>1, <2>4
<1>4. CASE S = {}
  BY <1>2, <1>4
<1>5. CASE S # {}
  <2>1. PICK y \in S : y <= Last(S) /\ y \in 1..b
    BY <1>2, <1>5
  <2>2. Last(S) # 0
    BY <2>1
  <2>3. Last(S) \in S
    BY <1>2, <2>2
  <2>4. \A x \in S : x \in 1..b /\ x \in 0..b
    OBVIOUS
  <2>5. Last(S) \in 1..b /\ Last(S) \in 0..b
    BY <2>3, <2>4
  <2> QED BY <1>2, <1>3, <1>5, <2>3, <2>5
<1> QED BY <1>2, <1>3, <1>4, <1>5

LEMMA HeadFacts ==
  ASSUME NEW t, NEW p \in Nat \ {0}
  PROVE  /\ HeadOf(t, p) \in 1..p
         /\ \A q \in 1..(p - 1) : t[q] \in Separators => q < HeadOf(t, p)
<1> DEFINE S == {q \in 1..(p - 1) : t[q] \in {"semicolon", "lbrace", "rbrace"}}
<1>1. p - 1 \in Nat /\ S \in SUBSET (1..(p - 1)) /\ HeadOf(t, p) = 1 + Last(S)
  BY DEF HeadOf
<1>2. Last(S) \in S \cup {0} /\ \A y \in S : y <= Last(S)
  BY <1>1, LastFacts
<1>3. \A q \in 1..(p - 1) : t[q] \in Separators => q \in S
  BY DEF Separators
<1> HIDE DEF S
<1>4. Last(S) \in 0..(p - 1)
  BY <1>1, LastFacts
<1>5. HeadOf(t, p) \in 1..p
  BY <1>1, <1>4
<1>6. ASSUME NEW q \in 1..(p - 1), t[q] \in Separators PROVE q < HeadOf(t, p)
  <2>1. q <= Last(S)
    BY <1>2, <1>3, <1>6
  <2> QED BY <1>1, <1>4, <2>1
<1> QED BY <1>5, <1>6

\* u is t with one more token.
Longer(t, k, u) == /\ Len(u) = Len(t) + 1 /\ Len(t) \in Nat /\ u[Len(t) + 1] = k
                   /\ \A q \in 1..Len(t) : u[q] = t[q]

LEMMA HeadKept ==
  ASSUME NEW t, NEW k, NEW u, Longer(t, k, u), NEW p \in 1..(Len(t) + 1)
  PROVE  HeadOf(u, p) = HeadOf(t, p) /\ ArgsOf(u, p) = ArgsOf(t, p)
<1>1. Len(t) \in Nat /\ \A q \in 1..(p - 1) : u[q] = t[q]
  BY DEF Longer
<1>2. {q \in 1..(p - 1) : u[q] \in {"semicolon", "lbrace", "rbrace"}}
        = {q \in 1..(p - 1) : t[q] \in {"semicolon", "lbrace", "rbrace"}}
  BY <1>1
<1>3. HeadOf(u, p) = HeadOf(t, p)
  BY <1>2 DEF HeadOf
<1>4. HeadOf(t, p) \in 1..p
  BY <1>1, HeadFacts
<1> DEFINE h == HeadOf(t, p)
<1> HIDE DEF h
<1>5. \A j \in 1..(p - 1 - h) : u[h + j] = t[h + j]
  BY <1>1, <1>4 DEF h
<1>6. ArgsOf(u, p) = [j \in 1..(p - 1 - h) |-> IF u[h + j] = "word" THEN h + j ELSE Null]
  BY <1>3 DEF ArgsOf, h
<1>7. ArgsOf(t, p) = [j \in 1..(p - 1 - h) |-> IF t[h + j] = "word" THEN h + j ELSE Null]
  BY DEF ArgsOf, h
<1> QED BY <1>3, <1>5, <1>6, <1>7

\* A separator ends the statement; another token goes on with it.
LEMMA HeadNext ==
  ASSUME NEW t, NEW k, NEW u, Longer(t, k, u)
  PROVE  HeadOf(u, Len(t) + 2) = IF k \in Separators THEN Len(t) + 2 ELSE HeadOf(t, Len(t) + 1)
<1> DEFINE n == Len(t)
           S(s, m) == {q \in 1..m : s[q] \in {"semicolon", "lbrace", "rbrace"}}
<1>1. /\ n \in Nat /\ u[n + 1] = k /\ \A q \in 1..n : u[q] = t[q]
      /\ n + 2 - 1 = n + 1 /\ n + 1 - 1 = n
  BY DEF Longer
<1> HIDE DEF n
<1>2. HeadOf(u, n + 2) = 1 + Last(S(u, n + 1)) /\ HeadOf(t, n + 1) = 1 + Last(S(t, n))
  BY <1>1 DEF HeadOf
<1>3. CASE k \in Separators
  <2>1. n + 1 \in S(u, n + 1) /\ \A y \in S(u, n + 1) : y <= n + 1
    BY <1>1, <1>3 DEF Separators
  <2>2. S(u, n + 1) \in SUBSET (1..(n + 1)) /\ n + 1 \in Nat
    BY <1>1
  <2>3. Last(S(u, n + 1)) = n + 1
    <3> HIDE DEF S
    <3> QED BY <2>1, <2>2, LastFacts
  <2> QED BY <1>1, <1>2, <1>3, <2>3 DEF n
<1>4. CASE k \notin Separators
  <2>1. \A q \in 1..(n + 1) : q \in 1..n \/ q = n + 1
    BY <1>1
  <2>2. S(u, n + 1) = S(t, n)
    BY <1>1, <1>4, <2>1 DEF Separators
  <2> QED BY <1>2, <1>4, <2>2 DEF n
<1> QED BY <1>3, <1>4

LEMMA ArgsNext ==
  ASSUME NEW t, NEW k, NEW u, Longer(t, k, u), k \notin Separators
  PROVE  /\ HeadOf(t, Len(t) + 1) = Len(t) + 1 => ArgsOf(u, Len(t) + 2) = <<>>
         /\ HeadOf(t, Len(t) + 1) # Len(t) + 1 =>
              ArgsOf(u, Len(t) + 2)
                = Append(ArgsOf(t, Len(t) + 1), IF k = "word" THEN Len(t) + 1 ELSE Null)
<1> DEFINE n == Len(t)
           h == HeadOf(t, n + 1)
           A(s, m) == [j \in 1..m |-> IF s[h + j] = "word" THEN h + j ELSE Null]
<1>1. /\ n \in Nat /\ u[n + 1] = k /\ \A q \in 1..n : u[q] = t[q]
      /\ HeadOf(u, n + 2) = h /\ h \in 1..(n + 1)
      /\ n + 2 - 1 - h = n + 1 - h /\ n + 1 - 1 - h = n - h
  <2>1. n \in Nat /\ n + 1 \in Nat \ {0} /\ h \in 1..(n + 1)
    BY HeadFacts DEF Longer
  <2>2. HeadOf(u, n + 2) = h
    BY HeadNext
  <2> HIDE DEF h
  <2> QED BY <2>1, <2>2 DEF Longer
<1>2. ArgsOf(u, n + 2) = A(u, n + 1 - h) /\ ArgsOf(t, n + 1) = A(t, n - h)
  BY <1>1 DEF ArgsOf
<1> HIDE DEF n, h
<1>3. CASE h = n + 1
  <2>1. n + 1 - h = 0 /\ 1..0 = {}
    BY <1>1, <1>3
  <2>2. A(u, n + 1 - h) = <<>>
    BY <2>1
  <2> QED BY <1>2, <1>3, <2>2 DEF n, h
<1>4. CASE h # n + 1
  <2> DEFINE m == n - h
             x == IF k = "word" THEN n + 1 ELSE Null
             S == Nat \cup {Null}
  <2>1. m \in Nat /\ n + 1 - h = m + 1 /\ h + (m + 1) = n + 1 /\ h \in Nat
    BY <1>1, <1>4
  <2>2. \A j \in 1..m : u[h + j] = t[h + j]
    BY <1>1, <2>1
  <2> HIDE DEF m
  <2>3. A(t, m) \in Seq(S) /\ Len(A(t, m)) = m /\ x \in S
    BY <1>1, <2>1
  <2>4. A(u, m + 1) \in Seq(S) /\ Len(A(u, m + 1)) = m + 1
    BY <2>1
  <2>5. \A j \in 1..(m + 1) : j \in 1..m \/ j = m + 1
    BY <2>1
  <2>6. A(u, m + 1)[m + 1] = x /\ \A j \in 1..m : A(u, m + 1)[j] = A(t, m)[j]
    BY <1>1, <2>1, <2>2
  <2> HIDE DEF A, x, S
  <2>7. /\ Append(A(t, m), x) \in Seq(S) /\ Len(Append(A(t, m), x)) = m + 1
        /\ Append(A(t, m), x)[m + 1] = x
        /\ \A j \in 1..m : Append(A(t, m), x)[j] = A(t, m)[j]
    BY <2>1, <2>3
  <2>8. \A j \in 1..(m + 1) : A(u, m + 1)[j] = Append(A(t, m), x)[j]
    BY <2>5, <2>6, <2>7
  <2>9. A(u, m + 1) = Append(A(t, m), x)
    <3> DEFINE v == A(u, m + 1)
               w == Append(A(t, m), x)
    <3>1. v \in Seq(S) /\ w \in Seq(S) /\ Len(v) = Len(w) /\ \A j \in 1..Len(v) : v[j] = w[j]
      BY <2>4, <2>7, <2>8
    <3> HIDE DEF v, w
    <3>2. v = w
      BY <3>1, SeqEqual
    <3> QED BY <3>2 DEF v, w
  <2> QED BY <1>2, <1>4, <2>1, <2>9 DEF n, h, m, x
<1> QED BY <1>3, <1>4 DEF n, h

\* How many of the first p tokens are of kind k.
Count(t, k, p) == Cardinality({q \in 1..p : t[q] = k})

LEMMA CountFacts ==
  ASSUME NEW t, NEW k
  PROVE  /\ \A p \in Nat : Count(t, k, p) \in Nat
         /\ Count(t, k, 0) = 0
         /\ \A p \in Nat \ {0} :
              Count(t, k, p) = Count(t, k, p - 1) + (IF t[p] = k THEN 1 ELSE 0)
<1> DEFINE S(p) == {q \in 1..p : t[q] = k}
<1>1. ASSUME NEW p \in Nat PROVE IsFiniteSet(S(p)) /\ Cardinality(S(p)) \in Nat
  <2>1. IsFiniteSet(1..p)
    BY FS_Interval
  <2>2. S(p) \subseteq 1..p
    OBVIOUS
  <2> QED BY <2>1, <2>2, FS_Subset, FS_CardinalityType
<1>2. S(0) = {} /\ Cardinality({}) = 0
  BY FS_EmptySet
<1>3. ASSUME NEW p \in Nat \ {0}
      PROVE  Cardinality(S(p)) = Cardinality(S(p - 1)) + (IF t[p] = k THEN 1 ELSE 0)
  <2>1. p - 1 \in Nat /\ p \notin S(p - 1) /\ \A q \in 1..p : q \in 1..(p - 1) \/ q = p
    OBVIOUS
  <2>2. IsFiniteSet(S(p - 1)) /\ Cardinality(S(p - 1)) \in Nat
    BY <1>1, <2>1
  <2>3. S(p) = IF t[p] = k THEN S(p - 1) \cup {p} ELSE S(p - 1)
    BY <2>1
  <2>4. Cardinality(S(p - 1) \cup {p}) = Cardinality(S(p - 1)) + 1
    <3> HIDE DEF S
    <3> QED BY <2>1, <2>2, FS_AddElement
  <2> HIDE DEF S
  <2> QED BY <2>2, <2>3, <2>4
<1> QED BY <1>1, <1>2, <1>3 DEF Count

\* Each brace changes the depth by one.
LEMMA DepthFacts ==
  ASSUME NEW t
  PROVE  /\ DepthAt(t, 0) = 0
         /\ \A p \in Nat : DepthAt(t, p) \in Int
         /\ \A p \in Nat \ {0} :
              DepthAt(t, p) = DepthAt(t, p - 1)
                 + (IF t[p] = "lbrace" THEN 1 ELSE IF t[p] = "rbrace" THEN -1 ELSE 0)
<1>1. \A p : DepthAt(t, p) = Count(t, "lbrace", p) - Count(t, "rbrace", p)
  BY DEF DepthAt, Count
<1>2. ASSUME NEW p \in Nat \ {0}
      PROVE  DepthAt(t, p) = DepthAt(t, p - 1)
                 + (IF t[p] = "lbrace" THEN 1 ELSE IF t[p] = "rbrace" THEN -1 ELSE 0)
  <2>1. /\ Count(t, "lbrace", p) = Count(t, "lbrace", p - 1) + (IF t[p] = "lbrace" THEN 1 ELSE 0)
        /\ Count(t, "rbrace", p) = Count(t, "rbrace", p - 1) + (IF t[p] = "rbrace" THEN 1 ELSE 0)
        /\ Count(t, "lbrace", p - 1) \in Nat /\ Count(t, "rbrace", p - 1) \in Nat
    <3>1. p - 1 \in Nat
      OBVIOUS
    <3>2. ASSUME NEW k
          PROVE  /\ Count(t, k, p) = Count(t, k, p - 1) + (IF t[p] = k THEN 1 ELSE 0)
                 /\ Count(t, k, p - 1) \in Nat
      BY <3>1, CountFacts
    <3> QED BY <3>2
  <2> QED BY <1>1, <2>1
<1>3. DepthAt(t, 0) = 0 /\ \A p \in Nat : DepthAt(t, p) \in Int
  BY <1>1, CountFacts
<1> QED BY <1>2, <1>3

LEMMA DepthKept ==
  ASSUME NEW t, NEW k, NEW u, Longer(t, k, u), NEW p \in 0..Len(t)
  PROVE  DepthAt(u, p) = DepthAt(t, p)
<1>1. \A q \in 1..p : u[q] = t[q]
  BY DEF Longer
<1> QED BY <1>1 DEF DepthAt

\* Legal tokens stay so.
LEMMA LegalKept ==
  ASSUME NEW t, NEW k, NEW u, Longer(t, k, u), NEW p \in 1..Len(t)
  PROVE  Legal(u, p) = Legal(t, p)
<1>1. p - 1 \in 0..Len(t) /\ u[p] = t[p] /\ (p > 1 => u[p - 1] = t[p - 1])
  BY DEF Longer
<1>2. DepthAt(u, p - 1) = DepthAt(t, p - 1)
  BY <1>1, DepthKept
<1> QED BY <1>1, <1>2 DEF Legal

LEMMA OpenKept ==
  ASSUME NEW t, NEW k, NEW u, Longer(t, k, u), NEW p \in 1..(Len(t) + 1)
  PROVE  Open(u, p) = Open(t, p) /\ BlockOf(u, p) = BlockOf(t, p)
<1>0. Len(t) \in Nat /\ p \in Nat \ {0} /\ p - 1 \in Nat
  BY DEF Longer
<1>1. \A q \in 1..(p - 1) : u[q] = t[q] /\ DepthAt(u, q) = DepthAt(t, q)
  <2>1. \A q \in 1..(p - 1) : q \in 1..Len(t) /\ q \in 0..Len(t)
    BY <1>0
  <2> QED BY <2>1, DepthKept DEF Longer
<1>2. \A q \in 1..(p - 1) : \A r \in q..(p - 1) : r \in 1..(p - 1)
  BY <1>0
<1>3. Open(u, p) = Open(t, p)
  BY <1>1, <1>2 DEF Open
<1>4. Open(t, p) # {} => Last(Open(t, p)) \in 1..(Len(t) + 1)
  <2> DEFINE S == Open(t, p)
  <2>1. S \in SUBSET (1..(p - 1))
    BY DEF Open
  <2> HIDE DEF S
  <2>2. S # {} => Last(S) \in 1..(p - 1)
    BY <1>0, <2>1, LastFacts
  <2> QED BY <1>0, <2>2 DEF S
<1> QED BY <1>3, <1>4, HeadKept DEF BlockOf

\* An opening brace opens a block, a closing one closes the innermost.
LEMMA OpenNext ==
  ASSUME NEW t, NEW k, NEW u, Longer(t, k, u)
  PROVE  Open(u, Len(t) + 2) =
           IF k = "lbrace" THEN Open(t, Len(t) + 1) \cup {Len(t) + 1}
           ELSE IF k = "rbrace"
             THEN {q \in Open(t, Len(t) + 1) : DepthAt(t, q) < DepthAt(t, Len(t))}
             ELSE Open(t, Len(t) + 1)
<1> DEFINE n == Len(t)
           d(q) == DepthAt(t, q)
           e == DepthAt(u, n + 1)
<1>1. n \in Nat /\ u[n + 1] = k /\ \A q \in 1..n : u[q] = t[q]
  BY DEF Longer
<1>2. /\ \A q \in 1..n : DepthAt(u, q) = d(q) /\ d(q) \in Int
      /\ d(n) \in Int
      /\ e = d(n) + (IF k = "lbrace" THEN 1 ELSE IF k = "rbrace" THEN -1 ELSE 0)
  <2>1. \A q \in 0..n : DepthAt(u, q) = DepthAt(t, q) /\ DepthAt(t, q) \in Int
    BY DepthKept, DepthFacts
  <2>2. n + 1 \in Nat \ {0} /\ n + 1 - 1 = n /\ n \in 0..n /\ \A q \in 1..n : q \in 0..n
    BY <1>1
  <2>3. DepthAt(u, n + 1) = DepthAt(u, n)
                 + (IF u[n + 1] = "lbrace" THEN 1 ELSE IF u[n + 1] = "rbrace" THEN -1 ELSE 0)
    BY <2>2, DepthFacts
  <2> QED BY <1>1, <2>1, <2>2, <2>3
<1>3. \A q : q \in Open(t, n + 1) <=> /\ q \in 1..n /\ t[q] = "lbrace"
                                      /\ \A r \in q..n : d(r) >= d(q)
  <2>1. n + 1 - 1 = n
    BY <1>1
  <2> QED BY <2>1 DEF Open
<1>4. \A q : q \in Open(u, n + 2) <=>
        /\ q \in 1..(n + 1) /\ u[q] = "lbrace"
        /\ \A r \in q..(n + 1) : DepthAt(u, r) >= DepthAt(u, q)
  <2>1. n + 2 - 1 = n + 1
    BY <1>1
  <2> QED BY <2>1 DEF Open
<1> HIDE DEF n, d, e
<1>5. n + 1 \in Open(u, n + 2) <=> k = "lbrace"
  <2>1. n + 1 \in 1..(n + 1) /\ \A r \in (n + 1)..(n + 1) : r = n + 1
    BY <1>1
  <2>2. e >= e
    BY <1>2
  <2> QED BY <1>1, <1>4, <2>1, <2>2 DEF e
<1>6. ASSUME NEW q \in 1..n
      PROVE  q \in Open(u, n + 2) <=> q \in Open(t, n + 1) /\ e >= d(q)
  <2>1. /\ q \in 1..(n + 1) /\ u[q] = t[q] /\ DepthAt(u, q) = d(q)
        /\ \A r : r \in q..(n + 1) <=> r \in q..n \/ r = n + 1
        /\ \A r \in q..n : r \in 1..n
    BY <1>1, <1>2
  <2>2. \A r \in q..n : DepthAt(u, r) = d(r)
    BY <1>2, <2>1
  <2>3. (\A r \in q..(n + 1) : DepthAt(u, r) >= DepthAt(u, q))
          <=> (\A r \in q..n : d(r) >= d(q)) /\ e >= d(q)
    BY <2>1, <2>2 DEF e
  <2> QED BY <1>3, <1>4, <2>1, <2>3
<1>7. ASSUME NEW q \in Open(t, n + 1)
      PROVE  q \in 1..n /\ d(n) >= d(q) /\ d(q) \in Int /\ d(n) \in Int
  <2>1. q \in 1..n /\ n \in q..n
    BY <1>1, <1>3
  <2> QED BY <1>2, <1>3, <2>1
<1>8. \A q : q \in Open(u, n + 2) => q \in 1..n \/ q = n + 1
  BY <1>1, <1>4
<1>9. ASSUME NEW q \in Open(t, n + 1)
      PROVE  e >= d(q) <=> (k = "rbrace" => d(q) < d(n))
  BY <1>2, <1>7
<1>10. \A q : q \in Open(u, n + 2) <=>
         \/ q = n + 1 /\ k = "lbrace"
         \/ q \in Open(t, n + 1) /\ (k = "rbrace" => d(q) < d(n))
  <2>1. n + 1 \notin Open(t, n + 1)
    BY <1>1, <1>3
  <2> QED BY <1>5, <1>6, <1>7, <1>8, <1>9, <2>1
<1> QED BY <1>10 DEF n, d

\* Blocks are open within each other.
LEMMA OpenDeep ==
  ASSUME NEW t, NEW m \in Nat \ {0}, NEW p \in Open(t, m), NEW q \in Open(t, m), p < q
  PROVE  DepthAt(t, p) < DepthAt(t, q)
<1>1. /\ p \in 1..(m - 1) /\ q \in 1..(m - 1) /\ t[q] = "lbrace"
      /\ \A r \in p..(m - 1) : DepthAt(t, r) >= DepthAt(t, p)
  BY DEF Open
<1>2. q - 1 \in p..(m - 1) /\ q \in Nat \ {0} /\ q - 1 \in Nat /\ p \in Nat
  BY <1>1
<1>3. DepthAt(t, q) = DepthAt(t, q - 1) + 1
  BY <1>1, <1>2, DepthFacts
<1>4. DepthAt(t, q - 1) >= DepthAt(t, p) /\ DepthAt(t, p) \in Int /\ DepthAt(t, q - 1) \in Int
  BY <1>1, <1>2, DepthFacts
<1> QED BY <1>3, <1>4

\* A statement is behind the head of the block it is in.
LEMMA BlockBefore ==
  ASSUME NEW t, NEW p \in Nat \ {0}
  PROVE  /\ BlockOf(t, p) \in 0..(HeadOf(t, p) - 1)
         /\ \A q \in Open(t, p) : HeadOf(t, q) <= BlockOf(t, p)
<1> DEFINE S == Open(t, p)
<1>1. /\ p - 1 \in Nat /\ S \in SUBSET (1..(p - 1))
      /\ \A q \in S : t[q] \in Separators
  BY DEF Open, Separators
<1>2. HeadOf(t, p) \in 1..p /\ \A q \in S : q \in Nat \ {0} /\ HeadOf(t, q) \in 1..q /\ q < HeadOf(t, p)
  BY <1>1, HeadFacts
<1>3. BlockOf(t, p) = IF S = {} THEN 0 ELSE HeadOf(t, Last(S))
  BY DEF BlockOf
<1> HIDE DEF S
<1>4. CASE S = {}
  BY <1>2, <1>3, <1>4 DEF S
<1>5. CASE S # {}
  <2>2. Last(S) \in S /\ Last(S) \in Nat \ {0} /\ \A q \in S : q \in Nat \ {0} /\ q <= Last(S)
    BY <1>1, <1>2, <1>5, LastFacts
  <2>3. \A q \in S : q = Last(S) \/ HeadOf(t, q) < HeadOf(t, Last(S))
    <3>1. ASSUME NEW q \in S, q # Last(S) PROVE HeadOf(t, q) < HeadOf(t, Last(S))
      <4>1. q < Last(S) /\ t[q] \in Separators
        BY <1>1, <2>2, <3>1
      <4>2. q \in 1..(Last(S) - 1)
        BY <2>2, <4>1
      <4>3. q < HeadOf(t, Last(S))
        BY <2>2, <4>1, <4>2, HeadFacts
      <4>4. HeadOf(t, q) \in 1..q /\ HeadOf(t, Last(S)) \in 1..Last(S) /\ q \in Nat
        BY <1>2, <2>2
      <4> QED BY <4>3, <4>4
    <3> QED BY <3>1
  <2>4. BlockOf(t, p) = HeadOf(t, Last(S)) /\ HeadOf(t, Last(S)) \in 1..Last(S)
        /\ Last(S) < HeadOf(t, p) /\ Last(S) \in Nat
    BY <1>1, <1>2, <1>3, <1>5, <2>2
  <2>5. BlockOf(t, p) \in 0..(HeadOf(t, p) - 1)
    BY <1>2, <2>4
  <2>6. \A q \in S : HeadOf(t, q) <= BlockOf(t, p)
    BY <1>2, <2>3, <2>4
  <2> QED BY <2>5, <2>6 DEF S
<1> QED BY <1>4, <1>5

LEMMA EndsNext ==
  ASSUME NEW t, NEW k, NEW u, Longer(t, k, u), NEW e
  PROVE  Ends(u, e) = IF k = e THEN Ends(t, e) \cup {Len(t) + 1} ELSE Ends(t, e)
<1>1. \A q : q \in 1..Len(u) <=> q \in 1..Len(t) \/ q = Len(t) + 1
  BY DEF Longer
<1> QED BY <1>1 DEF Longer, Ends
-----------------------------------------------------------------------------
\* The steps of the parser, told by what they do when they succeed.
Stores == /\ Read("semicolon") /\ InStatement /\ Unused # {}
          /\ heap' = WithDirective([heap EXCEPT ![Malloc] = Directive(Top.head, Top.args)],
                                   Top.block, Malloc)
          /\ stack' = Append(Below, Frame(Top.block)) /\ Forget(Top)
          /\ UNCHANGED <<zap, broken, pc, result, oom>>
Opens  == /\ Read("lbrace") /\ InStatement /\ Unused # {}
          /\ heap' = [heap EXCEPT ![Malloc] = Block(Top.head, Top.args)]
          /\ stack' = Append(stack, Frame(Malloc))
          /\ UNCHANGED <<zap, broken, texts, pc, result, oom>>
Closes == /\ Read("rbrace") /\ InContents /\ Depth > 0
          /\ heap' = WithSubblock(heap, Parent, Top.block)
          /\ stack' = Append(SubSeq(stack, 1, Depth - 1), Frame(Parent))
          /\ Forget(stack[Depth])
          /\ UNCHANGED <<zap, broken, pc, result, oom>>
Adds(k) == /\ k \in {"word", "empty"} /\ Read(k) /\ InStatement
           /\ stack' = Append(Below, [Top EXCEPT !.args = Append(@,
                                IF k = "word" THEN Here ELSE Null)])
           /\ texts' = (IF k = "word" THEN texts \cup {Here} ELSE texts)
           /\ UNCHANGED <<tree, pc, result, oom>>

\* An allocation fails: the parser gives up or crashes.
Short == /\ \E k \in Kinds : Read(k)
         /\ oom' = TRUE /\ UNCHANGED <<heap, zap, stack, texts, result>>
         /\ \/ pc' = "failing" /\ broken' = broken
            \/ pc' = pc /\ broken' = "NULL list"

LEMMA StepCases ==
  ASSUME [Next]_vars
  PROVE  \/ CreateMain \/ ReadHead \/ (\E k \in Kinds : Adds(k)) \/ Stores \/ Opens
         \/ Closes \/ Short \/ Late \/ Succeed \/ Refuse \/ Unwind \/ Free \/ UNCHANGED vars
<1>1. \A e : Fails(e) \/ Crashes(e) =>
        /\ oom' = TRUE /\ UNCHANGED <<heap, zap, stack, texts>>
        /\ \/ pc' = "failing" /\ broken' = broken
           \/ pc' = pc /\ broken' = "NULL list"
  BY DEF Fails, Crashes
<1>2. {"semicolon", "lbrace", "rbrace"} \subseteq Kinds
  BY DEF Kinds
<1>3. ASSUME NEW k \in Kinds, ReadArg(k) PROVE Adds(k) \/ Short
  <2>1. /\ k \in {"word", "empty"} /\ Read(k) /\ InStatement /\ UNCHANGED <<tree, result>>
    BY <1>3 DEF ReadArg
  <2>2. CASE pc' = "failing" /\ oom' = TRUE /\ UNCHANGED <<stack, texts>>
    BY <2>1, <2>2 DEF Short, tree
  <2>3. CASE /\ stack' = Append(Below, [Top EXCEPT !.args = Append(@,
                                 IF k = "word" THEN Here ELSE Null)])
             /\ texts' = (IF k = "word" THEN texts \cup {Here} ELSE texts)
             /\ UNCHANGED <<pc, oom>>
    BY <2>1, <2>3 DEF Adds
  <2> QED BY <1>3, <2>2, <2>3 DEF ReadArg
<1>4. ASSUME StoreDirective PROVE Stores \/ Short \/ Late
  <2>1. Read("semicolon") /\ InStatement /\ result' = result
    BY <1>4 DEF StoreDirective
  <2>2. \/ /\ Unused # {}
           /\ heap' = WithDirective([heap EXCEPT ![Malloc] = Directive(Top.head, Top.args)],
                                    Top.block, Malloc)
           /\ stack' = Append(Below, Frame(Top.block)) /\ Forget(Top)
           /\ UNCHANGED <<zap, broken, pc, oom>>
        \/ Late
        \/ \E e : Fails(e) \/ Crashes(e)
    BY <1>2, <1>4 DEF StoreDirective, Late
  <2> QED BY <1>1, <1>2, <2>1, <2>2 DEF Stores, Short
<1>5. ASSUME OpenBlock PROVE Opens \/ Short \/ Late
  <2>1. Read("lbrace") /\ InStatement /\ result' = result
    BY <1>5 DEF OpenBlock
  <2>2. \/ /\ Unused # {} /\ heap' = [heap EXCEPT ![Malloc] = Block(Top.head, Top.args)]
           /\ stack' = Append(stack, Frame(Malloc))
           /\ UNCHANGED <<zap, broken, texts, pc, oom>>
        \/ Late
        \/ \E e : Fails(e) \/ Crashes(e)
    BY <1>2, <1>5 DEF OpenBlock, Late
  <2> QED BY <1>1, <1>2, <2>1, <2>2 DEF Opens, Short
<1>6. ASSUME CloseBlock PROVE Closes \/ Short
  <2>1. Read("rbrace") /\ InContents /\ Depth > 0 /\ result' = result
    BY <1>6 DEF CloseBlock
  <2>2. \/ /\ heap' = WithSubblock(heap, Parent, Top.block)
           /\ stack' = Append(SubSeq(stack, 1, Depth - 1), Frame(Parent))
           /\ Forget(stack[Depth]) /\ UNCHANGED <<zap, broken, pc, oom>>
        \/ \E e : Fails(e) \/ Crashes(e)
    BY <1>6 DEF CloseBlock
  <2> QED BY <1>1, <1>2, <2>1, <2>2 DEF Closes, Short
<1> QED BY <1>3, <1>4, <1>5, <1>6 DEF Next

\* After a crash there is no step.
LEMMA CrashEnds == Inv /\ ~Parse /\ [Next]_vars => UNCHANGED vars
<1> SUFFICES ASSUME Inv, ~Parse, [Next]_vars PROVE UNCHANGED vars
  OBVIOUS
<1>1. broken = "NULL list" /\ pc = "parsing"
  BY DEF Inv
<1>2. ~CreateMain /\ ~(\E k \in Kinds : Read(k)) /\ ~Unwind /\ ~Free /\ ~Refuse
  BY <1>1 DEF CreateMain, Read, Unwind, Free, FreeStep, Refuse
<1>3. {"word", "semicolon", "lbrace", "rbrace", "eof"} \subseteq Kinds
  BY DEF Kinds
<1>4. /\ ~ReadHead /\ ~Stores /\ ~Opens /\ ~Closes /\ ~Succeed
      /\ ~(\E k \in Kinds : Adds(k)) /\ ~Short /\ ~Late
  BY <1>2, <1>3 DEF ReadHead, Stores, Opens, Closes, Succeed, Adds, Short, Late
<1> QED BY <1>2, <1>4, StepCases

\* The token that is read.
LEMMA TokenRead ==
  ASSUME Parse, NEW k, Read(k)
  PROVE  /\ Longer(toks, k, toks') /\ Len(toks) \in Nat /\ Len(toks') = Len(toks) + 1
         /\ Here = Len(toks) + 1 /\ pc = "parsing" /\ Len(toks) < MaxTokens
         /\ stack # <<>> /\ stack \in Seq(Frames) /\ zap = {} /\ result = Null
<1>1. toks \in Seq(Kinds) /\ toks' = Append(toks, k) /\ pc = "parsing" /\ Len(toks) < MaxTokens
  BY DEF Read, Parse, Sound
<1>2. Longer(toks, k, toks') /\ Len(toks') = Len(toks) + 1
  BY <1>1 DEF Longer
<1> QED BY <1>1, <1>2 DEF Here, Parse, Phase, Sound

\* The frames after each of them.
LEMMA FramesHead ==
  ASSUME Parse, ReadHead
  PROVE  /\ NewTop(stack', stack, [block |-> Top.block, head |-> Here, args |-> <<>>])
         /\ Here # 0
<1> DEFINE t == Top
<1>1. Read("word") /\ InContents /\ stack' = Append(Below, [Top EXCEPT !.head = Here])
  BY DEF ReadHead
<1>2. stack # <<>> /\ stack \in Seq(Frames) /\ Here \in Nat \ {0}
  BY <1>1, TokenRead
<1>3. t \in Frames /\ t = [block |-> t.block, head |-> t.head, args |-> t.args]
  BY <1>1, <1>2, ReadFacts DEF Read
<1>4. t.args = <<>> /\ t.block \in Addr
  BY <1>1, <1>3 DEF InContents, Frames
<1> DEFINE f == [block |-> t.block, head |-> Here, args |-> <<>>]
<1>5. [t EXCEPT !.head = Here] = f
  <2> HIDE DEF t
  <2> QED BY <1>3, <1>4
<1>6. f \in Frames
  BY <1>2, <1>4 DEF Frames
<1> HIDE DEF f
<1>7. stack' = Append(Below, f)
  BY <1>1, <1>5
<1>8. NewTop(stack', stack, f)
  BY <1>2, <1>6, <1>7, Replaced DEF Below
<1> QED BY <1>2, <1>8 DEF f

LEMMA FramesArg ==
  ASSUME Parse, NEW k, Adds(k)
  PROVE  NewTop(stack', stack,
                [block |-> Top.block, head |-> Top.head,
                 args |-> Append(Top.args, IF k = "word" THEN Here ELSE Null)])
<1> DEFINE t == Top
           x == IF k = "word" THEN Here ELSE Null
<1>1. Read(k) /\ InStatement /\ stack' = Append(Below, [Top EXCEPT !.args = Append(@, x)])
  BY DEF Adds
<1>2. stack # <<>> /\ stack \in Seq(Frames) /\ Here \in Nat \ {0}
  BY <1>1, TokenRead
<1>3. /\ t \in Frames /\ t = [block |-> t.block, head |-> t.head, args |-> t.args]
      /\ t.block \in Addr /\ t.head \in Nat /\ t.args \in Seq(Nat \cup {Null})
  BY <1>1, <1>2, ReadFacts DEF Read
<1>4. t.head # 0 /\ x \in Nat \cup {Null}
  BY <1>1, <1>2 DEF InStatement
<1> HIDE DEF x
<1> DEFINE f == [block |-> t.block, head |-> t.head, args |-> Append(t.args, x)]
<1>5. [t EXCEPT !.args = Append(@, x)] = f
  <2> HIDE DEF t
  <2>1. t = [block |-> t.block, head |-> t.head, args |-> t.args]
    BY <1>3
  <2> QED BY <2>1
<1>6. f \in Frames
  <2>1. Append(t.args, x) \in Seq(Nat \cup {Null})
    BY <1>3, <1>4
  <2> HIDE DEF t
  <2> QED BY <1>3, <1>4, <2>1 DEF Frames
<1>7. stack' = Append(Below, f)
  BY <1>1, <1>5
<1> HIDE DEF f
<1>8. NewTop(stack', stack, f)
  BY <1>2, <1>6, <1>7, Replaced DEF Below
<1> QED BY <1>8 DEF f, x

LEMMA FramesStored ==
  ASSUME Parse, Stores
  PROVE  NewTop(stack', stack, Frame(Top.block))
<1>1. Read("semicolon") /\ stack' = Append(Below, Frame(Top.block))
  BY DEF Stores
<1>2. stack # <<>> /\ stack \in Seq(Frames)
  BY <1>1, TokenRead
<1>3. Frame(Top.block) \in Frames
  BY <1>1, ReadFacts DEF Read, Frame, Frames
<1> QED BY <1>1, <1>2, <1>3, Replaced DEF Below

LEMMA FramesOpened ==
  ASSUME Parse, Opens
  PROVE  /\ Len(stack') = Len(stack) + 1 /\ Len(stack) \in Nat \ {0}
         /\ stack'[Len(stack) + 1] = Frame(Malloc)
         /\ \A k \in 1..Len(stack) : stack'[k] = stack[k]
         /\ Malloc \in Addr \ LiveOf(heap)
<1>1. Read("lbrace") /\ stack' = Append(stack, Frame(Malloc)) /\ Unused # {}
  BY DEF Opens
<1>2. stack # <<>> /\ stack \in Seq(Frames) /\ Len(stack) \in Nat \ {0}
  BY <1>1, TokenRead
<1>3. Malloc \in Addr \ LiveOf(heap)
  BY <1>1, MallocFacts
<1>4. Frame(Malloc) \in Frames
  BY <1>3 DEF Frame, Frames
<1> QED BY <1>1, <1>2, <1>3, <1>4, Pushed

LEMMA FramesClosed ==
  ASSUME Parse, Closes
  PROVE  /\ Len(stack') = Depth /\ Depth \in Nat \ {0} /\ Depth = Len(stack) - 1
         /\ stack'[Depth] = Frame(Parent)
         /\ \A k \in 1..(Depth - 1) : stack'[k] = stack[k]
<1>1. /\ Read("rbrace") /\ Depth > 0
      /\ stack' = Append(SubSeq(stack, 1, Depth - 1), Frame(Parent))
  BY DEF Closes
<1>2. stack # <<>> /\ stack \in Seq(Frames) /\ Len(stack) \in Nat \ {0}
  BY <1>1, TokenRead
<1>3. Depth \in Nat \ {0} /\ Depth = Len(stack) - 1 /\ Depth \in 1..Len(stack)
      /\ Depth - 1 \in 0..Len(stack)
  BY <1>1, <1>2 DEF Depth
<1> DEFINE r == SubSeq(stack, 1, Depth - 1)
           f == Frame(Parent)
<1>4. r \in Seq(Frames) /\ Len(r) = Depth - 1 /\ \A k \in 1..(Depth - 1) : r[k] = stack[k]
  BY <1>2, <1>3, Kept, Zenon
<1>5. f \in Frames
  <2>1. stack[Depth] \in Frames
    BY <1>2, <1>3
  <2> QED BY <2>1 DEF Parent, Frame, Frames
<1> HIDE DEF r, f
<1>6. /\ Len(stack') = Len(r) + 1 /\ Len(r) \in Nat
      /\ stack'[Len(r) + 1] = f /\ \A k \in 1..Len(r) : stack'[k] = r[k]
  <2>1. stack' = Append(r, f)
    BY <1>1 DEF r, f
  <2> QED BY <1>4, <1>5, <2>1, Pushed
<1>7. Depth - 1 + 1 = Depth
  BY <1>3
<1> QED BY <1>3, <1>4, <1>6, <1>7 DEF f
-----------------------------------------------------------------------------
\* The frames agree with the grammar.
Synced ==
  /\ \A p \in 1..Len(toks) : Legal(toks, p)
  /\ Depth = DepthAt(toks, Len(toks))
  /\ InStatement <=> Len(toks) > 0 /\ toks[Len(toks)] \in {"word", "empty"}
  /\ ~oom

Accepting ==
  /\ pc = "main" => toks = <<>> /\ ~oom
  /\ pc = "parsing" /\ broken = "no" => Synced
  /\ pc = "failing" => oom \/ ~Document(toks)
  /\ AcceptsDocuments

\* The frames after a token of kind k.
Moves(k) ==
  /\ Depth' = Depth + (IF k = "lbrace" THEN 1 ELSE IF k = "rbrace" THEN -1 ELSE 0)
  /\ InStatement' <=> k \in {"word", "empty"}

LEMMA MovesTop ==
  ASSUME NEW f, NewTop(stack', stack, f), NEW k, k \notin {"lbrace", "rbrace"},
         f.head # 0 <=> k \in {"word", "empty"}
  PROVE  Moves(k)
<1>1. Len(stack') = Len(stack) /\ stack'[Len(stack)] = f /\ Len(stack) \in Nat
  BY DEF NewTop
<1> QED BY <1>1 DEF Moves, Depth, InStatement, Top

LEMMA MovesHead == ASSUME Parse, ReadHead PROVE Moves("word")
<1> DEFINE f == [block |-> Top.block, head |-> Here, args |-> <<>>]
<1>1. NewTop(stack', stack, f) /\ f.head # 0
  BY FramesHead
<1> HIDE DEF f
<1> QED BY <1>1, MovesTop

LEMMA MovesArg == ASSUME Parse, NEW k, Adds(k) PROVE Moves(k)
<1> DEFINE f == [block |-> Top.block, head |-> Top.head,
                 args |-> Append(Top.args, IF k = "word" THEN Here ELSE Null)]
<1>1. NewTop(stack', stack, f)
  BY FramesArg
<1>2. f.head # 0 /\ k \in {"word", "empty"}
  BY DEF Adds, InStatement
<1> HIDE DEF f
<1> QED BY <1>1, <1>2, MovesTop

LEMMA MovesStored == ASSUME Parse, Stores PROVE Moves("semicolon")
<1>1. NewTop(stack', stack, Frame(Top.block)) /\ Frame(Top.block).head = 0
  BY FramesStored DEF Frame
<1> QED BY <1>1, MovesTop

LEMMA MovesOpened == ASSUME Parse, Opens PROVE Moves("lbrace")
<1>1. /\ Len(stack') = Len(stack) + 1 /\ Len(stack) \in Nat
      /\ stack'[Len(stack) + 1] = Frame(Malloc)
  BY FramesOpened
<1> QED BY <1>1 DEF Moves, Depth, InStatement, Top, Frame

LEMMA MovesClosed == ASSUME Parse, Closes PROVE Moves("rbrace")
<1>1. Len(stack') = Depth /\ Depth \in Nat /\ stack'[Depth] = Frame(Parent)
  BY FramesClosed
<1>2. Depth' = Depth - 1
  BY <1>1 DEF Depth
<1> QED BY <1>1, <1>2 DEF Moves, InStatement, Top, Frame

\* The tokens that are legal next.
LEMMA LegalHere ==
  ASSUME Parse, Synced, NEW k, Read(k)
  PROVE  /\ InStatement => (Legal(toks', Len(toks) + 1)
                              <=> k \in {"word", "empty", "semicolon", "lbrace"})
         /\ InContents  => (Legal(toks', Len(toks) + 1)
                              <=> \/ k = "word"
                                  \/ k = "rbrace" /\ Depth > 0
                                  \/ k = "eof" /\ Depth = 0)
         /\ Depth \in Nat
<1> DEFINE n == Len(toks)
<1>1. /\ Longer(toks, k, toks') /\ n \in Nat /\ stack # <<>> /\ stack \in Seq(Frames)
  BY TokenRead
<1>2. /\ toks'[n + 1] = k /\ n + 1 - 1 = n /\ (n + 1 > 1 <=> n > 0)
      /\ n > 0 => toks'[n] = toks[n]
  BY <1>1 DEF Longer
<1>3. DepthAt(toks', n) = Depth
  <2>1. n \in 0..n
    BY <1>1
  <2> QED BY <1>1, <2>1, DepthKept DEF Synced
<1>4. Depth \in Nat
  BY <1>1 DEF Depth
<1>5. InStatement <=> n + 1 > 1 /\ toks'[n + 1 - 1] \in {"word", "empty"}
  BY <1>2 DEF Synced
<1>6. InContents <=> ~InStatement
  BY DEF InContents, InStatement
<1> HIDE DEF n
<1>7. CASE InStatement
  BY <1>2, <1>4, <1>5, <1>6, <1>7 DEF Legal, n
<1>8. CASE InContents
  BY <1>2, <1>3, <1>4, <1>5, <1>6, <1>8 DEF Legal, n
<1> QED BY <1>4, <1>6, <1>7, <1>8

\* A legal token keeps them in step.
LEMMA SyncedNext ==
  ASSUME Parse, Synced, NEW k, Read(k), Moves(k), Legal(toks', Len(toks) + 1), oom' = oom
  PROVE  Synced'
<1> DEFINE n == Len(toks)
<1>1. /\ Longer(toks, k, toks') /\ n \in Nat /\ Len(toks') = n + 1 /\ toks'[n + 1] = k
  BY TokenRead DEF Longer
<1>2. \A p \in 1..(n + 1) : Legal(toks', p)
  <2>1. \A p \in 1..n : Legal(toks', p)
    BY <1>1, LegalKept DEF Synced
  <2>2. \A p \in 1..(n + 1) : p \in 1..n \/ p = n + 1
    BY <1>1
  <2> QED BY <2>1, <2>2
<1>3. DepthAt(toks', n + 1) = Depth'
  <2>1. n + 1 \in Nat \ {0} /\ n + 1 - 1 = n /\ n \in 0..n
    BY <1>1
  <2>2. DepthAt(toks', n + 1) = DepthAt(toks', n)
                 + (IF toks'[n + 1] = "lbrace" THEN 1 ELSE IF toks'[n + 1] = "rbrace" THEN -1 ELSE 0)
    BY <2>1, DepthFacts
  <2>3. DepthAt(toks', n) = Depth
    BY <1>1, <2>1, DepthKept DEF Synced
  <2> QED BY <1>1, <2>2, <2>3 DEF Moves
<1>4. InStatement' <=> Len(toks') > 0 /\ toks'[Len(toks')] \in {"word", "empty"}
  BY <1>1 DEF Moves
<1>5. ~oom'
  BY DEF Synced
<1> HIDE DEF n
<1>6. Depth' = DepthAt(toks', Len(toks'))
  BY <1>1, <1>3
<1> QED BY <1>1, <1>2, <1>4, <1>5, <1>6 DEF Synced

LEMMA AcceptingRead ==
  ASSUME Parse, Accepting, NEW k, Read(k), Moves(k), Legal(toks', Len(toks) + 1), oom' = oom,
         pc' = pc
  PROVE  Accepting'
<1>1. pc = "parsing" /\ broken = "no" /\ Synced
  BY DEF Read, Accepting
<1>2. Synced' /\ pc' = "parsing"
  BY <1>1, SyncedNext
<1> QED BY <1>2 DEF Accepting, AcceptsDocuments

LEMMA AcceptingNext ==
  ASSUME Inv, Inv', Accepting, [Next]_vars
  PROVE  Accepting'
<1>1. CASE UNCHANGED vars
  <2>1. /\ toks' = toks /\ stack' = stack /\ pc' = pc /\ broken' = broken /\ result' = result
        /\ oom' = oom
    BY <1>1 DEF vars
  <2>2. Synced' <=> Synced
    BY <2>1 DEF Synced, Depth, InStatement, Top
  <2> QED BY <2>1, <2>2 DEF Accepting, AcceptsDocuments
<1>2. CASE ~Parse
  BY <1>1, <1>2, CrashEnds
<1>3. CASE Parse /\ CreateMain
  <2>1. pc = "main" /\ stack = <<>> /\ broken' = "no" /\ toks' = <<>> /\ ~oom /\ result' = Null
        /\ toks = <<>>
    BY <1>3 DEF CreateMain, Parse, Phase, Accepting
  <2>2. CASE stack' = <<Frame(Malloc)>> /\ pc' = "parsing" /\ UNCHANGED oom
    <3>1. Len(stack') = 1 /\ stack'[1] = Frame(Malloc) /\ Len(toks') = 0
      BY <2>1, <2>2
    <3>2. Depth' = 0 /\ ~InStatement' /\ DepthAt(toks', 0) = 0
      BY <3>1, DepthFacts DEF Depth, InStatement, Top, Frame
    <3>3. Synced'
      BY <2>1, <2>2, <3>1, <3>2 DEF Synced
    <3> QED BY <2>2, <3>3 DEF Accepting, AcceptsDocuments
  <2>3. CASE pc' = "done" /\ oom' = TRUE
    BY <2>1, <2>3 DEF Accepting, AcceptsDocuments
  <2> QED BY <1>3, <2>2, <2>3 DEF CreateMain
<1>4. CASE Parse /\ ReadHead
  <2>1. Read("word") /\ InContents /\ pc' = pc /\ oom' = oom /\ Synced
    BY <1>4 DEF ReadHead, Read, Accepting
  <2>2. Legal(toks', Len(toks) + 1)
    BY <1>4, <2>1, LegalHere, Zenon
  <2> QED BY <1>4, <2>1, <2>2, MovesHead, AcceptingRead
<1>5. CASE Parse /\ \E k \in Kinds : Adds(k)
  <2>1. PICK k \in Kinds : Adds(k)
    BY <1>5
  <2>2. /\ k \in {"word", "empty"} /\ Read(k) /\ InStatement /\ pc' = pc /\ oom' = oom /\ Synced
    BY <2>1 DEF Adds, Read, Accepting
  <2>3. Legal(toks', Len(toks) + 1)
    BY <1>5, <2>2, LegalHere
  <2> QED BY <1>5, <2>1, <2>2, <2>3, MovesArg, AcceptingRead
<1>6. CASE Parse /\ Stores
  <2>1. Read("semicolon") /\ InStatement /\ pc' = pc /\ oom' = oom /\ Synced
    BY <1>6 DEF Stores, Read, Accepting
  <2>2. Legal(toks', Len(toks) + 1)
    BY <1>6, <2>1, LegalHere
  <2> QED BY <1>6, <2>1, <2>2, MovesStored, AcceptingRead
<1>7. CASE Parse /\ Opens
  <2>1. Read("lbrace") /\ InStatement /\ pc' = pc /\ oom' = oom /\ Synced
    BY <1>7 DEF Opens, Read, Accepting
  <2>2. Legal(toks', Len(toks) + 1)
    BY <1>7, <2>1, LegalHere
  <2> QED BY <1>7, <2>1, <2>2, MovesOpened, AcceptingRead
<1>8. CASE Parse /\ Closes
  <2>1. Read("rbrace") /\ InContents /\ Depth > 0 /\ pc' = pc /\ oom' = oom /\ Synced
    BY <1>8 DEF Closes, Read, Accepting
  <2>2. Legal(toks', Len(toks) + 1)
    BY <1>8, <2>1, LegalHere
  <2> QED BY <1>8, <2>1, <2>2, MovesClosed, AcceptingRead
<1>9. CASE Parse /\ (Short \/ Late)
  <2>1. \/ pc' = "failing"
        \/ pc' = "parsing" /\ broken' = "NULL list"
    BY <1>9 DEF Short, Late, Discards, Read
  <2>2. oom' = TRUE
    BY <1>9 DEF Short, Late, Discards
  <2> QED BY <2>1, <2>2 DEF Accepting, AcceptsDocuments
<1>10. CASE Parse /\ Succeed
  <2>1. Read("eof") /\ InContents /\ Depth = 0 /\ pc' = "done" /\ result' = Top.block
        /\ oom' = oom /\ Synced
    BY <1>10 DEF Succeed, Read, Accepting
  <2>2. Legal(toks', Len(toks) + 1)
    BY <1>10, <2>1, LegalHere
  <2>3. /\ Longer(toks, "eof", toks') /\ Len(toks) \in Nat /\ Len(toks') = Len(toks) + 1
        /\ toks'[Len(toks) + 1] = "eof"
    BY <1>10, <2>1, TokenRead DEF Longer
  <2>4. \A p \in 1..Len(toks') : Legal(toks', p)
    <3>1. \A p \in 1..Len(toks) : Legal(toks', p)
      BY <2>1, <2>3, LegalKept DEF Synced
    <3>2. \A p \in 1..Len(toks') : p \in 1..Len(toks) \/ p = Len(toks) + 1
      BY <2>3
    <3> QED BY <2>2, <3>1, <3>2
  <2>5. Document(toks')
    BY <2>3, <2>4 DEF Document
  <2>6. result' # Null
    BY <1>10, <2>1, ReadFacts, TreeAssumption DEF Read
  <2>7. ~oom'
    BY <2>1 DEF Synced
  <2> QED BY <2>1, <2>5, <2>6, <2>7 DEF Accepting, AcceptsDocuments
<1>11. CASE Parse /\ Refuse
  <2>1. PICK k \in Refused : Read(k)
    BY <1>11 DEF Refuse
  <2>2. pc' = "failing" /\ Synced
    BY <1>11, <2>1 DEF Refuse, Read, Accepting
  <2>3. ~Legal(toks', Len(toks) + 1)
    <3>1. InStatement <=> ~InContents
      BY DEF InContents, InStatement
    <3>2. CASE InContents
      <4>1. k \notin {"word"} /\ (k = "rbrace" => Depth = 0) /\ (k = "eof" => Depth # 0)
        BY <3>2 DEF Refused
      <4> QED BY <1>11, <2>1, <2>2, <3>2, <4>1, LegalHere
    <3>3. CASE InStatement
      <4>1. k \in {"error", "eof", "rbrace"}
        BY <3>1, <3>3 DEF Refused
      <4> QED BY <1>11, <2>1, <2>2, <3>3, <4>1, LegalHere
    <3> QED BY <3>1, <3>2, <3>3
  <2>4. Len(toks) + 1 \in 1..Len(toks')
    BY <1>11, <2>1, TokenRead
  <2>5. ~Document(toks')
    BY <2>3, <2>4 DEF Document
  <2> QED BY <2>2, <2>5 DEF Accepting, AcceptsDocuments
<1>12. CASE Parse /\ Unwind
  <2>1. /\ pc = "failing" /\ UNCHANGED <<toks, result, oom>> /\ result = Null
        /\ pc' \in {"done", "failing"}
    BY <1>12 DEF Unwind, Parse, Phase
  <2> QED BY <2>1 DEF Accepting, AcceptsDocuments
<1>13. CASE Parse /\ Free
  <2>1. UNCHANGED <<toks, pc, result, oom>> /\ pc = "failing"
    BY <1>13 DEF Free, FreeStep, Parse, Phase
  <2> QED BY <2>1 DEF Accepting, AcceptsDocuments
<1> QED BY <1>1, <1>2, <1>3, <1>4, <1>5, <1>6, <1>7, <1>8, <1>9, <1>10, <1>11, <1>12, <1>13,
           StepCases

\* config_deserialize returns a configuration exactly for the token sequences of
\* its grammar, of any length and depth, and never for one during which an
\* allocation failed.
THEOREM AcceptsTheGrammar == Spec => []AcceptsDocuments
<1>1. Init => Accepting
  BY DEF Init, Accepting, AcceptsDocuments
<1>2. Accepting => AcceptsDocuments
  BY DEF Accepting
<1> QED BY <1>1, <1>2, InvInit, InvNext, AcceptingNext, PTL DEF Spec
-----------------------------------------------------------------------------
\* The heap after each step that changes it.
LEMMA StoredHeap ==
  ASSUME Parse, Stores, NEW d, d = Malloc, NEW b, b = Top.block
  PROVE  /\ d \in Addr \ LiveOf(heap) /\ b \in LiveOf(heap) /\ LiveOf(heap) \subseteq Addr
         /\ LiveOf(heap') = LiveOf(heap) \cup {d}
         /\ heap'[d] = Fields("directive", Top.head, Top.args, <<>>, <<>>)
         /\ heap'[b] = Fields(heap[b].kind, heap[b].name, heap[b].args,
                              Append(heap[b].dirs, d), heap[b].subs)
         /\ \A a \in Addr \ {b, d} : heap'[a] = heap[a]
<1> DEFINE o == Directive(Top.head, Top.args)
           h == [heap EXCEPT ![d] = o]
<1>1. /\ heap' = WithDirective(h, b, d) /\ d \in Addr \ LiveOf(heap) /\ stack # <<>>
  <2>1. Read("semicolon") /\ Unused # {} /\ heap' = WithDirective(h, b, d)
    BY DEF Stores
  <2> QED BY <2>1, MallocFacts, TokenRead
<1>2. o = Fields("directive", Top.head, Top.args, <<>>, <<>>)
  BY NewRecords
<1>3. /\ o = [kind |-> o.kind, name |-> o.name, args |-> o.args,
              dirs |-> o.dirs, subs |-> o.subs]
      /\ o.kind # "none" /\ o.dirs = <<>> /\ o.subs = <<>>
  BY NewObjects
<1>4. b \in LiveOf(heap) /\ b \in Held /\ LiveOf(heap) \subseteq Addr
  BY <1>1, ChainFacts DEF Top
<1>5. Owned(heap, Held) /\ heap = [a \in Addr |-> heap[a]]
  BY DEF Parse, Owned
<1> HIDE DEF o
<1>6. Owned(h, Held \cup {d}) /\ LiveOf(h) = LiveOf(heap) \cup {d}
  BY <1>1, <1>3, <1>5, OwnedNew
<1>7. h = [a \in Addr |-> IF a = d THEN o ELSE heap[a]]
  BY <1>5
<1>8. h[b] = heap[b] /\ h[d] = o /\ \A a \in Addr \ {d} : h[a] = heap[a]
  BY <1>1, <1>4, <1>7
<1> HIDE DEF h
<1>9. heap' = [a \in Addr |-> IF a = b THEN Fields(h[b].kind, h[b].name, h[b].args,
                                                  Append(h[b].dirs, d), h[b].subs)
                              ELSE h[a]]
  BY <1>1, <1>4, <1>6, ListedRecords
<1>10. /\ heap'[d] = o
       /\ heap'[b] = Fields(heap[b].kind, heap[b].name, heap[b].args,
                            Append(heap[b].dirs, d), heap[b].subs)
       /\ \A a \in Addr \ {b, d} : heap'[a] = heap[a]
  BY <1>1, <1>4, <1>8, <1>9
<1>11. LiveOf(heap') = LiveOf(heap) \cup {d}
  <2>1. Listed(h, heap', b, d)
    BY <1>1 DEF Listed
  <2> QED BY <1>4, <1>6, <2>1, ListedFacts
<1> QED BY <1>1, <1>2, <1>4, <1>10, <1>11

LEMMA OpenedHeap ==
  ASSUME Parse, Opens, NEW d, d = Malloc
  PROVE  /\ d \in Addr \ LiveOf(heap) /\ LiveOf(heap) \subseteq Addr
         /\ LiveOf(heap') = LiveOf(heap) \cup {d}
         /\ heap'[d] = Fields("block", Top.head, Top.args, <<>>, <<>>)
         /\ \A a \in Addr \ {d} : heap'[a] = heap[a]
<1> DEFINE o == Block(Top.head, Top.args)
<1>1. /\ heap' = [heap EXCEPT ![d] = o] /\ d \in Addr \ LiveOf(heap)
  BY MallocFacts DEF Opens
<1>2. o = Fields("block", Top.head, Top.args, <<>>, <<>>)
  BY NewRecords
<1>3. /\ o = [kind |-> o.kind, name |-> o.name, args |-> o.args,
              dirs |-> o.dirs, subs |-> o.subs]
      /\ o.kind # "none" /\ o.dirs = <<>> /\ o.subs = <<>>
  BY NewObjects
<1> HIDE DEF o
<1>4. Owned(heap, Held) /\ heap = [a \in Addr |-> heap[a]] /\ LiveOf(heap) \subseteq Addr
  BY DEF Parse, Owned, LiveOf
<1>5. LiveOf(heap') = LiveOf(heap) \cup {d}
  BY <1>1, <1>3, <1>4, OwnedNew
<1>6. heap'[d] = o /\ \A a \in Addr \ {d} : heap'[a] = heap[a]
  BY <1>1, <1>4
<1> QED BY <1>1, <1>2, <1>4, <1>5, <1>6

LEMMA ClosedHeap ==
  ASSUME Parse, Closes, NEW s, s = Top.block, NEW b, b = Parent
  PROVE  /\ b \in LiveOf(heap) /\ s \in LiveOf(heap) /\ LiveOf(heap) \subseteq Addr
         /\ LiveOf(heap') = LiveOf(heap)
         /\ heap'[b] = Fields(heap[b].kind, heap[b].name, heap[b].args,
                              heap[b].dirs, Append(heap[b].subs, s))
         /\ \A a \in Addr \ {b} : heap'[a] = heap[a]
<1>1. /\ heap' = WithSubblock(heap, b, s) /\ stack # <<>> /\ Depth \in 1..Len(stack)
  <2>1. Read("rbrace") /\ Depth > 0 /\ heap' = WithSubblock(heap, b, s)
    BY DEF Closes
  <2> QED BY <2>1, TokenRead, FramesClosed
<1>2. b \in LiveOf(heap) /\ s \in LiveOf(heap) /\ s \in Held /\ LiveOf(heap) \subseteq Addr
  BY <1>1, ChainFacts DEF Top, Parent
<1>3. Owned(heap, Held)
  BY DEF Parse
<1>4. heap' = [a \in Addr |-> IF a = b THEN Fields(heap[b].kind, heap[b].name, heap[b].args,
                                                  heap[b].dirs, Append(heap[b].subs, s))
                              ELSE heap[a]]
  BY <1>1, <1>2, <1>3, ListedRecords
<1>5. LiveOf(heap') = LiveOf(heap)
  <2>1. Listed(heap, heap', b, s)
    BY <1>1 DEF Listed
  <2> QED BY <1>2, <1>3, <2>1, ListedFacts
<1> QED BY <1>2, <1>4, <1>5

LEMMA FieldsFacts ==
  ASSUME NEW k, NEW n, NEW r, NEW d, NEW s, NEW o, o = Fields(k, n, r, d, s)
  PROVE  o.kind = k /\ o.name = n /\ o.args = r /\ o.dirs = d /\ o.subs = s
BY DEF Fields
-----------------------------------------------------------------------------
\* The types of what the heap, the frames and the rest hold.
TypedHeap(h) ==
  \A a \in Addr : /\ h[a].kind \in {"none", "block", "directive"}
                  /\ h[a].name \in Words /\ Elements(h[a].args) \subseteq Words
                  /\ a \notin LiveOf(h) => h[a] = NoObject
TypedFrames(h, s) ==
  \A k \in 1..Len(s) : /\ h[s[k].block].kind = "block"
                       /\ s[k].head \in 0..MaxTokens
                       /\ Elements(s[k].args) \subseteq Words
TypedRest == /\ Len(toks) <= MaxTokens /\ Elements(toks) \subseteq Kinds
             /\ texts \subseteq 1..MaxTokens /\ oom \in BOOLEAN
Typed == TypedHeap(heap) /\ TypedFrames(heap, stack) /\ TypedRest

\* What the objects list is on the heap.
LEMMA KidsTyped ==
  ASSUME NEW h, NEW W, Owned(h, W), TypedHeap(h), NEW a \in Addr
  PROVE  Elements(Kids(h[a])) \subseteq Addr
<1>1. CASE a \in LiveOf(h)
  <2>1. h[a].dirs \in Seq(LiveOf(h)) /\ h[a].subs \in Seq(LiveOf(h))
    BY <1>1 DEF Owned, Object
  <2>2. Elements(Kids(h[a])) = Kin(h[a])
    BY <2>1, ConcatFacts DEF Kids, Kin
  <2>3. Kin(h[a]) \subseteq LiveOf(h)
    BY <1>1, KinLive
  <2> QED BY <2>2, <2>3 DEF LiveOf
<1>2. CASE a \notin LiveOf(h)
  <2>1. h[a] = NoObject
    BY <1>2 DEF TypedHeap
  <2>2. NoObject.dirs = <<>> /\ NoObject.subs = <<>>
    BY DEF NoObject
  <2>3. Kids(h[a]) = <<>>
    BY <2>1, <2>2 DEF Kids
  <2> QED BY <2>3 DEF Elements
<1> QED BY <1>1, <1>2

\* A token more.
LEMMA RestRead ==
  ASSUME Parse, Typed, NEW k \in Kinds, Read(k)
  PROVE  /\ Len(toks') <= MaxTokens /\ Elements(toks') \subseteq Kinds
         /\ Here \in 1..MaxTokens /\ 1..MaxTokens \subseteq Words /\ Null \in Words
<1>1. toks \in Seq(Kinds) /\ toks' = Append(toks, k)
  BY DEF Parse, Sound, Read
<1>2. Elements(toks') = Elements(toks) \cup {k}
  BY <1>1, AppendFacts
<1>3. Len(toks') = Len(toks) + 1 /\ Len(toks) < MaxTokens /\ Here = Len(toks) + 1 /\ Len(toks) \in Nat
  BY TokenRead
<1>4. MaxTokens \in Nat
  BY DeserializeAssumption
<1> QED BY <1>2, <1>3, <1>4 DEF Typed, TypedRest, Words

\* The innermost frame changed.
LEMMA TypedTop ==
  ASSUME NEW h, NEW s, TypedFrames(h, s), NEW t, NEW f, NewTop(t, s, f),
         f.block = s[Len(s)].block, f.head \in 0..MaxTokens, Elements(f.args) \subseteq Words
  PROVE  TypedFrames(h, t)
<1>1. /\ Len(t) = Len(s) /\ Len(s) \in Nat \ {0} /\ t[Len(s)] = f
      /\ \A k \in 1..(Len(s) - 1) : t[k] = s[k]
  BY DEF NewTop
<1>2. h[f.block].kind = "block"
  <2>1. Len(s) \in 1..Len(s)
    BY <1>1
  <2> QED BY <2>1 DEF TypedFrames
<1>3. ASSUME NEW k \in 1..Len(t)
      PROVE  /\ h[t[k].block].kind = "block" /\ t[k].head \in 0..MaxTokens
             /\ Elements(t[k].args) \subseteq Words
  <2>1. CASE k = Len(s)
    BY <1>1, <1>2, <2>1
  <2>2. CASE k # Len(s)
    <3>1. k \in 1..(Len(s) - 1) /\ k \in 1..Len(s)
      BY <1>1, <2>2
    <3> QED BY <1>1, <3>1 DEF TypedFrames
  <2> QED BY <2>1, <2>2
<1> QED BY <1>3 DEF TypedFrames

\* Live objects keep their kinds, and so do the blocks of the frames.
LEMMA TypedKinds ==
  ASSUME NEW h, NEW s, TypedFrames(h, s), NEW g,
         \A k \in 1..Len(s) : g[s[k].block].kind = h[s[k].block].kind
  PROVE  TypedFrames(g, s)
BY DEF TypedFrames

LEMMA TopTyped ==
  ASSUME Parse, Typed, stack # <<>>
  PROVE  /\ Top.head \in Words /\ Elements(Top.args) \subseteq Words
         /\ Top.head \in 0..MaxTokens /\ Len(stack) \in 1..Len(stack)
         /\ \A k \in 1..Len(stack) : stack[k].block \in LiveOf(heap)
<1>1. Len(stack) \in 1..Len(stack)
  BY ChainFacts
<1>2. Top.head \in 0..MaxTokens /\ Elements(Top.args) \subseteq Words
  BY <1>1 DEF Typed, TypedFrames, Top
<1>3. MaxTokens \in Nat
  BY DeserializeAssumption
<1>4. \A k \in 1..Len(stack) : stack[k].block \in LiveOf(heap)
  BY ChainFacts
<1> QED BY <1>1, <1>2, <1>3, <1>4 DEF Words

LEMMA TypedHead == ASSUME Parse, Typed, ReadHead PROVE Typed'
<1> DEFINE f == [block |-> Top.block, head |-> Here, args |-> <<>>]
<1>1. Read("word") /\ "word" \in Kinds /\ heap' = heap /\ oom' = oom /\ texts' = texts \cup {Here}
  BY DEF ReadHead, tree, Kinds
<1>2. TypedRest' /\ Here \in 0..MaxTokens
  <2>1. /\ Len(toks') <= MaxTokens /\ Elements(toks') \subseteq Kinds /\ Here \in 1..MaxTokens
    BY <1>1, RestRead
  <2>2. texts' \subseteq 1..MaxTokens /\ oom' \in BOOLEAN
    BY <1>1, <2>1 DEF TypedRest, Typed
  <2>3. Here \in 0..MaxTokens
    BY <2>1, DeserializeAssumption
  <2> QED BY <2>1, <2>2, <2>3 DEF TypedRest
<1>3. f.block = Top.block /\ f.head = Here /\ Elements(f.args) = {}
  BY DEF Elements
<1>4. NewTop(stack', stack, f)
  BY FramesHead
<1> HIDE DEF f
<1>5. TypedFrames(heap, stack')
  BY <1>2, <1>3, <1>4, TypedTop DEF Typed, Top
<1> QED BY <1>1, <1>2, <1>5 DEF Typed

LEMMA TypedArg == ASSUME Parse, Typed, NEW k \in Kinds, Adds(k) PROVE Typed'
<1> DEFINE x == IF k = "word" THEN Here ELSE Null
           f == [block |-> Top.block, head |-> Top.head, args |-> Append(Top.args, x)]
<1>1. /\ Read(k) /\ heap' = heap /\ oom' = oom
      /\ texts' = (IF k = "word" THEN texts \cup {Here} ELSE texts)
  BY DEF Adds, tree
<1>2. TypedRest' /\ x \in Words
  BY <1>1, RestRead DEF TypedRest, Typed
<1>3. /\ Top.head \in 0..MaxTokens /\ Elements(Top.args) \subseteq Words
      /\ Top.args \in Seq(Nat \cup {Null}) /\ x \in Nat \cup {Null}
  <2>1. x \in Nat \cup {Null}
    BY <1>1, TokenRead
  <2>2. stack # <<>> /\ pc = "parsing"
    BY <1>1, TokenRead
  <2> QED BY <2>1, <2>2, ReadFacts, TopTyped
<1>4. NewTop(stack', stack, f)
  BY FramesArg
<1>5. f.block = Top.block /\ f.head = Top.head /\ f.args = Append(Top.args, x)
  OBVIOUS
<1> HIDE DEF f, x
<1>6. Elements(f.args) \subseteq Words
  BY <1>2, <1>3, <1>5, AppendFacts
<1>7. TypedFrames(heap, stack')
  BY <1>3, <1>4, <1>5, <1>6, TypedTop DEF Typed, Top
<1> QED BY <1>1, <1>2, <1>7 DEF Typed

LEMMA TypedStored == ASSUME Parse, Typed, Stores PROVE Typed'
<1> DEFINE d == Malloc
           b == Top.block
           f == Frame(b)
<1>1. Read("semicolon") /\ "semicolon" \in Kinds /\ oom' = oom /\ texts' \subseteq texts
  BY DEF Stores, Forget, Kinds
<1>2. TypedRest'
  BY <1>1, RestRead DEF TypedRest, Typed
<1>3. /\ d \in Addr \ LiveOf(heap) /\ b \in LiveOf(heap) /\ LiveOf(heap) \subseteq Addr
      /\ LiveOf(heap') = LiveOf(heap) \cup {d}
      /\ heap'[d] = Fields("directive", Top.head, Top.args, <<>>, <<>>)
      /\ heap'[b] = Fields(heap[b].kind, heap[b].name, heap[b].args,
                           Append(heap[b].dirs, d), heap[b].subs)
      /\ \A a \in Addr \ {b, d} : heap'[a] = heap[a]
  BY StoredHeap
<1>4. /\ heap'[d].kind = "directive" /\ heap'[d].name = Top.head /\ heap'[d].args = Top.args
      /\ heap'[b].kind = heap[b].kind /\ heap'[b].name = heap[b].name
      /\ heap'[b].args = heap[b].args
  BY <1>3, FieldsFacts
<1>5. /\ Top.head \in Words /\ Elements(Top.args) \subseteq Words /\ stack # <<>>
      /\ \A k \in 1..Len(stack) : stack[k].block \in LiveOf(heap)
  BY <1>1, TokenRead, TopTyped
<1>6. f.block = b /\ f.head = 0 /\ Elements(f.args) = {} /\ 0 \in 0..MaxTokens
  BY DeserializeAssumption DEF Frame, Elements
<1>7. NewTop(stack', stack, f)
  BY FramesStored
<1> HIDE DEF d, f
<1>8. TypedHeap(heap')
  <2>1. \A a \in Addr : a = d \/ a = b \/ a \in Addr \ {b, d}
    OBVIOUS
  <2> QED BY <1>3, <1>4, <1>5, <2>1 DEF Typed, TypedHeap
<1>9. TypedFrames(heap, stack')
  BY <1>6, <1>7, TypedTop DEF Typed, Top
<1>10. \A k \in 1..Len(stack') : stack'[k].block \in LiveOf(heap)
  BY <1>5, <1>6, <1>7 DEF NewTop, Top
<1>11. \A a \in LiveOf(heap) : heap'[a].kind = heap[a].kind
  BY <1>3, <1>4
<1>12. TypedFrames(heap', stack')
  BY <1>9, <1>10, <1>11, TypedKinds
<1> QED BY <1>2, <1>8, <1>12 DEF Typed

LEMMA TypedOpened == ASSUME Parse, Typed, Opens PROVE Typed'
<1> DEFINE d == Malloc
           f == Frame(d)
<1>1. Read("lbrace") /\ "lbrace" \in Kinds /\ oom' = oom /\ texts' = texts
  BY DEF Opens, Kinds
<1>2. TypedRest'
  BY <1>1, RestRead DEF TypedRest, Typed
<1>3. /\ d \in Addr \ LiveOf(heap) /\ LiveOf(heap) \subseteq Addr
      /\ LiveOf(heap') = LiveOf(heap) \cup {d}
      /\ heap'[d] = Fields("block", Top.head, Top.args, <<>>, <<>>)
      /\ \A a \in Addr \ {d} : heap'[a] = heap[a]
  BY OpenedHeap
<1>4. heap'[d].kind = "block" /\ heap'[d].name = Top.head /\ heap'[d].args = Top.args
  BY <1>3, FieldsFacts
<1>5. /\ Top.head \in Words /\ Elements(Top.args) \subseteq Words /\ stack # <<>>
      /\ \A k \in 1..Len(stack) : stack[k].block \in LiveOf(heap)
  BY <1>1, TokenRead, TopTyped
<1>6. f.block = d /\ f.head = 0 /\ Elements(f.args) = {} /\ 0 \in 0..MaxTokens
  BY DeserializeAssumption DEF Frame, Elements
<1>7. /\ Len(stack') = Len(stack) + 1 /\ Len(stack) \in Nat \ {0}
      /\ stack'[Len(stack) + 1] = f /\ \A k \in 1..Len(stack) : stack'[k] = stack[k]
  BY FramesOpened
<1> HIDE DEF d, f
<1>8. TypedHeap(heap')
  BY <1>3, <1>4, <1>5 DEF Typed, TypedHeap
<1>9. TypedFrames(heap', stack)
  BY <1>3, <1>5, TypedKinds DEF Typed
<1>10. \A k \in 1..Len(stack') : k \in 1..Len(stack) \/ k = Len(stack) + 1
  BY <1>7
<1>11. TypedFrames(heap', stack')
  BY <1>4, <1>6, <1>7, <1>9, <1>10 DEF TypedFrames
<1> QED BY <1>2, <1>8, <1>11 DEF Typed

LEMMA TypedLate == ASSUME Parse, Typed, Late PROVE Typed'
<1> DEFINE d == Malloc
<1>1. PICK o \in {Block(Top.head, Top.args), Directive(Top.head, Top.args)} :
         Discards(d, [heap EXCEPT ![d] = o])
  BY DEF Late
<1>2. PICK k \in Kinds : Read(k)
  BY DEF Late
<1>3. heap' = [heap EXCEPT ![d] = o] /\ UNCHANGED <<stack, texts>> /\ oom' = TRUE
  BY <1>1 DEF Discards
<1>4. TypedRest'
  BY <1>2, <1>3, RestRead DEF TypedRest, Typed
<1>5. d \in Addr \ LiveOf(heap) /\ heap = [a \in Addr |-> heap[a]]
  BY MallocFacts DEF Late, Parse, Owned
<1>6. o.kind \in {"block", "directive"} /\ o.name = Top.head /\ o.args = Top.args
  <2>1. PICK kind \in {"block", "directive"} : o = Fields(kind, Top.head, Top.args, <<>>, <<>>)
    BY NewRecords
  <2> QED BY <2>1, FieldsFacts
<1>7. /\ Top.head \in Words /\ Elements(Top.args) \subseteq Words
      /\ \A j \in 1..Len(stack) : stack[j].block \in LiveOf(heap)
  <2>1. stack # <<>>
    BY <1>2, ReadFacts DEF Read
  <2> QED BY <2>1, TopTyped
<1> HIDE DEF d
<1>8. heap'[d] = o /\ \A a \in Addr \ {d} : heap'[a] = heap[a]
  BY <1>3, <1>5
<1>9. \A a \in Addr : a \notin LiveOf(heap') => a # d /\ a \notin LiveOf(heap)
  BY <1>5, <1>6, <1>8 DEF LiveOf
<1>10. TypedHeap(heap')
  BY <1>5, <1>6, <1>7, <1>8, <1>9 DEF Typed, TypedHeap
<1>11. \A j \in 1..Len(stack) : heap'[stack[j].block].kind = heap[stack[j].block].kind
  BY <1>5, <1>7, <1>8 DEF LiveOf
<1>12. TypedFrames(heap', stack')
  BY <1>3, <1>11, TypedKinds DEF Typed
<1> QED BY <1>4, <1>10, <1>12 DEF Typed

LEMMA TypedClosed == ASSUME Parse, Typed, Closes PROVE Typed'
<1> DEFINE s == Top.block
           b == Parent
           f == Frame(b)
<1>1. Read("rbrace") /\ "rbrace" \in Kinds /\ oom' = oom /\ texts' \subseteq texts
  BY DEF Closes, Forget, Kinds
<1>2. TypedRest'
  BY <1>1, RestRead DEF TypedRest, Typed
<1>3. /\ b \in LiveOf(heap) /\ s \in LiveOf(heap) /\ LiveOf(heap) \subseteq Addr
      /\ LiveOf(heap') = LiveOf(heap)
      /\ heap'[b] = Fields(heap[b].kind, heap[b].name, heap[b].args,
                           heap[b].dirs, Append(heap[b].subs, s))
      /\ \A a \in Addr \ {b} : heap'[a] = heap[a]
  BY ClosedHeap
<1>4. heap'[b].kind = heap[b].kind /\ heap'[b].name = heap[b].name /\ heap'[b].args = heap[b].args
  BY <1>3, FieldsFacts
<1>5. \A k \in 1..Len(stack) : stack[k].block \in LiveOf(heap)
  BY <1>1, TokenRead, TopTyped
<1>6. f.block = b /\ f.head = 0 /\ Elements(f.args) = {} /\ 0 \in 0..MaxTokens
  BY DeserializeAssumption DEF Frame, Elements
<1>7. /\ Len(stack') = Depth /\ Depth \in Nat \ {0} /\ Depth = Len(stack) - 1
      /\ stack'[Depth] = f /\ \A k \in 1..(Depth - 1) : stack'[k] = stack[k]
  BY FramesClosed
<1>8. TypedHeap(heap')
  BY <1>3, <1>4 DEF Typed, TypedHeap
<1>9. TypedFrames(heap', stack)
  BY <1>3, <1>4, <1>5, TypedKinds DEF Typed
<1>10. /\ Depth \in 1..Len(stack) /\ b = stack[Depth].block
       /\ \A k \in 1..Len(stack') : \/ k \in 1..(Depth - 1) /\ k \in 1..Len(stack)
                                    \/ k = Depth
  BY <1>7 DEF Parent
<1> HIDE DEF f, b
<1>11. ASSUME NEW k \in 1..Len(stack')
       PROVE  /\ heap'[stack'[k].block].kind = "block"
              /\ stack'[k].head \in 0..MaxTokens
              /\ Elements(stack'[k].args) \subseteq Words
  <2>1. CASE k = Depth
    <3>1. heap'[b].kind = "block"
      BY <1>9, <1>10 DEF TypedFrames
    <3>2. stack'[k] = f
      BY <1>7, <2>1
    <3> QED BY <1>6, <3>1, <3>2
  <2>2. CASE k \in 1..(Depth - 1) /\ k \in 1..Len(stack)
    <3>1. stack'[k] = stack[k]
      BY <1>7, <2>2
    <3> QED BY <1>9, <2>2, <3>1 DEF TypedFrames
  <2> QED BY <1>10, <2>1, <2>2
<1>12. TypedFrames(heap', stack')
  BY <1>11 DEF TypedFrames
<1> QED BY <1>2, <1>8, <1>12 DEF Typed

LEMMA TypedNext ==
  ASSUME Inv, Inv', Typed, [Next]_vars
  PROVE  Typed'
<1>1. CASE UNCHANGED <<heap, stack, toks, texts, oom>>
  BY <1>1 DEF Typed, TypedRest
<1>2. CASE ~Parse
  BY <1>1, <1>2, CrashEnds DEF vars
<1>3. CASE Parse /\ CreateMain
  <2>1. UNCHANGED <<toks, texts>> /\ stack = <<>> /\ pc = "main" /\ oom' \in BOOLEAN
    BY <1>3 DEF CreateMain, Parse, Phase, Typed, TypedRest
  <2>2. TypedRest'
    BY <2>1 DEF Typed, TypedRest
  <2>3. CASE UNCHANGED <<heap, stack>>
    BY <2>2, <2>3 DEF Typed
  <2>4. CASE heap' = [heap EXCEPT ![Malloc] = Block(0, <<>>)] /\ stack' = <<Frame(Malloc)>>
    <3> DEFINE d == Malloc
    <3>1. LiveOf(heap) = {}
      <4>1. Chain = <<>>
        BY <2>1 DEF Chain
      <4>2. Held = {}
        BY <1>3, <2>1, <4>1 DEF Held, Elements, Parse, Phase
      <4> QED BY <1>3, <4>2, NoneHeld DEF Parse
    <3>2. d \in Addr
      <4>1. Unused # {}
        BY <3>1, DeserializeAssumption DEF Unused, Live, LiveOf
      <4> QED BY <4>1, MallocFacts
    <3>3. heap'[d] = Fields("block", 0, <<>>, <<>>, <<>>) /\ \A a \in Addr \ {d} : heap'[a] = heap[a]
      <4>1. heap = [a \in Addr |-> heap[a]]
        BY <1>3 DEF Parse, Owned
      <4>2. Block(0, <<>>) = Fields("block", 0, <<>>, <<>>, <<>>)
        BY NewRecords
      <4> QED BY <2>4, <3>2, <4>1, <4>2
    <3>4. heap'[d].kind = "block" /\ heap'[d].name = 0 /\ heap'[d].args = <<>>
      BY <3>3, FieldsFacts
    <3>5. Elements(<<>>) = {} /\ 0 \in Words /\ 0 \in 0..MaxTokens
      BY DeserializeAssumption DEF Elements, Words
    <3>6. Len(stack') = 1 /\ stack'[1].block = d /\ stack'[1].head = 0 /\ stack'[1].args = <<>>
      BY <2>4 DEF Frame
    <3> HIDE DEF d
    <3>7. d \in LiveOf(heap') /\ \A a \in Addr \ {d} : a \notin LiveOf(heap)
      BY <3>1, <3>2, <3>4 DEF LiveOf
    <3>8. TypedHeap(heap')
      BY <3>2, <3>3, <3>4, <3>5, <3>7 DEF Typed, TypedHeap
    <3>9. TypedFrames(heap', stack')
      BY <3>4, <3>5, <3>6 DEF TypedFrames
    <3> QED BY <2>2, <3>8, <3>9 DEF Typed
  <2> QED BY <1>3, <2>3, <2>4 DEF CreateMain
<1>4. CASE Parse /\ Short
  <2>1. PICK k \in Kinds : Read(k)
    BY <1>4 DEF Short
  <2>2. UNCHANGED <<heap, stack, texts>> /\ oom' = TRUE
    BY <1>4 DEF Short
  <2> QED BY <1>4, <2>1, <2>2, RestRead DEF Typed, TypedRest
<1>10. CASE Parse /\ Late
  BY <1>10, TypedLate
<1>5. CASE Parse /\ Succeed
  <2>1. /\ Read("eof") /\ "eof" \in Kinds /\ UNCHANGED <<heap, texts, oom>> /\ stack' = <<>>
    BY <1>5 DEF Succeed, Kinds, tree
  <2>2. TypedRest'
    BY <1>5, <2>1, RestRead DEF Typed, TypedRest
  <2>3. TypedFrames(heap, stack')
    BY <2>1 DEF TypedFrames
  <2> QED BY <2>1, <2>2, <2>3 DEF Typed
<1>6. CASE Parse /\ Refuse
  <2>1. PICK k \in Refused : Read(k)
    BY <1>6 DEF Refuse
  <2>2. k \in Kinds /\ UNCHANGED <<heap, stack, texts, oom>>
    BY <1>6 DEF Refuse, Refused, Kinds, tree
  <2> QED BY <1>6, <2>1, <2>2, RestRead DEF Typed, TypedRest
<1>7. CASE Parse /\ Unwind
  <2>1. CASE stack = <<>>
    BY <1>1, <1>7, <2>1 DEF Unwind
  <2>2. CASE stack # <<>>
    <3>1. /\ Forget(Top) /\ stack' = Below /\ UNCHANGED <<heap, toks, oom>> /\ stack \in Seq(Frames)
      BY <1>7, <2>2 DEF Unwind, Parse, Sound
    <3>2. /\ Len(stack') = Len(stack) - 1 /\ Len(stack) \in Nat \ {0}
          /\ \A k \in 1..(Len(stack) - 1) : stack'[k] = stack[k]
      BY <2>2, <3>1, Popped, Zenon DEF Below
    <3>3. \A k \in 1..Len(stack') : k \in 1..Len(stack) /\ stack'[k] = stack[k]
      BY <3>2
    <3>4. TypedFrames(heap, stack')
      BY <3>3 DEF Typed, TypedFrames
    <3>5. TypedRest'
      BY <3>1 DEF Forget, Typed, TypedRest
    <3> QED BY <3>1, <3>4, <3>5 DEF Typed
  <2> QED BY <2>1, <2>2
<1>8. CASE Parse /\ Free
  <2> DEFINE a == CHOOSE x \in zap : TRUE
  <2>1. a \in zap /\ heap' = [heap EXCEPT ![a] = NoObject] /\ UNCHANGED <<toks, stack, texts, oom>>
    BY <1>8 DEF Free, FreeStep
  <2> HIDE DEF a
  <2>2. heap = [x \in Addr |-> heap[x]] /\ a \notin Elements(Chain)
    BY <1>8, <2>1 DEF Parse, Owned, Sound
  <2>3. heap' = [x \in Addr |-> IF x = a THEN NoObject ELSE heap[x]]
    BY <2>1, <2>2
  <2>4. NoObject.kind = "none" /\ NoObject.name = Null /\ NoObject.args = <<>> /\ Elements(<<>>) = {}
    BY DEF NoObject, Elements
  <2>5. Null \in Words
    BY DEF Words
  <2>6. \A x \in Addr : heap'[x] = NoObject \/ (heap'[x] = heap[x] /\ x # a)
    BY <2>3
  <2>7. TypedHeap(heap')
    BY <2>4, <2>5, <2>6 DEF Typed, TypedHeap, LiveOf
  <2>8. \A k \in 1..Len(stack) : stack[k].block # a /\ stack[k].block \in Addr
    BY <1>8, <2>2, ChainFacts
  <2>9. \A k \in 1..Len(stack) : heap'[stack[k].block] = heap[stack[k].block]
    BY <2>3, <2>8
  <2>10. TypedFrames(heap', stack)
    BY <2>9, TypedKinds DEF Typed
  <2> QED BY <2>1, <2>7, <2>10 DEF Typed, TypedRest
<1>9. CASE UNCHANGED vars
  BY <1>1, <1>9 DEF vars
<1> QED BY <1>2, <1>3, <1>4, <1>5, <1>6, <1>7, <1>8, <1>9, <1>10, StepCases,
           TypedHead, TypedArg, TypedStored, TypedOpened, TypedClosed

\* Between two steps, what is typed is as TypeOK says.
LEMMA TypeFollows ==
  ASSUME NEW h, NEW W, Owned(h, W), TypedHeap(h), NEW s, TypedFrames(h, s),
         \A k \in 1..Len(s) : s[k].block \in LiveOf(h)
  PROVE  /\ \A a \in Addr : /\ h[a].kind \in {"none", "block", "directive"}
                             /\ h[a].name \in Words /\ Elements(h[a].args) \subseteq Words
                             /\ Elements(Kids(h[a])) \subseteq Addr
         /\ \A f \in Elements(s) : /\ f.block \in LiveOf(h) /\ h[f.block].kind = "block"
                                   /\ f.head \in 0..MaxTokens /\ Elements(f.args) \subseteq Words
<1>1. \A a \in Addr : Elements(Kids(h[a])) \subseteq Addr
  BY KidsTyped
<1> QED BY <1>1 DEF TypedHeap, TypedFrames, Elements

LEMMA TypeNext ==
  ASSUME Inv, Inv', Typed, Typed', TypeOK, [Next]_vars
  PROVE  TypeOK'
<1>1. CASE UNCHANGED vars
  BY <1>1 DEF vars, TypeOK, Live
<1>2. CASE Parse'
  <2>1. Owned(heap', Held') /\ TypedHeap(heap') /\ TypedFrames(heap', stack')
    BY <1>2 DEF Parse, Typed
  <2>2. \A k \in 1..Len(stack') : stack'[k].block \in LiveOf(heap')
    <3>1. stack' \in Seq(Frames) /\ Held' \subseteq LiveOf(heap') /\ Elements(Chain') \subseteq Held'
      BY <1>2, <2>1 DEF Parse, Sound, Owned, Held
    <3>2. \A k \in 1..Len(stack') : stack'[k].block \in Elements(Chain')
      <4>1. Len(Chain') = Len(stack') /\ \A k \in 1..Len(stack') : Chain'[k] = stack'[k].block
        BY <3>1 DEF Chain
      <4> QED BY <4>1 DEF Elements
    <3> QED BY <3>1, <3>2
  <2>3. /\ \A a \in Addr : /\ heap'[a].kind \in {"none", "block", "directive"}
                            /\ heap'[a].name \in Words /\ Elements(heap'[a].args) \subseteq Words
                            /\ Elements(Kids(heap'[a])) \subseteq Addr
        /\ \A f \in Elements(stack') :
             /\ f.block \in LiveOf(heap') /\ heap'[f.block].kind = "block"
             /\ f.head \in 0..MaxTokens /\ Elements(f.args) \subseteq Words
    BY <2>1, <2>2, TypeFollows
  <2>4. zap' \subseteq Addr /\ broken' \in {"no", "double free", "NULL list"}
    <3>1. zap' \subseteq Held' /\ Held' \subseteq LiveOf(heap') /\ broken' = "no"
      BY <1>2, <2>1 DEF Parse, Owned, Held
    <3> QED BY <3>1 DEF LiveOf
  <2>5. pc' \in {"main", "parsing", "failing", "done"} /\ result' \in Addr \cup {Null}
    BY <1>2 DEF Parse, Phase
  <2>6. TypedRest'
    BY DEF Typed
  <2>7. LiveOf(heap') = Live'
    BY DEF LiveOf, Live
  <2> QED BY <2>3, <2>4, <2>5, <2>6, <2>7 DEF TypeOK, TypedRest
<1>3. CASE ~Parse' /\ ~(UNCHANGED vars)
  <2>1. Parse /\ broken' # "no"
    BY <1>3, CrashEnds DEF Inv
  <2>2. Short
    <3>1. broken = "no"
      BY <2>1 DEF Parse
    <3>2. broken' = broken \/ Short \/ Free
      BY <1>3, StepCases DEF CreateMain, ReadHead, Adds, Stores, Opens, Closes, Succeed, Refuse,
                            Unwind, Late, Discards, tree
    <3>3. ~Free
      <4>1. ASSUME Free PROVE FALSE
        BY <1>3, <2>1, <4>1, InvFree
      <4> QED BY <4>1
    <3> QED BY <2>1, <3>1, <3>2, <3>3
  <2>3. UNCHANGED <<heap, zap, stack, texts, result>> /\ pc' \in {pc, "failing"}
        /\ broken' \in {broken, "NULL list"}
    BY <2>2 DEF Short
  <2>4. TypedRest'
    BY DEF Typed
  <2> QED BY <2>3, <2>4 DEF TypeOK, TypedRest, Live
<1> QED BY <1>1, <1>2, <1>3

LEMMA TypedInit == Init => Typed /\ TypeOK
<1> SUFFICES ASSUME Init PROVE Typed /\ TypeOK
  OBVIOUS
<1>1. /\ heap = [a \in Addr |-> NoObject] /\ zap = {} /\ broken = "no" /\ toks = <<>>
      /\ stack = <<>> /\ texts = {} /\ pc = "main" /\ result = Null /\ oom = FALSE
  BY DEF Init
<1>2. /\ NoObject.kind = "none" /\ NoObject.name = Null /\ NoObject.args = <<>>
      /\ Kids(NoObject) = <<>>
  BY DEF NoObject, Kids
<1>3. Elements(<<>>) = {} /\ Null \in Words /\ Len(<<>>) <= MaxTokens
  BY DeserializeAssumption DEF Elements, Words
<1>4. \A a \in Addr : heap[a] = NoObject
  BY <1>1
<1>5. TypedHeap(heap)
  BY <1>2, <1>3, <1>4 DEF TypedHeap
<1>6. Len(stack) = 0 /\ Elements(stack) = {} /\ Elements(toks) = {} /\ Len(toks) <= MaxTokens
  <2>1. \A s : s = <<>> => Len(s) = 0 /\ Elements(s) = {}
    BY DEF Elements
  <2>2. 0 <= MaxTokens
    BY DeserializeAssumption
  <2> QED BY <1>1, <2>1, <2>2
<1>7. TypedRest /\ TypedFrames(heap, stack)
  <2>1. TypedFrames(heap, stack)
    BY <1>6 DEF TypedFrames
  <2>2. oom \in BOOLEAN /\ texts = {}
    BY <1>1
  <2> QED BY <1>6, <2>1, <2>2 DEF TypedRest
<1>8. \A a \in Addr : /\ heap[a].kind = "none" /\ heap[a].name \in Words
                      /\ Elements(heap[a].args) = {} /\ Elements(Kids(heap[a])) = {}
  BY <1>2, <1>3, <1>4
<1>9. TypeOK
  <2>1. zap \subseteq Addr /\ texts \subseteq 1..MaxTokens /\ Elements(toks) \subseteq Kinds
    BY <1>1, <1>6
  <2>2. \A a \in Addr : /\ heap[a].kind \in {"none", "block", "directive"}
                        /\ heap[a].name \in Words /\ Elements(heap[a].args) \subseteq Words
                        /\ Elements(Kids(heap[a])) \subseteq Addr
    BY <1>8
  <2>3. \A f \in Elements(stack) : FALSE
    BY <1>6
  <2>4. /\ broken \in {"no", "double free", "NULL list"} /\ oom \in BOOLEAN
        /\ pc \in {"main", "parsing", "failing", "done"} /\ result \in Addr \cup {Null}
    BY <1>1
  <2> QED BY <1>6, <2>1, <2>2, <2>3, <2>4, Zenon DEF TypeOK
<1> QED BY <1>5, <1>7, <1>9 DEF Typed

\* Every word of a tree, its lists and the frames are of their types in every
\* state, for inputs of any length: among others a frame's block is a live one.
THEOREM TypeCorrect == Spec => []TypeOK
<1>1. Init => Typed /\ TypeOK
  BY TypedInit
<1>2. Inv /\ Inv' /\ Typed /\ TypeOK /\ [Next]_vars => Typed' /\ TypeOK'
  BY TypedNext, TypeNext
<1> QED BY <1>1, <1>2, InvInit, InvNext, PTL DEF Spec
-----------------------------------------------------------------------------
\* The tree that is built, against the grammar: h is the heap, t the input and
\* c the blocks of the frames.

\* Where the statement under way begins.
Front(t) == HeadOf(t, Len(t) + 1)

\* The statement under way: what its frame has of it.
Statement(t, f) ==
  IF f.head = 0 THEN Front(t) = Len(t) + 1
                ELSE /\ f.head = Front(t) /\ f.head # Len(t) + 1
                     /\ f.args = ArgsOf(t, Len(t) + 1)

\* Each object has the name of an earlier statement, and no two have the same.
Named(h, t) ==
  /\ \A a \in LiveOf(h) : h[a].name \in 0..(Front(t) - 1)
  /\ \A a, b \in LiveOf(h) : h[a].name = h[b].name => a = b

Counted(h, t) ==
  /\ IsFiniteSet(LiveOf(h))
  /\ Cardinality(LiveOf(h)) = 1 + Cardinality(Ends(t, "semicolon") \cup Ends(t, "lbrace"))

\* Each object but the outermost block is from a statement.
From(h, t, a) ==
  \E p \in Ends(t, IF h[a].kind = "block" THEN "lbrace" ELSE "semicolon") :
     HeadOf(t, p) = h[a].name /\ ArgsOf(t, p) = h[a].args
Origin(h, t, c) ==
  /\ h[c[1]].kind = "block" /\ h[c[1]].name = 0 /\ h[c[1]].args = <<>>
  /\ \A a \in LiveOf(h) : a = c[1] \/ From(h, t, a)

\* The frames stand for the blocks that are open.
StandsFor(h, t, c, m) ==
  \E p \in Open(t, Len(t) + 1) : /\ DepthAt(t, p) = m - 1 /\ HeadOf(t, p) = h[c[m]].name
                                /\ BlockOf(t, p) = h[c[m - 1]].name
Nested(h, t, c) == \A m \in 2..Len(c) : StandsFor(h, t, c, m)

\* The blocks closed so far in the block of that name.
Closed(t, name) ==
  {HeadOf(t, p) : p \in {q \in Ends(t, "lbrace") \ Open(t, Len(t) + 1) : BlockOf(t, q) = name}}

NamesOf(h, list) == [j \in 1..Len(list) |-> h[list[j]].name]

\* The lists of an object hold what the input has in it so far.
Right(h, t, a) ==
  /\ InOrder(NamesOf(h, h[a].dirs),
             IF h[a].kind = "block" THEN In(t, "semicolon", h[a].name) ELSE {})
  /\ InOrder(NamesOf(h, h[a].subs),
             IF h[a].kind = "block" THEN Closed(t, h[a].name) ELSE {})

Level(t) == \A p \in 0..Len(t) : DepthAt(t, p) >= 0

Built(h, t, c) == /\ Named(h, t) /\ Counted(h, t) /\ Origin(h, t, c) /\ Nested(h, t, c)
                  /\ Level(t) /\ \A a \in LiveOf(h) : Right(h, t, a)

LEMMA FrontFacts ==
  ASSUME NEW t, Len(t) \in Nat
  PROVE  /\ Front(t) \in 1..(Len(t) + 1)
         /\ \A q \in 1..Len(t) : t[q] \in Separators => q < Front(t)
<1>1. Len(t) + 1 \in Nat \ {0} /\ Len(t) + 1 - 1 = Len(t)
  OBVIOUS
<1> QED BY <1>1, HeadFacts DEF Front

LEMMA FrontNext ==
  ASSUME NEW t, NEW k, NEW u, Longer(t, k, u)
  PROVE  Front(u) = IF k \in Separators THEN Len(t) + 2 ELSE Front(t)
<1>1. Len(u) + 1 = Len(t) + 2
  BY DEF Longer
<1> QED BY <1>1, HeadNext DEF Front

\* The places where statements end are behind their heads, and those before the
\* statement under way.
LEMMA EndFacts ==
  ASSUME NEW t, Len(t) \in Nat, NEW e \in Separators, NEW p \in Ends(t, e)
  PROVE  /\ p \in 1..Len(t) /\ p \in Nat \ {0} /\ t[p] = e
         /\ HeadOf(t, p) \in 1..p /\ p < Front(t)
         /\ BlockOf(t, p) \in 0..(HeadOf(t, p) - 1)
<1>1. p \in 1..Len(t) /\ t[p] = e /\ p \in Nat \ {0}
  BY DEF Ends
<1> QED BY <1>1, FrontFacts, HeadFacts, BlockBefore

\* What is in a block has a greater name than the block.
LEMMA InFacts ==
  ASSUME NEW t, Len(t) \in Nat, NEW e \in Separators, NEW name
  PROVE  /\ In(t, e, name) \subseteq 1..(Front(t) - 1)
         /\ name = Front(t) => In(t, e, name) = {}
<1>1. ASSUME NEW p \in Ends(t, e)
      PROVE  HeadOf(t, p) \in 1..(Front(t) - 1) /\ BlockOf(t, p) # Front(t)
  <2>1. /\ p \in Nat /\ HeadOf(t, p) \in 1..p /\ p < Front(t)
        /\ BlockOf(t, p) \in 0..(HeadOf(t, p) - 1)
    BY EndFacts
  <2>2. Front(t) \in Nat
    BY FrontFacts
  <2> QED BY <2>1, <2>2
<1> QED BY <1>1 DEF In

LEMMA InNext ==
  ASSUME NEW t, NEW k, NEW u, Longer(t, k, u), NEW e, NEW name
  PROVE  In(u, e, name) =
           IF k = e /\ BlockOf(t, Len(t) + 1) = name
             THEN In(t, e, name) \cup {Front(t)} ELSE In(t, e, name)
<1>1. Len(t) \in Nat /\ \A q \in Ends(t, e) : q \in 1..(Len(t) + 1)
  BY DEF Longer, Ends
<1>2. /\ \A q \in Ends(t, e) : HeadOf(u, q) = HeadOf(t, q) /\ BlockOf(u, q) = BlockOf(t, q)
      /\ HeadOf(u, Len(t) + 1) = Front(t) /\ BlockOf(u, Len(t) + 1) = BlockOf(t, Len(t) + 1)
  <2>1. ASSUME NEW q \in 1..(Len(t) + 1)
        PROVE  HeadOf(u, q) = HeadOf(t, q) /\ BlockOf(u, q) = BlockOf(t, q)
    BY HeadKept, OpenKept
  <2>2. Len(t) + 1 \in 1..(Len(t) + 1)
    BY <1>1
  <2> QED BY <1>1, <2>1, <2>2 DEF Front
<1>3. Ends(u, e) = IF k = e THEN Ends(t, e) \cup {Len(t) + 1} ELSE Ends(t, e)
  BY EndsNext
<1>4. In(u, e, name) = {HeadOf(u, p) : p \in {q \in Ends(u, e) : BlockOf(u, q) = name}}
  BY DEF In
<1>5. In(t, e, name) = {HeadOf(t, p) : p \in {q \in Ends(t, e) : BlockOf(t, q) = name}}
  BY DEF In
<1>6. \A x : x \in In(u, e, name) <=>
         \/ x \in In(t, e, name)
         \/ k = e /\ x = Front(t) /\ BlockOf(t, Len(t) + 1) = name
  <2>1. \A x : x \in In(u, e, name) <=> \E p \in Ends(u, e) : BlockOf(u, p) = name /\ x = HeadOf(u, p)
    BY <1>4
  <2>2. \A x : x \in In(t, e, name) <=> \E p \in Ends(t, e) : BlockOf(t, p) = name /\ x = HeadOf(t, p)
    BY <1>5
  <2> QED BY <1>2, <1>3, <2>1, <2>2
<1> QED BY <1>6

\* The blocks closed so far, in the terms of the blocks that are open.
LEMMA ClosedNext ==
  ASSUME NEW t, NEW k, NEW u, Longer(t, k, u), NEW name
  PROVE  /\ k # "rbrace" => Closed(u, name) = Closed(t, name)
         /\ \A p \in Open(t, Len(t) + 1) :
              k = "rbrace" /\ Open(u, Len(t) + 2) = Open(t, Len(t) + 1) \ {p} =>
                Closed(u, name) = IF BlockOf(t, p) = name
                                    THEN Closed(t, name) \cup {HeadOf(t, p)} ELSE Closed(t, name)
<1> DEFINE n == Len(t)
           E == Ends(t, "lbrace")
           O == Open(t, n + 1)
           P == Open(u, n + 2)
<1>1. n \in Nat /\ Len(u) + 1 = n + 2 /\ n + 1 \notin E /\ O \subseteq E
  BY DEF Longer, Ends, Open
<1>2. \A q \in E : HeadOf(u, q) = HeadOf(t, q) /\ BlockOf(u, q) = BlockOf(t, q)
  <2>1. ASSUME NEW q \in 1..(Len(t) + 1)
        PROVE  HeadOf(u, q) = HeadOf(t, q) /\ BlockOf(u, q) = BlockOf(t, q)
    BY HeadKept, OpenKept
  <2>2. \A q \in E : q \in 1..(Len(t) + 1)
    BY <1>1 DEF Ends
  <2> QED BY <2>1, <2>2
<1>3. /\ Ends(u, "lbrace") = IF k = "lbrace" THEN E \cup {n + 1} ELSE E
      /\ P = IF k = "lbrace" THEN O \cup {n + 1}
             ELSE IF k = "rbrace"
               THEN {q \in O : DepthAt(t, q) < DepthAt(t, n)}
               ELSE O
  <2>1. Ends(u, "lbrace") = IF k = "lbrace" THEN E \cup {n + 1} ELSE E
    BY EndsNext
  <2>2. P = IF k = "lbrace" THEN O \cup {n + 1}
             ELSE IF k = "rbrace"
               THEN {q \in O : DepthAt(t, q) < DepthAt(t, n)}
               ELSE O
    BY OpenNext
  <2> QED BY <2>1, <2>2, Zenon
<1>4. \A x : x \in Closed(u, name) <=>
        \E q \in Ends(u, "lbrace") \ P : BlockOf(u, q) = name /\ x = HeadOf(u, q)
  BY <1>1 DEF Closed
<1>5. \A x : x \in Closed(t, name) <=>
        \E q \in E \ O : BlockOf(t, q) = name /\ x = HeadOf(t, q)
  BY DEF Closed
<1> HIDE DEF n, E, O, P
<1>6. Ends(u, "lbrace") \ P = IF k = "rbrace" THEN E \ P ELSE E \ O
  BY <1>1, <1>3
<1>7. ASSUME k # "rbrace" PROVE Closed(u, name) = Closed(t, name)
  <2>1. \A x : x \in Closed(u, name) <=> x \in Closed(t, name)
    BY <1>2, <1>4, <1>5, <1>6, <1>7
  <2> QED BY <2>1
<1>8. ASSUME NEW p \in O, k = "rbrace", P = O \ {p}
      PROVE  Closed(u, name) = IF BlockOf(t, p) = name
                                 THEN Closed(t, name) \cup {HeadOf(t, p)} ELSE Closed(t, name)
  <2>1. E \ P = (E \ O) \cup {p}
    BY <1>1, <1>8
  <2>2. \A x : x \in Closed(u, name) <=>
          \/ x \in Closed(t, name)
          \/ BlockOf(t, p) = name /\ x = HeadOf(t, p)
    BY <1>1, <1>2, <1>4, <1>5, <1>6, <1>8, <2>1
  <2> QED BY <2>2
<1> QED BY <1>7, <1>8 DEF n, O, P

\* They are among the blocks that were opened in it.
LEMMA ClosedFacts ==
  ASSUME NEW t, NEW name
  PROVE  /\ Closed(t, name) \subseteq In(t, "lbrace", name)
         /\ Open(t, Len(t) + 1) = {} => Closed(t, name) = In(t, "lbrace", name)
BY DEF Closed, In

\* The innermost open block: its statement is where the next token stands.
LEMMA Innermost ==
  ASSUME NEW t, Len(t) \in Nat, Level(t), NEW h, NEW c, Nested(h, t, c), Len(c) \in Nat \ {0},
         DepthAt(t, Len(t)) = Len(c) - 1, h[c[1]].name = 0
  PROVE  /\ Len(c) = 1 => Open(t, Len(t) + 1) = {}
         /\ BlockOf(t, Len(t) + 1) = h[c[Len(c)]].name
         /\ Len(c) # 1 => \E p \in Open(t, Len(t) + 1) :
              /\ HeadOf(t, p) = h[c[Len(c)]].name /\ BlockOf(t, p) = h[c[Len(c) - 1]].name
              /\ DepthAt(t, p) = Len(c) - 1
              /\ \A q \in Open(t, Len(t) + 1) : q <= p /\ (q # p => DepthAt(t, q) < Len(c) - 1)
<1> DEFINE n == Len(t)
           O == Open(t, n + 1)
<1>1. /\ n \in Nat /\ n + 1 - 1 = n
      /\ \A q \in O : /\ q \in 1..n /\ t[q] = "lbrace" /\ DepthAt(t, n) >= DepthAt(t, q)
  <2>1. ASSUME NEW q \in O
        PROVE  q \in 1..n /\ t[q] = "lbrace" /\ DepthAt(t, n) >= DepthAt(t, q)
    <3>1. q \in 1..(n + 1 - 1) /\ n + 1 - 1 = n
      BY DEF Open
    <3>2. n \in q..(n + 1 - 1)
      BY <3>1
    <3> QED BY <3>1, <3>2 DEF Open
  <2> QED BY <2>1
<1>2. ASSUME NEW q \in O PROVE DepthAt(t, q) >= 1 /\ DepthAt(t, q) \in Int
  <2>1. q \in Nat \ {0} /\ q - 1 \in 0..n /\ q - 1 \in Nat
    BY <1>1
  <2>2. DepthAt(t, q) = DepthAt(t, q - 1) + 1 /\ DepthAt(t, q - 1) \in Int
    BY <1>1, <2>1, DepthFacts
  <2>3. DepthAt(t, q - 1) >= 0
    BY <2>1 DEF Level
  <2> QED BY <2>2, <2>3
<1>3. O \in SUBSET (1..n)
  BY <1>1
<1>4. BlockOf(t, n + 1) = IF O = {} THEN 0 ELSE HeadOf(t, Last(O))
  BY DEF BlockOf
<1>5. CASE Len(c) = 1
  <2>1. O = {}
    BY <1>1, <1>2, <1>5
  <2> QED BY <1>4, <1>5, <2>1
<1>6. CASE Len(c) # 1
  <2>1. PICK p \in O : /\ DepthAt(t, p) = Len(c) - 1 /\ HeadOf(t, p) = h[c[Len(c)]].name
                       /\ BlockOf(t, p) = h[c[Len(c) - 1]].name
    <3>1. Len(c) \in 2..Len(c)
      <4>1. \A m \in Nat \ {0} : m # 1 => m \in 2..m
        OBVIOUS
      <4> QED BY <1>6, <4>1, Zenon
    <3> QED BY <3>1 DEF Nested, StandsFor
  <2>2. ASSUME NEW q \in O PROVE q <= p /\ (q # p => DepthAt(t, q) < Len(c) - 1)
    <3>1. n + 1 \in Nat \ {0} /\ q \in Nat /\ p \in Nat
      BY <1>1
    <3>2. q < p => DepthAt(t, q) < DepthAt(t, p)
      BY <3>1, OpenDeep
    <3>3. p < q => DepthAt(t, p) < DepthAt(t, q)
      BY <3>1, OpenDeep
    <3>4. ~(p < q)
      BY <1>1, <1>2, <2>1, <3>3
    <3> QED BY <2>1, <3>1, <3>2, <3>4
  <2>3. Last(O) = p
    <3> HIDE DEF O
    <3> QED BY <1>1, <1>3, <2>2, LastFacts
  <2>4. BlockOf(t, n + 1) = HeadOf(t, p)
    <3> HIDE DEF O
    <3> QED BY <1>4, <2>1, <2>3
  <2>5. \E r \in O : /\ HeadOf(t, r) = h[c[Len(c)]].name /\ BlockOf(t, r) = h[c[Len(c) - 1]].name
                     /\ DepthAt(t, r) = Len(c) - 1
                     /\ \A q \in O : q <= r /\ (q # r => DepthAt(t, q) < Len(c) - 1)
    <3> HIDE DEF O
    <3> QED BY <2>1, <2>2, Zenon
  <2>7. BlockOf(t, Len(t) + 1) = h[c[Len(c)]].name
    BY <2>1, <2>4
  <2> QED BY <1>6, <2>5, <2>7, Zenon
<1> QED BY <1>5, <1>6
-----------------------------------------------------------------------------
\* Lists of names.
LEMMA NoneInOrder ==
  ASSUME NEW h, NEW list, list = <<>>
  PROVE  InOrder(NamesOf(h, list), {})
<1> DEFINE s == NamesOf(h, list)
<1>1. Len(list) = 0
  OBVIOUS
<1>2. s = [j \in 1..0 |-> h[list[j]].name]
  BY <1>1 DEF NamesOf
<1>3. Len(s) = 0
  BY <1>2
<1> HIDE DEF s
<1>4. Elements(s) = {} /\ Cardinality({}) = 0
  BY <1>3, FS_EmptySet DEF Elements
<1> QED BY <1>3, <1>4 DEF InOrder, s

LEMMA NamesKept ==
  ASSUME NEW h, NEW g, NEW A, NEW list \in Seq(A), \A a \in A : g[a].name = h[a].name
  PROVE  NamesOf(g, list) = NamesOf(h, list)
BY DEF NamesOf

LEMMA NamesAppended ==
  ASSUME NEW h, NEW g, NEW A, NEW list \in Seq(A), \A a \in A : g[a].name = h[a].name,
         NEW d, NEW b \in Nat, NEW S \in SUBSET (0..b), InOrder(NamesOf(h, list), S),
         g[d].name = b + 1
  PROVE  InOrder(NamesOf(g, Append(list, d)), S \cup {b + 1})
<1> DEFINE l == Append(list, d)
           s == NamesOf(h, list)
           w == NamesOf(g, l)
           m == Len(list)
<1>1. /\ Len(l) = m + 1 /\ m \in Nat /\ l[m + 1] = d /\ \A j \in 1..m : l[j] = list[j] /\ list[j] \in A
  OBVIOUS
<1> HIDE DEF l
<1>2. Len(s) = m /\ \A j \in 1..m : s[j] = h[list[j]].name
  BY <1>1 DEF NamesOf
<1>3. Len(w) = m + 1 /\ \A j \in 1..(m + 1) : w[j] = g[l[j]].name
  BY <1>1 DEF NamesOf
<1> HIDE DEF m, s, w
<1>4. \A j : j \in 1..(m + 1) <=> j \in 1..m \/ j = m + 1
  BY <1>1 DEF m
<1>5. w[m + 1] = b + 1 /\ \A j \in 1..m : w[j] = s[j]
  BY <1>1, <1>2, <1>3, <1>4 DEF m
<1>6. /\ Elements(s) = S /\ Len(s) = Cardinality(S)
      /\ \A j, k \in 1..Len(s) : j < k => s[j] < s[k]
  BY DEF InOrder, s
<1>7. Elements(w) = S \cup {b + 1}
  BY <1>2, <1>3, <1>4, <1>5, <1>6 DEF Elements
<1>8. Cardinality(S \cup {b + 1}) = Cardinality(S) + 1
  <2>1. IsFiniteSet(0..b)
    BY FS_Interval
  <2>2. IsFiniteSet(S) /\ b + 1 \notin S
    <3>1. b + 1 \notin 0..b
      OBVIOUS
    <3> QED BY <2>1, <3>1, FS_Subset
  <2> QED BY <2>2, FS_AddElement
<1>9. ASSUME NEW j \in 1..(m + 1), NEW k \in 1..(m + 1), j < k PROVE w[j] < w[k]
  <2>0. m \in Nat
    BY <1>1 DEF m
  <2>1. CASE k = m + 1
    <3>1. j \in 1..m
      BY <1>9, <2>0, <2>1
    <3>2. w[j] \in S
      BY <1>2, <1>5, <1>6, <3>1 DEF Elements
    <3>3. w[j] \in 0..b
      <4>1. \A y \in S : y \in 0..b
        OBVIOUS
      <4> QED BY <3>2, <4>1
    <3> QED BY <1>5, <2>1, <3>3
  <2>2. CASE k # m + 1
    <3>1. j \in 1..m /\ k \in 1..m
      BY <1>9, <2>0, <2>2
    <3> QED BY <1>2, <1>5, <1>6, <1>9, <3>1
  <2> QED BY <2>1, <2>2
<1> QED BY <1>2, <1>3, <1>6, <1>7, <1>8, <1>9 DEF InOrder, w, l

\* What objects list is live.
Lists(h) == \A a \in LiveOf(h) : /\ h[a].dirs \in Seq(LiveOf(h))
                                 /\ h[a].subs \in Seq(LiveOf(h))

\* Live objects keep their names.
SameNames(h, g) == \A a \in LiveOf(h) : g[a].name = h[a].name

\* An object that does not change, and whose block does not, stays right.
LEMMA RightKept ==
  ASSUME NEW h, NEW t, NEW a \in LiveOf(h), Right(h, t, a), Lists(h),
         NEW g, NEW u, SameNames(h, g), g[a] = h[a],
         h[a].kind = "block" => /\ In(u, "semicolon", h[a].name) = In(t, "semicolon", h[a].name)
                                /\ Closed(u, h[a].name) = Closed(t, h[a].name)
  PROVE  Right(g, u, a)
<1>1. /\ NamesOf(g, h[a].dirs) = NamesOf(h, h[a].dirs)
      /\ NamesOf(g, h[a].subs) = NamesOf(h, h[a].subs)
  BY NamesKept DEF Lists, SameNames
<1> QED BY <1>1 DEF Right

\* So does the statement an object is from.
LEMMA FromKept ==
  ASSUME NEW t, NEW k, NEW u, Longer(t, k, u), NEW h, NEW g, NEW a, From(h, t, a),
         g[a].kind = h[a].kind, g[a].name = h[a].name, g[a].args = h[a].args
  PROVE  From(g, u, a)
<1> DEFINE e == IF h[a].kind = "block" THEN "lbrace" ELSE "semicolon"
<1>1. PICK p \in Ends(t, e) : HeadOf(t, p) = h[a].name /\ ArgsOf(t, p) = h[a].args
  BY DEF From
<1>2. p \in Ends(u, e)
  BY EndsNext
<1>3. p \in 1..(Len(t) + 1)
  BY DEF Ends, Longer
<1>4. HeadOf(u, p) = HeadOf(t, p) /\ ArgsOf(u, p) = ArgsOf(t, p)
  BY <1>3, HeadKept
<1> QED BY <1>1, <1>2, <1>4 DEF From

\* And so do the first j frames, if their blocks stay open.
Alike(h, c, g, d, j) == \A m \in 1..j : d[m] = c[m] /\ g[c[m]].name = h[c[m]].name
LEMMA NestedKept ==
  ASSUME NEW t, NEW k, NEW u, Longer(t, k, u), NEW h, NEW c, Nested(h, t, c),
         NEW g, NEW d, NEW j \in Nat, Alike(h, c, g, d, j), j <= Len(c), Len(c) \in Nat,
         \A p \in Open(t, Len(t) + 1) : DepthAt(t, p) <= j - 1 => p \in Open(u, Len(t) + 2),
         NEW m \in 2..j
  PROVE  StandsFor(g, u, d, m)
<1>1. m \in 2..Len(c) /\ m \in 1..j /\ m - 1 \in 1..j /\ m - 1 <= j - 1
  OBVIOUS
<1>2. PICK p \in Open(t, Len(t) + 1) :
        /\ DepthAt(t, p) = m - 1 /\ HeadOf(t, p) = h[c[m]].name
        /\ BlockOf(t, p) = h[c[m - 1]].name
  BY <1>1 DEF Nested, StandsFor
<1>3. p \in Open(u, Len(t) + 2) /\ Len(u) + 1 = Len(t) + 2
  BY <1>1, <1>2 DEF Longer
<1>4. p \in 1..Len(t) /\ p \in 0..Len(t) /\ p \in 1..(Len(t) + 1)
  <2>1. Len(t) \in Nat /\ Len(t) + 1 - 1 = Len(t) /\ p \in 1..(Len(t) + 1 - 1)
    BY DEF Longer, Open
  <2> QED BY <2>1
<1>5. /\ DepthAt(u, p) = DepthAt(t, p) /\ HeadOf(u, p) = HeadOf(t, p)
      /\ BlockOf(u, p) = BlockOf(t, p)
  <2>1. DepthAt(u, p) = DepthAt(t, p)
    BY <1>4, DepthKept
  <2>2. HeadOf(u, p) = HeadOf(t, p)
    BY <1>4, HeadKept
  <2>3. BlockOf(u, p) = BlockOf(t, p)
    BY <1>4, OpenKept
  <2> QED BY <2>1, <2>2, <2>3
<1>6. g[d[m]].name = h[c[m]].name /\ g[d[m - 1]].name = h[c[m - 1]].name
  BY <1>1 DEF Alike
<1> QED BY <1>2, <1>3, <1>5, <1>6 DEF StandsFor

LEMMA LevelNext ==
  ASSUME NEW t, NEW k, NEW u, Longer(t, k, u), Level(t), DepthAt(u, Len(t) + 1) >= 0
  PROVE  Level(u)
<1>1. \A p \in 0..Len(u) : p \in 0..Len(t) \/ p = Len(t) + 1
  BY DEF Longer
<1>2. \A p \in 0..Len(t) : DepthAt(u, p) = DepthAt(t, p)
  BY DepthKept
<1> QED BY <1>1, <1>2 DEF Level

\* The number of statements.
LEMMA CountedNext ==
  ASSUME NEW t, NEW k, NEW u, Longer(t, k, u), NEW h, NEW g, Counted(h, t)
  PROVE  /\ k \notin {"semicolon", "lbrace"} /\ LiveOf(g) = LiveOf(h) => Counted(g, u)
         /\ \A d : k \in {"semicolon", "lbrace"} /\ d \notin LiveOf(h)
                   /\ LiveOf(g) = LiveOf(h) \cup {d} => Counted(g, u)
<1> DEFINE E == Ends(t, "semicolon") \cup Ends(t, "lbrace")
           F == Ends(u, "semicolon") \cup Ends(u, "lbrace")
<1>1. F = IF k \in {"semicolon", "lbrace"} THEN E \cup {Len(t) + 1} ELSE E
  <2>1. \A e : Ends(u, e) = IF k = e THEN Ends(t, e) \cup {Len(t) + 1} ELSE Ends(t, e)
    BY EndsNext
  <2> QED BY <2>1
<1>2. IsFiniteSet(E) /\ Cardinality(E) \in Nat /\ Len(t) + 1 \notin E
  <2>1. E \subseteq 1..Len(t) /\ Len(t) \in Nat
    BY DEF Ends, Longer
  <2>2. IsFiniteSet(1..Len(t))
    BY <2>1, FS_Interval
  <2> HIDE DEF E
  <2>3. IsFiniteSet(E)
    BY <2>1, <2>2, FS_Subset
  <2>4. Cardinality(E) \in Nat
    BY <2>3, FS_CardinalityType
  <2> QED BY <2>1, <2>3, <2>4
<1>3. IsFiniteSet(LiveOf(h)) /\ Cardinality(LiveOf(h)) = 1 + Cardinality(E)
  BY DEF Counted
<1> HIDE DEF E, F
<1>4. ASSUME k \notin {"semicolon", "lbrace"}, LiveOf(g) = LiveOf(h) PROVE Counted(g, u)
  BY <1>1, <1>3, <1>4 DEF Counted, E, F
<1>5. ASSUME NEW d, k \in {"semicolon", "lbrace"}, d \notin LiveOf(h),
             LiveOf(g) = LiveOf(h) \cup {d}
      PROVE  Counted(g, u)
  <2>1. IsFiniteSet(LiveOf(h) \cup {d}) /\ Cardinality(LiveOf(h) \cup {d}) = Cardinality(LiveOf(h)) + 1
    BY <1>3, <1>5, FS_AddElement
  <2>2. Cardinality(E \cup {Len(t) + 1}) = Cardinality(E) + 1
    BY <1>2, FS_AddElement
  <2>3. F = E \cup {Len(t) + 1}
    BY <1>1, <1>5
  <2>4. Cardinality(LiveOf(g)) = 1 + Cardinality(F)
    BY <1>2, <1>3, <1>5, <2>1, <2>2, <2>3
  <2> QED BY <1>5, <2>1, <2>4 DEF Counted, F
<1> QED BY <1>4, <1>5

\* The names after a separator.
LEMMA NamedNext ==
  ASSUME NEW t, NEW k \in Separators, NEW u, Longer(t, k, u), NEW h, NEW g, Named(h, t),
         SameNames(h, g)
  PROVE  /\ LiveOf(g) = LiveOf(h) => Named(g, u)
         /\ \A d : LiveOf(g) = LiveOf(h) \cup {d} /\ g[d].name = Front(t) => Named(g, u)
<1>1. Len(t) \in Nat /\ Front(t) \in 1..(Len(t) + 1) /\ Front(u) = Len(t) + 2
  BY FrontFacts, FrontNext DEF Longer
<1>2. \A a \in LiveOf(h) : g[a].name = h[a].name /\ h[a].name \in 0..(Front(t) - 1)
  BY DEF Named, SameNames
<1>3. \A a \in LiveOf(h) : g[a].name \in 0..(Front(u) - 1) /\ g[a].name # Front(t)
  BY <1>1, <1>2
<1>4. \A a, b \in LiveOf(h) : g[a].name = g[b].name => a = b
  BY <1>2 DEF Named
<1>5. ASSUME LiveOf(g) = LiveOf(h) PROVE Named(g, u)
  BY <1>3, <1>4, <1>5 DEF Named
<1>6. ASSUME NEW d, LiveOf(g) = LiveOf(h) \cup {d}, g[d].name = Front(t) PROVE Named(g, u)
  <2>1. g[d].name \in 0..(Front(u) - 1)
    BY <1>1, <1>6
  <2> QED BY <1>3, <1>4, <1>6, <2>1 DEF Named
<1> QED BY <1>5, <1>6

\* How deep a token leads.
LEMMA DepthNext ==
  ASSUME NEW t, NEW k, NEW u, Longer(t, k, u)
  PROVE  DepthAt(u, Len(t) + 1) = DepthAt(t, Len(t))
           + (IF k = "lbrace" THEN 1 ELSE IF k = "rbrace" THEN -1 ELSE 0)
<1> DEFINE n == Len(t)
<1>1. n + 1 \in Nat \ {0} /\ n + 1 - 1 = n /\ n \in 0..n /\ u[n + 1] = k /\ n \in Nat
  BY DEF Longer
<1>2. DepthAt(u, n) = DepthAt(t, n)
  BY <1>1, DepthKept
<1> HIDE DEF n
<1>3. DepthAt(u, n + 1) = DepthAt(u, n)
        + (IF u[n + 1] = "lbrace" THEN 1 ELSE IF u[n + 1] = "rbrace" THEN -1 ELSE 0)
  BY <1>1, DepthFacts
<1> QED BY <1>1, <1>2, <1>3 DEF n
-----------------------------------------------------------------------------
\* What each token makes of it.  A word changes nothing of the tree.
LEMMA BuiltWord ==
  ASSUME NEW t, NEW k, NEW u, Longer(t, k, u), k \notin Separators, NEW h, NEW c,
         Len(c) \in Nat, Built(h, t, c), Lists(h), DepthAt(u, Len(t) + 1) >= 0
  PROVE  Built(h, u, c)
<1>1. k # "semicolon" /\ k # "lbrace" /\ k # "rbrace" /\ "semicolon" \in Separators
  BY DEF Separators
<1>2. Front(u) = Front(t) /\ Open(u, Len(t) + 2) = Open(t, Len(t) + 1)
  BY <1>1, FrontNext, OpenNext
<1>3. Named(h, u)
  BY <1>2 DEF Built, Named
<1>4. Counted(h, u)
  BY <1>1, CountedNext DEF Built
<1>5. Origin(h, u, c)
  <2>1. \A a \in LiveOf(h) : From(h, t, a) => From(h, u, a)
    BY FromKept
  <2> QED BY <2>1 DEF Built, Origin
<1>6. Nested(h, u, c)
  <2>0. Alike(h, c, h, c, Len(c))
    BY DEF Alike
  <2>1. ASSUME NEW m \in 2..Len(c)
        PROVE  StandsFor(h, u, c, m)
    BY <1>2, <2>0, NestedKept DEF Built
  <2> QED BY <2>1 DEF Nested
<1>7. Level(u)
  BY LevelNext DEF Built
<1>8. ASSUME NEW a \in LiveOf(h) PROVE Right(h, u, a)
  <2>1. In(u, "semicolon", h[a].name) = In(t, "semicolon", h[a].name)
    BY <1>1, InNext
  <2>2. Closed(u, h[a].name) = Closed(t, h[a].name)
    BY <1>1, ClosedNext
  <2>3. Right(h, t, a) /\ SameNames(h, h)
    BY DEF Built, SameNames
  <2> QED BY <2>1, <2>2, <2>3, RightKept
<1> QED BY <1>3, <1>4, <1>5, <1>6, <1>7, <1>8 DEF Built

\* The objects of the heap after a step that makes d.
Made(h, g, d) == d \notin LiveOf(h) /\ LiveOf(g) = LiveOf(h) \cup {d}

\* A directive is new, and listed in the innermost block.
LEMMA BuiltStored ==
  ASSUME NEW t, NEW u, Longer(t, "semicolon", u), NEW h, NEW g, NEW c,
         Len(c) \in Nat \ {0}, \A m \in 1..Len(c) : c[m] \in LiveOf(h),
         Built(h, t, c), Lists(h), DepthAt(u, Len(t) + 1) >= 0,
         DepthAt(t, Len(t)) = Len(c) - 1,
         NEW d, Made(h, g, d), NEW b, b = c[Len(c)], h[b].kind = "block",
         g[d] = Fields("directive", Front(t), ArgsOf(t, Len(t) + 1), <<>>, <<>>),
         g[b] = Fields(h[b].kind, h[b].name, h[b].args, Append(h[b].dirs, d), h[b].subs),
         \A a \in LiveOf(h) \ {b} : g[a] = h[a]
  PROVE  Built(g, u, c)
<1>0. /\ Len(t) \in Nat /\ 1 \in 1..Len(c) /\ Len(c) \in 1..Len(c) /\ b \in LiveOf(h)
      /\ "semicolon" \in Separators /\ "lbrace" \in Separators
      /\ LiveOf(g) = LiveOf(h) \cup {d} /\ d \notin LiveOf(h)
  BY DEF Longer, Separators, Made
<1>1. /\ g[d].kind = "directive" /\ g[d].name = Front(t) /\ g[d].args = ArgsOf(t, Len(t) + 1)
      /\ g[d].dirs = <<>> /\ g[d].subs = <<>>
      /\ g[b].kind = h[b].kind /\ g[b].name = h[b].name /\ g[b].args = h[b].args
      /\ g[b].dirs = Append(h[b].dirs, d) /\ g[b].subs = h[b].subs
  <2>1. /\ g[d].kind = "directive" /\ g[d].name = Front(t) /\ g[d].args = ArgsOf(t, Len(t) + 1)
        /\ g[d].dirs = <<>> /\ g[d].subs = <<>>
    BY DEF Fields
  <2>2. /\ g[b].kind = h[b].kind /\ g[b].name = h[b].name /\ g[b].args = h[b].args
        /\ g[b].dirs = Append(h[b].dirs, d) /\ g[b].subs = h[b].subs
    BY DEF Fields
  <2> QED BY <2>1, <2>2
<1>2. /\ SameNames(h, g)
      /\ \A a \in LiveOf(h) : g[a].kind = h[a].kind /\ g[a].name = h[a].name /\ g[a].args = h[a].args
  BY <1>1 DEF SameNames
<1>3. Open(u, Len(t) + 2) = Open(t, Len(t) + 1)
  BY OpenNext
<1>4. /\ Named(h, t) /\ Counted(h, t) /\ Origin(h, t, c) /\ Nested(h, t, c) /\ Level(t)
      /\ \A a \in LiveOf(h) : Right(h, t, a)
  BY DEF Built
<1>5. BlockOf(t, Len(t) + 1) = h[b].name
  <2>1. h[c[1]].name = 0
    BY <1>4 DEF Origin
  <2> QED BY <1>0, <1>4, <2>1, Innermost
<1>6. Named(g, u)
  BY <1>0, <1>1, <1>2, <1>4, NamedNext
<1>7. Counted(g, u)
  BY <1>0, <1>4, CountedNext
<1>8. Origin(g, u, c)
  <2>1. \A a \in LiveOf(h) : From(h, t, a) => From(g, u, a)
    BY <1>2, FromKept
  <2>2. From(g, u, d)
    <3>1. Len(t) + 1 \in 1..(Len(t) + 1) /\ Len(t) + 1 \in Ends(u, "semicolon")
      BY <1>0, EndsNext
    <3>2. HeadOf(u, Len(t) + 1) = Front(t) /\ ArgsOf(u, Len(t) + 1) = ArgsOf(t, Len(t) + 1)
      BY <3>1, HeadKept DEF Front
    <3> QED BY <1>1, <3>1, <3>2 DEF From
  <2>3. c[1] \in LiveOf(h)
    BY <1>0
  <2> QED BY <1>0, <1>2, <1>4, <2>1, <2>2, <2>3 DEF Origin
<1>9. Nested(g, u, c)
  <2>1. ASSUME NEW m \in 2..Len(c)
        PROVE  StandsFor(g, u, c, m)
    <3>1. Alike(h, c, g, c, Len(c))
      BY <1>2 DEF Alike
    <3>2. Len(c) \in Nat /\ Len(c) <= Len(c)
      BY <1>0
    <3>3. \A p \in Open(t, Len(t) + 1) : DepthAt(t, p) <= Len(c) - 1 => p \in Open(u, Len(t) + 2)
      BY <1>3
    <3> QED BY <1>4, <3>1, <3>2, <3>3, NestedKept
  <2> QED BY <2>1 DEF Nested
<1>10. Level(u)
  BY <1>4, LevelNext
<1>11. \A name : Closed(u, name) = Closed(t, name)
  BY ClosedNext
<1>12. \A name : In(u, "semicolon", name) =
                   IF h[b].name = name THEN In(t, "semicolon", name) \cup {Front(t)}
                                       ELSE In(t, "semicolon", name)
  BY <1>5, InNext
<1>13. ASSUME NEW a \in LiveOf(h), a # b PROVE Right(g, u, a)
  <2>1. h[a].name # h[b].name
    BY <1>0, <1>4, <1>13 DEF Named
  <2>2. In(u, "semicolon", h[a].name) = In(t, "semicolon", h[a].name)
    BY <1>12, <2>1
  <2>3. g[a] = h[a]
    BY <1>13
  <2> QED BY <1>2, <1>4, <1>11, <2>2, <2>3, RightKept
<1>14. Right(g, u, b)
  <2> DEFINE S == In(t, "semicolon", h[b].name)
             x == Front(t) - 1
  <2>1. x \in Nat /\ x + 1 = Front(t) /\ S \in SUBSET (0..x)
    <3>1. Front(t) \in 1..(Len(t) + 1) /\ S \subseteq 1..(Front(t) - 1)
      BY <1>0, FrontFacts, InFacts
    <3> QED BY <1>0, <3>1
  <2>2. InOrder(NamesOf(h, h[b].dirs), S) /\ InOrder(NamesOf(h, h[b].subs), Closed(t, h[b].name))
    BY <1>0, <1>4 DEF Right
  <2>3. h[b].dirs \in Seq(LiveOf(h)) /\ h[b].subs \in Seq(LiveOf(h))
    BY <1>0 DEF Lists
  <2> HIDE DEF S, x
  <2>4. InOrder(NamesOf(g, Append(h[b].dirs, d)), S \cup {x + 1})
    <3>1. g[d].name = x + 1 /\ \A a \in LiveOf(h) : g[a].name = h[a].name
      BY <1>1, <1>2, <2>1
    <3> QED BY <2>1, <2>2, <2>3, <3>1, NamesAppended
  <2>5. NamesOf(g, h[b].subs) = NamesOf(h, h[b].subs)
    BY <1>2, <2>3, NamesKept DEF SameNames
  <2>6. In(u, "semicolon", h[b].name) = S \cup {x + 1}
    BY <1>12, <2>1 DEF S
  <2> QED BY <1>1, <1>11, <2>2, <2>4, <2>5, <2>6 DEF Right
<1>15. Right(g, u, d)
  BY <1>1, NoneInOrder DEF Right
<1>16. \A a \in LiveOf(g) : Right(g, u, a)
  BY <1>0, <1>13, <1>14, <1>15
<1> QED BY <1>6, <1>7, <1>8, <1>9, <1>10, <1>16 DEF Built

\* A block is new, and is the innermost from now on.
LEMMA BuiltOpened ==
  ASSUME NEW t, NEW u, Longer(t, "lbrace", u), NEW h, NEW g, NEW c,
         Len(c) \in Nat \ {0}, \A m \in 1..Len(c) : c[m] \in LiveOf(h),
         Built(h, t, c), Lists(h), DepthAt(u, Len(t) + 1) >= 0,
         DepthAt(t, Len(t)) = Len(c) - 1,
         NEW d, Made(h, g, d),
         g[d] = Fields("block", Front(t), ArgsOf(t, Len(t) + 1), <<>>, <<>>),
         \A a \in LiveOf(h) : g[a] = h[a],
         NEW e, Len(e) = Len(c) + 1, e[Len(c) + 1] = d, \A m \in 1..Len(c) : e[m] = c[m]
  PROVE  Built(g, u, e)
<1>0. /\ Len(t) \in Nat /\ 1 \in 1..Len(c) /\ Len(c) \in 1..Len(c)
      /\ "semicolon" \in Separators /\ "lbrace" \in Separators
      /\ LiveOf(g) = LiveOf(h) \cup {d} /\ d \notin LiveOf(h)
  BY DEF Longer, Separators, Made
<1>1. /\ g[d].kind = "block" /\ g[d].name = Front(t) /\ g[d].args = ArgsOf(t, Len(t) + 1)
      /\ g[d].dirs = <<>> /\ g[d].subs = <<>>
  BY FieldsFacts
<1>2. SameNames(h, g)
  BY DEF SameNames
<1>3. Open(u, Len(t) + 2) = Open(t, Len(t) + 1) \cup {Len(t) + 1}
  BY OpenNext
<1>4. /\ Named(h, t) /\ Counted(h, t) /\ Origin(h, t, c) /\ Nested(h, t, c) /\ Level(t)
      /\ \A a \in LiveOf(h) : Right(h, t, a)
  BY DEF Built
<1>5. BlockOf(t, Len(t) + 1) = h[c[Len(c)]].name
  <2>1. h[c[1]].name = 0
    BY <1>4 DEF Origin
  <2> QED BY <1>0, <1>4, <2>1, Innermost
<1>6. Named(g, u)
  BY <1>0, <1>1, <1>2, <1>4, NamedNext
<1>7. Counted(g, u)
  BY <1>0, <1>4, CountedNext
<1>8. /\ Len(t) + 1 \in Ends(u, "lbrace") /\ HeadOf(u, Len(t) + 1) = Front(t)
      /\ ArgsOf(u, Len(t) + 1) = ArgsOf(t, Len(t) + 1)
      /\ BlockOf(u, Len(t) + 1) = BlockOf(t, Len(t) + 1)
  <2>1. Len(t) + 1 \in 1..(Len(t) + 1) /\ Len(t) + 1 \in Ends(u, "lbrace")
    BY <1>0, EndsNext
  <2> QED BY <2>1, HeadKept, OpenKept DEF Front
<1>9. Origin(g, u, e)
  <2>1. \A a \in LiveOf(h) : From(h, t, a) => From(g, u, a)
    BY FromKept
  <2>2. From(g, u, d)
    BY <1>1, <1>8 DEF From
  <2>3. c[1] \in LiveOf(h) /\ e[1] = c[1]
    BY <1>0
  <2> QED BY <1>0, <1>4, <2>1, <2>2, <2>3 DEF Origin
<1>10. Nested(g, u, e)
  <2>1. ASSUME NEW m \in 2..Len(c)
        PROVE  StandsFor(g, u, e, m)
    <3>1. Alike(h, c, g, e, Len(c))
      BY <1>2 DEF Alike, SameNames
    <3>2. Len(c) \in Nat /\ Len(c) <= Len(c)
      BY <1>0
    <3>3. \A p \in Open(t, Len(t) + 1) : DepthAt(t, p) <= Len(c) - 1 => p \in Open(u, Len(t) + 2)
      BY <1>3
    <3> QED BY <1>4, <3>1, <3>2, <3>3, NestedKept
  <2>2. /\ DepthAt(u, Len(t) + 1) = Len(c) /\ HeadOf(u, Len(t) + 1) = g[e[Len(c) + 1]].name
        /\ BlockOf(u, Len(t) + 1) = g[e[Len(c)]].name
    <3>1. DepthAt(u, Len(t) + 1) = Len(c)
      <4>1. DepthAt(u, Len(t) + 1) = DepthAt(t, Len(t)) + 1
        BY DepthNext
      <4> QED BY <1>0, <4>1
    <3>3. g[e[Len(c)]].name = h[c[Len(c)]].name
      BY <1>0
    <3> QED BY <1>0, <1>1, <1>5, <1>8, <3>1, <3>3
  <2>3. Len(t) + 1 \in Open(u, Len(u) + 1)
    BY <1>3 DEF Longer
  <2>5. StandsFor(g, u, e, Len(c) + 1)
    <3>1. Len(c) + 1 - 1 = Len(c)
      BY <1>0
    <3> QED BY <2>2, <2>3, <3>1 DEF StandsFor
  <2>4. ASSUME NEW m \in 2..Len(e)
        PROVE  StandsFor(g, u, e, m)
    <3>1. m \in 2..Len(c) \/ (m = Len(c) + 1 /\ m - 1 = Len(c))
      BY <1>0
    <3> QED BY <2>1, <2>5, <3>1
  <2> QED BY <2>4 DEF Nested
<1>11. Level(u)
  BY <1>4, LevelNext
<1>12. /\ \A name : Closed(u, name) = Closed(t, name)
       /\ \A name : In(u, "semicolon", name) = In(t, "semicolon", name)
  BY ClosedNext, InNext
<1>13. ASSUME NEW a \in LiveOf(h) PROVE Right(g, u, a)
  BY <1>2, <1>4, <1>12, RightKept
<1>14. Right(g, u, d)
  <2>1. In(t, "semicolon", Front(t)) = {} /\ In(t, "lbrace", Front(t)) = {}
    BY <1>0, InFacts
  <2>2. Closed(t, Front(t)) = {}
    BY <2>1, ClosedFacts
  <2> QED BY <1>1, <1>12, <2>1, <2>2, NoneInOrder DEF Right
<1>15. \A a \in LiveOf(g) : Right(g, u, a)
  BY <1>0, <1>13, <1>14
<1> QED BY <1>6, <1>7, <1>9, <1>10, <1>11, <1>15 DEF Built

\* A block that is open around a place has a smaller name than what is there.
LEMMA Younger ==
  ASSUME NEW t, Len(t) \in Nat, NEW p \in Open(t, Len(t) + 1),
         NEW q \in Ends(t, "lbrace") \ Open(t, Len(t) + 1), BlockOf(t, q) = BlockOf(t, p)
  PROVE  HeadOf(t, q) \in 0..(HeadOf(t, p) - 1)
<1>1. /\ p \in 1..Len(t) /\ t[p] = "lbrace" /\ Len(t) + 1 - 1 = Len(t)
      /\ \A r \in p..Len(t) : DepthAt(t, r) >= DepthAt(t, p)
      /\ q \in 1..Len(t) /\ t[q] = "lbrace" /\ p # q
  <2>1. Len(t) + 1 - 1 = Len(t)
    OBVIOUS
  <2> QED BY <2>1 DEF Open, Ends
<1>2. /\ p \in Nat \ {0} /\ q \in Nat \ {0} /\ "lbrace" \in Separators
      /\ HeadOf(t, p) \in 1..p /\ HeadOf(t, q) \in 1..q
  BY <1>1, HeadFacts DEF Separators
<1>3. CASE q < p
  <2>1. q \in 1..(p - 1)
    BY <1>2, <1>3
  <2>2. q < HeadOf(t, p)
    BY <1>1, <1>2, <2>1, HeadFacts
  <2> QED BY <1>2, <2>2
<1>4. CASE p < q
  <2>1. p \in 1..(q - 1) /\ \A r \in p..(q - 1) : r \in p..Len(t)
    BY <1>1, <1>2, <1>4
  <2>2. p \in Open(t, q)
    BY <1>1, <2>1 DEF Open
  <2>3. HeadOf(t, p) <= BlockOf(t, q)
    BY <1>2, <2>2, BlockBefore
  <2>4. BlockOf(t, p) \in 0..(HeadOf(t, p) - 1)
    BY <1>2, BlockBefore
  <2> QED BY <1>2, <2>3, <2>4
<1> QED BY <1>1, <1>2, <1>3, <1>4

\* The innermost block is closed and listed in the one around it.
LEMMA BuiltClosed ==
  ASSUME NEW t, NEW u, Longer(t, "rbrace", u), NEW h, NEW g, NEW c,
         Len(c) \in Nat \ {0, 1}, \A m \in 1..Len(c) : c[m] \in LiveOf(h),
         Built(h, t, c), Lists(h), DepthAt(u, Len(t) + 1) >= 0,
         DepthAt(t, Len(t)) = Len(c) - 1,
         NEW s, s = c[Len(c)], NEW b, b = c[Len(c) - 1], h[b].kind = "block",
         LiveOf(g) = LiveOf(h),
         g[b] = Fields(h[b].kind, h[b].name, h[b].args, h[b].dirs, Append(h[b].subs, s)),
         \A a \in LiveOf(h) \ {b} : g[a] = h[a],
         NEW e, Len(e) = Len(c) - 1, \A m \in 1..(Len(c) - 1) : e[m] = c[m]
  PROVE  Built(g, u, e)
<1>0. /\ Len(t) \in Nat /\ 1 \in 1..(Len(c) - 1) /\ Len(c) \in 1..Len(c) /\ 1 \in 1..Len(c)
      /\ Len(c) - 1 \in 1..Len(c)
      /\ b \in LiveOf(h) /\ s \in LiveOf(h) /\ Len(c) - 1 \in Nat /\ Len(c) \in Nat \ {0}
      /\ Len(c) - 1 <= Len(c) /\ Len(c) # 1
      /\ \A m \in 1..(Len(c) - 1) : m \in 1..Len(c)
      /\ "semicolon" \in Separators /\ "rbrace" \in Separators
  <2>1. Len(t) \in Nat /\ "semicolon" \in Separators /\ "rbrace" \in Separators
    BY DEF Longer, Separators
  <2>2. \A n \in Nat \ {0, 1} : /\ 1 \in 1..(n - 1) /\ n \in 1..n /\ 1 \in 1..n /\ n - 1 \in 1..n
                               /\ n - 1 \in Nat /\ n \in Nat \ {0} /\ n - 1 <= n /\ n # 1
                               /\ \A m \in 1..(n - 1) : m \in 1..n
    OBVIOUS
  <2> QED BY <2>1, <2>2
<1>1. /\ g[b].kind = h[b].kind /\ g[b].name = h[b].name /\ g[b].args = h[b].args
      /\ g[b].dirs = h[b].dirs /\ g[b].subs = Append(h[b].subs, s)
  BY DEF Fields
<1>2. /\ SameNames(h, g)
      /\ \A a \in LiveOf(h) : g[a].kind = h[a].kind /\ g[a].name = h[a].name /\ g[a].args = h[a].args
  BY <1>1 DEF SameNames
<1>4. /\ Named(h, t) /\ Counted(h, t) /\ Origin(h, t, c) /\ Nested(h, t, c) /\ Level(t)
      /\ \A a \in LiveOf(h) : Right(h, t, a)
  BY DEF Built
<1>5. PICK p \in Open(t, Len(t) + 1) :
        /\ HeadOf(t, p) = h[s].name /\ BlockOf(t, p) = h[b].name
        /\ DepthAt(t, p) = Len(c) - 1
        /\ \A q \in Open(t, Len(t) + 1) : q <= p /\ (q # p => DepthAt(t, q) < Len(c) - 1)
  <2>1. h[c[1]].name = 0
    BY <1>4 DEF Origin
  <2> QED BY <1>0, <1>4, <2>1, Innermost
<1>3. Open(u, Len(t) + 2) = Open(t, Len(t) + 1) \ {p}
  <2>1. Open(u, Len(t) + 2) = {q \in Open(t, Len(t) + 1) : DepthAt(t, q) < DepthAt(t, Len(t))}
    BY OpenNext
  <2>2. ~(Len(c) - 1 < Len(c) - 1)
    BY <1>0
  <2> QED BY <1>5, <2>1, <2>2
<1>6. Named(g, u)
  BY <1>0, <1>2, <1>4, NamedNext
<1>7. Counted(g, u)
  BY <1>4, CountedNext
<1>8. Origin(g, u, e)
  <2>1. \A a \in LiveOf(h) : From(h, t, a) => From(g, u, a)
    BY <1>2, FromKept
  <2>2. c[1] \in LiveOf(h) /\ e[1] = c[1]
    BY <1>0
  <2> QED BY <1>2, <1>4, <2>1, <2>2 DEF Origin
<1>9. Nested(g, u, e)
  <2>1. ASSUME NEW m \in 2..Len(e)
        PROVE  StandsFor(g, u, e, m)
    <3>1. Alike(h, c, g, e, Len(e))
      BY <1>0, <1>2 DEF Alike
    <3>2. \A q \in Open(t, Len(t) + 1) : DepthAt(t, q) <= Len(e) - 1 => q \in Open(u, Len(t) + 2)
      <4>1. ~(Len(c) - 1 <= Len(c) - 1 - 1)
        BY <1>0
      <4> QED BY <1>3, <1>5, <4>1
    <3>3. Len(e) \in Nat /\ Len(e) <= Len(c) /\ Len(c) \in Nat
      BY <1>0
    <3> QED BY <1>4, <3>1, <3>2, <3>3, NestedKept
  <2> QED BY <2>1 DEF Nested
<1>10. Level(u)
  BY <1>4, LevelNext
<1>11. \A name : In(u, "semicolon", name) = In(t, "semicolon", name)
  BY InNext
<1>12. \A name : Closed(u, name) =
                   IF h[b].name = name THEN Closed(t, name) \cup {h[s].name} ELSE Closed(t, name)
  BY <1>3, <1>5, ClosedNext
<1>13. ASSUME NEW a \in LiveOf(h), a # b PROVE Right(g, u, a)
  <2>1. h[a].name # h[b].name
    BY <1>0, <1>4, <1>13 DEF Named
  <2>2. Closed(u, h[a].name) = Closed(t, h[a].name)
    BY <1>12, <2>1
  <2>3. g[a] = h[a]
    BY <1>13
  <2> QED BY <1>2, <1>4, <1>11, <2>2, <2>3, RightKept
<1>14. Right(g, u, b)
  <2> DEFINE S == Closed(t, h[b].name)
             x == h[s].name - 1
  <2>1. x \in Nat /\ x + 1 = h[s].name /\ S \in SUBSET (0..x)
    <3>1. HeadOf(t, p) \in 1..p /\ p \in Nat
      <4>1. p \in Nat \ {0}
        BY <1>0 DEF Open
      <4> QED BY <4>1, HeadFacts
    <3>2. ASSUME NEW y \in S PROVE y \in 0..(HeadOf(t, p) - 1)
      <4>1. PICK q \in Ends(t, "lbrace") \ Open(t, Len(t) + 1) :
              BlockOf(t, q) = h[b].name /\ y = HeadOf(t, q)
        BY DEF Closed
      <4> QED BY <1>0, <1>5, <4>1, Younger
    <3>3. x \in Nat /\ x + 1 = h[s].name /\ x = HeadOf(t, p) - 1
      BY <1>5, <3>1
    <3> QED BY <3>2, <3>3
  <2>2. InOrder(NamesOf(h, h[b].dirs), In(t, "semicolon", h[b].name)) /\ InOrder(NamesOf(h, h[b].subs), S)
    BY <1>0, <1>4 DEF Right
  <2>3. h[b].dirs \in Seq(LiveOf(h)) /\ h[b].subs \in Seq(LiveOf(h))
    BY <1>0 DEF Lists
  <2>4. g[s].name = x + 1
    BY <1>0, <1>2, <2>1
  <2> HIDE DEF S, x
  <2>5. InOrder(NamesOf(g, Append(h[b].subs, s)), S \cup {x + 1})
    BY <1>2, <2>1, <2>2, <2>3, <2>4, NamesAppended DEF SameNames
  <2>6. NamesOf(g, h[b].dirs) = NamesOf(h, h[b].dirs)
    BY <1>2, <2>3, NamesKept DEF SameNames
  <2>7. Closed(u, h[b].name) = S \cup {x + 1}
    BY <1>12, <2>1 DEF S
  <2> QED BY <1>1, <1>11, <2>2, <2>5, <2>6, <2>7 DEF Right
<1>15. \A a \in LiveOf(g) : Right(g, u, a)
  BY <1>13, <1>14
<1> QED BY <1>6, <1>7, <1>8, <1>9, <1>10, <1>15 DEF Built
-----------------------------------------------------------------------------
\* The statement under way, a token later.
LEMMA StatementNext ==
  ASSUME NEW t, NEW k, NEW u, Longer(t, k, u), NEW f, Statement(t, f), NEW g
  PROVE  /\ k \in Separators /\ g.head = 0 => Statement(u, g)
         /\ k \notin Separators /\ f.head = 0 /\ g.head = Len(t) + 1 /\ g.args = <<>>
              => Statement(u, g)
         /\ k \notin Separators /\ f.head # 0 /\ g.head = f.head
            /\ g.args = Append(f.args, IF k = "word" THEN Len(t) + 1 ELSE Null)
              => Statement(u, g)
<1>1. /\ Len(t) \in Nat /\ Len(u) + 1 = Len(t) + 2 /\ Len(t) + 1 # Len(t) + 2 /\ Len(t) + 1 # 0
      /\ Front(t) \in 1..(Len(t) + 1)
  BY FrontFacts DEF Longer
<1>2. Front(u) = IF k \in Separators THEN Len(t) + 2 ELSE Front(t)
  BY FrontNext
<1>3. CASE k \in Separators
  BY <1>1, <1>2, <1>3 DEF Statement
<1>4. CASE k \notin Separators
  <2>1. /\ Front(t) = Len(t) + 1 => ArgsOf(u, Len(t) + 2) = <<>>
        /\ Front(t) # Len(t) + 1 =>
             ArgsOf(u, Len(t) + 2)
               = Append(ArgsOf(t, Len(t) + 1), IF k = "word" THEN Len(t) + 1 ELSE Null)
    BY <1>4, ArgsNext DEF Front
  <2>2. Front(u) = Front(t) /\ Front(u) # Len(u) + 1 /\ Front(u) # 0
    BY <1>1, <1>2, <1>4
  <2>3. CASE f.head = 0 /\ g.head = Len(t) + 1 /\ g.args = <<>>
    BY <1>1, <2>1, <2>2, <2>3 DEF Statement
  <2>4. CASE /\ f.head # 0 /\ g.head = f.head
             /\ g.args = Append(f.args, IF k = "word" THEN Len(t) + 1 ELSE Null)
    BY <1>1, <2>1, <2>2, <2>4 DEF Statement
  <2> QED BY <1>4, <2>3, <2>4
<1> QED BY <1>3, <1>4

\* What TreeFaithful says of the heap h, the input u and the block r returned.
Faithful(h, u, r) ==
  /\ Cardinality(LiveOf(h)) = 1 + Cardinality(Ends(u, "semicolon") \cup Ends(u, "lbrace"))
  /\ h[r].kind = "block" /\ h[r].name = 0 /\ h[r].args = <<>>
  /\ \A a \in LiveOf(h) :
       /\ InOrder(NamesOf(h, h[a].dirs),
                  IF h[a].kind = "block" THEN In(u, "semicolon", h[a].name) ELSE {})
       /\ InOrder(NamesOf(h, h[a].subs),
                  IF h[a].kind = "block" THEN In(u, "lbrace", h[a].name) ELSE {})
       /\ a = r \/ From(h, u, a)

\* The end of the input closes what is built: every block has been closed.
LEMMA BuiltEnds ==
  ASSUME NEW t, NEW u, Longer(t, "eof", u), NEW h, NEW c, Len(c) = 1, Built(h, t, c),
         DepthAt(t, Len(t)) = 0
  PROVE  Faithful(h, u, c[1])
<1>1. /\ Named(h, t) /\ Counted(h, t) /\ Origin(h, t, c) /\ Nested(h, t, c) /\ Level(t)
      /\ \A a \in LiveOf(h) : Right(h, t, a)
  BY DEF Built
<1>2. Open(t, Len(t) + 1) = {}
  <2>1. Len(c) \in Nat \ {0} /\ DepthAt(t, Len(t)) = Len(c) - 1 /\ Len(t) \in Nat
    BY DEF Longer
  <2>2. h[c[1]].name = 0
    BY <1>1 DEF Origin
  <2> QED BY <1>1, <2>1, <2>2, Innermost
<1>3. \A name : Closed(t, name) = In(t, "lbrace", name)
  <2>1. Ends(t, "lbrace") \ Open(t, Len(t) + 1) = Ends(t, "lbrace")
    BY <1>2
  <2> QED BY <2>1 DEF Closed, In
<1>4. \A name : /\ In(u, "semicolon", name) = In(t, "semicolon", name)
                /\ In(u, "lbrace", name) = In(t, "lbrace", name)
  BY InNext
<1>5. Counted(h, u)
  BY <1>1, CountedNext
<1>6. \A a \in LiveOf(h) : a = c[1] \/ From(h, u, a)
  <2>1. \A a \in LiveOf(h) : From(h, t, a) => From(h, u, a)
    BY FromKept
  <2> QED BY <1>1, <2>1 DEF Origin
<1>7. \A a \in LiveOf(h) :
        /\ InOrder(NamesOf(h, h[a].dirs),
                   IF h[a].kind = "block" THEN In(u, "semicolon", h[a].name) ELSE {})
        /\ InOrder(NamesOf(h, h[a].subs),
                   IF h[a].kind = "block" THEN In(u, "lbrace", h[a].name) ELSE {})
  BY <1>1, <1>3, <1>4 DEF Right
<1>8. h[c[1]].kind = "block" /\ h[c[1]].name = 0 /\ h[c[1]].args = <<>>
  BY <1>1 DEF Origin
<1> QED BY <1>5, <1>6, <1>7, <1>8 DEF Faithful, Counted

\* What the parser has built so far.
Building == pc = "parsing" /\ broken = "no" =>
              Built(heap, toks, Chain) /\ Statement(toks, Top)

\* All that a step needs to know of the state it is taken in.
LEMMA BeforeStep ==
  ASSUME Parse, Typed, Accepting, Building, NEW k, Read(k)
  PROVE  /\ Longer(toks, k, toks') /\ Here = Len(toks) + 1
         /\ Len(Chain) \in Nat \ {0} /\ Len(Chain) = Len(stack)
         /\ \A m \in 1..Len(Chain) : Chain[m] \in LiveOf(heap) /\ Chain[m] = stack[m].block
         /\ Chain[Len(Chain)] = Top.block /\ heap[Top.block].kind = "block"
         /\ \A m \in 1..Len(stack) : heap[stack[m].block].kind = "block"
         /\ Lists(heap) /\ Built(heap, toks, Chain) /\ Statement(toks, Top)
         /\ DepthAt(toks, Len(toks)) = Len(Chain) - 1
<1>1. pc = "parsing" /\ broken = "no" /\ stack # <<>>
  BY TokenRead DEF Read
<1>2. /\ Len(stack) \in Nat \ {0} /\ Len(Chain) = Len(stack)
      /\ \A m \in 1..Len(stack) : Chain[m] = stack[m].block /\ stack[m].block \in LiveOf(heap)
      /\ Top.block = Chain[Len(stack)] /\ Len(stack) \in 1..Len(stack)
  BY <1>1, ChainFacts DEF Top
<1>3. \A m \in 1..Len(stack) : heap[stack[m].block].kind = "block"
  BY DEF Typed, TypedFrames
<1>4. Lists(heap)
  BY DEF Parse, Owned, Object, Lists
<1>5. Synced
  BY <1>1 DEF Accepting
<1>6. DepthAt(toks, Len(toks)) = Len(Chain) - 1
  BY <1>2, <1>5 DEF Synced, Depth
<1>7. Longer(toks, k, toks') /\ Here = Len(toks) + 1
  BY TokenRead
<1>8. Built(heap, toks, Chain) /\ Statement(toks, Top)
  BY <1>1 DEF Building
<1>9. heap[Top.block].kind = "block"
  BY <1>2, <1>3
<1> QED BY <1>2, <1>3, <1>4, <1>6, <1>7, <1>8, <1>9

\* The tokens that are taken never close more than was opened.
LEMMA StaysLevel ==
  ASSUME Parse, NEW k, Read(k), Inv', Accepting', pc' = pc, broken' = broken
  PROVE  DepthAt(toks', Len(toks) + 1) >= 0
<1>1. pc' = "parsing" /\ broken' = "no" /\ Len(toks') = Len(toks) + 1
  BY TokenRead DEF Read
<1>2. stack' # <<>> /\ stack' \in Seq(Frames)
  BY <1>1 DEF Inv, Parse, Phase, Sound
<1>3. Len(stack') - 1 >= 0
  BY <1>2
<1>4. Depth' = DepthAt(toks', Len(toks'))
  BY <1>1 DEF Accepting, Synced
<1> QED BY <1>1, <1>3, <1>4 DEF Depth

\* The frame at the top goes on with f: the blocks are the same.
LEMMA ChainTop ==
  ASSUME Parse, pc = "parsing", NEW f, NewTop(stack', stack, f), f.block = Top.block
  PROVE  Chain' = Chain /\ Top' = f
<1>1. /\ Len(stack') = Len(stack) /\ Len(stack) \in Nat \ {0} /\ stack'[Len(stack)] = f
      /\ \A m \in 1..(Len(stack) - 1) : stack'[m] = stack[m]
  BY DEF NewTop
<1>2. \A m \in 1..Len(stack) : stack'[m].block = stack[m].block
  BY <1>1 DEF Top
<1> QED BY <1>1, <1>2 DEF Chain, Top

LEMMA BuildingHead ==
  ASSUME Parse, Typed, Accepting, Building, ReadHead, Inv', Accepting'
  PROVE  Building'
<1>1. Read("word") /\ InContents /\ heap' = heap /\ pc' = pc /\ broken' = broken
  BY DEF ReadHead, tree
<1> DEFINE f == [block |-> Top.block, head |-> Here, args |-> <<>>]
<1>2. NewTop(stack', stack, f) /\ f.block = Top.block /\ f.head = Here /\ f.args = <<>>
  BY FramesHead
<1> HIDE DEF f
<1>3. Chain' = Chain /\ Top' = f
  BY <1>1, <1>2, ChainTop DEF Read
<1>4. /\ Longer(toks, "word", toks') /\ Here = Len(toks) + 1 /\ Len(Chain) \in Nat
      /\ Lists(heap) /\ Built(heap, toks, Chain) /\ Statement(toks, Top)
  BY <1>1, BeforeStep
<1>5. DepthAt(toks', Len(toks) + 1) >= 0
  BY <1>1, StaysLevel
<1>6. "word" \notin Separators
  BY DEF Separators
<1>7. Built(heap, toks', Chain)
  BY <1>4, <1>5, <1>6, BuiltWord
<1>8. Statement(toks', f)
  BY <1>1, <1>2, <1>4, <1>6, StatementNext DEF InContents
<1> QED BY <1>1, <1>3, <1>7, <1>8 DEF Building

LEMMA BuildingArg ==
  ASSUME Parse, Typed, Accepting, Building, NEW k, Adds(k), Inv', Accepting'
  PROVE  Building'
<1>1. /\ k \in {"word", "empty"} /\ Read(k) /\ InStatement
      /\ heap' = heap /\ pc' = pc /\ broken' = broken
  BY DEF Adds, tree
<1> DEFINE f == [block |-> Top.block, head |-> Top.head,
                 args |-> Append(Top.args, IF k = "word" THEN Here ELSE Null)]
<1>2. /\ NewTop(stack', stack, f) /\ f.block = Top.block /\ f.head = Top.head
      /\ f.args = Append(Top.args, IF k = "word" THEN Here ELSE Null)
  BY FramesArg
<1> HIDE DEF f
<1>3. Chain' = Chain /\ Top' = f
  BY <1>1, <1>2, ChainTop DEF Read
<1>4. /\ Longer(toks, k, toks') /\ Here = Len(toks) + 1 /\ Len(Chain) \in Nat
      /\ Lists(heap) /\ Built(heap, toks, Chain) /\ Statement(toks, Top)
  BY <1>1, BeforeStep
<1>5. DepthAt(toks', Len(toks) + 1) >= 0
  BY <1>1, StaysLevel
<1>6. k \notin Separators
  BY <1>1 DEF Separators
<1>7. Built(heap, toks', Chain)
  BY <1>4, <1>5, <1>6, BuiltWord
<1>8. Statement(toks', f)
  BY <1>1, <1>2, <1>4, <1>6, StatementNext DEF InStatement
<1> QED BY <1>1, <1>3, <1>7, <1>8 DEF Building

\* In a statement, its frame has its head and its arguments.
LEMMA TopHas ==
  ASSUME Statement(toks, Top), InStatement
  PROVE  Top.head = Front(toks) /\ Top.args = ArgsOf(toks, Len(toks) + 1)
BY DEF Statement, InStatement

LEMMA BuildingStored ==
  ASSUME Parse, Typed, Accepting, Building, Stores, Inv', Accepting'
  PROVE  Building'
<1> DEFINE b == Top.block
           d == Malloc
           f == Frame(b)
<1>1. Read("semicolon") /\ InStatement /\ pc' = pc /\ broken' = broken
  BY DEF Stores
<1>2. NewTop(stack', stack, f) /\ f.block = Top.block /\ f.head = 0
  BY FramesStored DEF Frame
<1>3. /\ d \in Addr \ LiveOf(heap) /\ b \in LiveOf(heap) /\ LiveOf(heap) \subseteq Addr
      /\ LiveOf(heap') = LiveOf(heap) \cup {d}
      /\ heap'[d] = Fields("directive", Top.head, Top.args, <<>>, <<>>)
      /\ heap'[b] = Fields(heap[b].kind, heap[b].name, heap[b].args,
                           Append(heap[b].dirs, d), heap[b].subs)
      /\ \A a \in Addr \ {b, d} : heap'[a] = heap[a]
  BY StoredHeap
<1>4. /\ Longer(toks, "semicolon", toks') /\ Len(Chain) \in Nat \ {0}
      /\ \A m \in 1..Len(Chain) : Chain[m] \in LiveOf(heap)
      /\ Chain[Len(Chain)] = b /\ heap[b].kind = "block"
      /\ Lists(heap) /\ Built(heap, toks, Chain) /\ Statement(toks, Top)
      /\ DepthAt(toks, Len(toks)) = Len(Chain) - 1
  BY <1>1, BeforeStep
<1> HIDE DEF b, d, f
<1>5. Chain' = Chain /\ Top' = f
  BY <1>1, <1>2, ChainTop DEF Read, b
<1>6. DepthAt(toks', Len(toks) + 1) >= 0
  BY <1>1, StaysLevel
<1>7. heap'[d] = Fields("directive", Front(toks), ArgsOf(toks, Len(toks) + 1), <<>>, <<>>)
  BY <1>1, <1>3, <1>4, TopHas
<1>8. Made(heap, heap', d) /\ \A a \in LiveOf(heap) \ {b} : heap'[a] = heap[a]
  BY <1>3 DEF Made
<1>9. Built(heap', toks', Chain)
  BY <1>3, <1>4, <1>6, <1>7, <1>8, BuiltStored
<1>10. Statement(toks', f)
  BY <1>2, <1>4, StatementNext DEF Separators
<1> QED BY <1>5, <1>9, <1>10 DEF Building

LEMMA BuildingOpened ==
  ASSUME Parse, Typed, Accepting, Building, Opens, Inv', Accepting'
  PROVE  Building'
<1> DEFINE d == Malloc
           f == Frame(d)
           n == Len(stack)
           e == Chain'
<1>1. Read("lbrace") /\ InStatement /\ pc' = pc /\ broken' = broken
  BY DEF Opens
<1>2. /\ Len(stack') = n + 1 /\ n \in Nat \ {0} /\ stack'[n + 1] = f
      /\ \A m \in 1..n : stack'[m] = stack[m]
      /\ f.block = d /\ f.head = 0
  BY FramesOpened DEF Frame
<1>3. /\ d \in Addr \ LiveOf(heap) /\ LiveOf(heap) \subseteq Addr
      /\ LiveOf(heap') = LiveOf(heap) \cup {d}
      /\ heap'[d] = Fields("block", Top.head, Top.args, <<>>, <<>>)
      /\ \A a \in Addr \ {d} : heap'[a] = heap[a]
  BY OpenedHeap
<1>4. /\ Longer(toks, "lbrace", toks') /\ Len(Chain) \in Nat \ {0} /\ Len(Chain) = n
      /\ \A m \in 1..Len(Chain) : Chain[m] \in LiveOf(heap) /\ Chain[m] = stack[m].block
      /\ Lists(heap) /\ Built(heap, toks, Chain) /\ Statement(toks, Top)
      /\ DepthAt(toks, Len(toks)) = Len(Chain) - 1
  BY <1>1, BeforeStep
<1>5. Len(e) = Len(stack') /\ \A m \in 1..Len(stack') : e[m] = stack'[m].block
  <2>1. Len(stack') \in Nat
    BY <1>2
  <2> QED BY <2>1 DEF Chain
<1>6. Top' = f
  BY <1>2 DEF Top
<1> HIDE DEF d, f, n, e
<1>7. Len(e) = Len(Chain) + 1 /\ e[Len(Chain) + 1] = d /\ \A m \in 1..Len(Chain) : e[m] = Chain[m]
  BY <1>2, <1>4, <1>5
<1>8. DepthAt(toks', Len(toks) + 1) >= 0
  BY <1>1, StaysLevel
<1>9. heap'[d] = Fields("block", Front(toks), ArgsOf(toks, Len(toks) + 1), <<>>, <<>>)
  BY <1>1, <1>3, <1>4, TopHas
<1>10. Made(heap, heap', d) /\ \A a \in LiveOf(heap) : heap'[a] = heap[a]
  BY <1>3 DEF Made
<1>11. \A m \in 1..Len(Chain) : Chain[m] \in LiveOf(heap)
  BY <1>4
<1>12. Built(heap', toks', e)
  BY <1>4, <1>7, <1>8, <1>9, <1>10, <1>11, BuiltOpened
<1>13. Statement(toks', f)
  BY <1>2, <1>4, StatementNext DEF Separators
<1> QED BY <1>6, <1>12, <1>13 DEF Building, e

LEMMA BuildingClosed ==
  ASSUME Parse, Typed, Accepting, Building, Closes, Inv', Accepting'
  PROVE  Building'
<1> DEFINE s == Top.block
           b == Parent
           f == Frame(b)
           n == Len(stack)
           e == Chain'
<1>1. Read("rbrace") /\ InContents /\ pc' = pc /\ broken' = broken
  BY DEF Closes
<1>2. /\ Len(stack') = n - 1 /\ n - 1 \in Nat \ {0} /\ n \in Nat \ {0, 1} /\ stack'[n - 1] = f
      /\ \A m \in 1..(n - 2) : stack'[m] = stack[m]
      /\ f.block = b /\ f.head = 0 /\ b = stack[n - 1].block
  <2>1. /\ Len(stack') = Depth /\ Depth \in Nat \ {0} /\ Depth = n - 1
        /\ stack'[Depth] = f /\ \A m \in 1..(Depth - 1) : stack'[m] = stack[m]
    BY FramesClosed
  <2>2. n \in Nat
    BY ChainFacts
  <2>3. \A x \in Nat : x - 1 \in Nat \ {0} => x \in Nat \ {0, 1} /\ x - 1 - 1 = x - 2
    OBVIOUS
  <2>4. n \in Nat \ {0, 1} /\ Depth - 1 = n - 2
    BY <2>1, <2>2, <2>3
  <2>5. f.block = b /\ f.head = 0
    BY DEF Frame
  <2>6. b = stack[n - 1].block
    BY <2>1 DEF Parent
  <2> HIDE DEF f, b
  <2> QED BY <2>1, <2>4, <2>5, <2>6
<1>3. /\ b \in LiveOf(heap) /\ s \in LiveOf(heap) /\ LiveOf(heap) \subseteq Addr
      /\ LiveOf(heap') = LiveOf(heap)
      /\ heap'[b] = Fields(heap[b].kind, heap[b].name, heap[b].args,
                           heap[b].dirs, Append(heap[b].subs, s))
      /\ \A a \in Addr \ {b} : heap'[a] = heap[a]
  BY ClosedHeap
<1>4. /\ Longer(toks, "rbrace", toks') /\ Len(Chain) \in Nat \ {0} /\ Len(Chain) = n
      /\ \A m \in 1..Len(Chain) : Chain[m] \in LiveOf(heap) /\ Chain[m] = stack[m].block
      /\ Chain[Len(Chain)] = s
      /\ \A m \in 1..n : heap[stack[m].block].kind = "block"
      /\ Lists(heap) /\ Built(heap, toks, Chain) /\ Statement(toks, Top)
      /\ DepthAt(toks, Len(toks)) = Len(Chain) - 1
  BY <1>1, BeforeStep
<1>5. Len(e) = Len(stack') /\ \A m \in 1..Len(stack') : e[m] = stack'[m].block
  <2>1. Len(stack') \in Nat
    BY <1>2
  <2> QED BY <2>1 DEF Chain
<1>6. Top' = f
  BY <1>2 DEF Top
<1> HIDE DEF s, b, f, n, e
<1>7. Len(e) = Len(Chain) - 1 /\ \A m \in 1..(Len(Chain) - 1) : e[m] = Chain[m]
  <2>1. ASSUME NEW m \in 1..(n - 1) PROVE e[m] = Chain[m]
    <3>1. m \in 1..n /\ (m \in 1..(n - 2) \/ m = n - 1)
      BY <1>2
    <3> QED BY <1>2, <1>4, <1>5, <3>1
  <2> QED BY <1>2, <1>4, <1>5, <2>1
<1>8. Len(Chain) \in Nat \ {0, 1} /\ b = Chain[Len(Chain) - 1] /\ heap[b].kind = "block"
  <2>1. n - 1 \in 1..n
    BY <1>2
  <2> QED BY <1>2, <1>4, <2>1
<1>9. DepthAt(toks', Len(toks) + 1) >= 0
  BY <1>1, StaysLevel
<1>10. \A a \in LiveOf(heap) \ {b} : heap'[a] = heap[a]
  BY <1>3
<1>11. \A m \in 1..Len(Chain) : Chain[m] \in LiveOf(heap)
  BY <1>4
<1>12. Built(heap', toks', e)
  BY <1>3, <1>4, <1>7, <1>8, <1>9, <1>10, <1>11, BuiltClosed
<1>13. Statement(toks', f)
  BY <1>2, <1>4, StatementNext DEF Separators
<1> QED BY <1>6, <1>12, <1>13 DEF Building, e

\* Before the first token there is the outermost block, with nothing in it.
LEMMA BuiltFirst ==
  ASSUME NEW t, t = <<>>, NEW h, NEW d, LiveOf(h) = {d}, NEW c, Len(c) = 1, c[1] = d,
         h[d] = Fields("block", 0, <<>>, <<>>, <<>>), NEW f, f.head = 0
  PROVE  Built(h, t, c) /\ Statement(t, f)
<1>1. /\ h[d].kind = "block" /\ h[d].name = 0 /\ h[d].args = <<>>
      /\ h[d].dirs = <<>> /\ h[d].subs = <<>>
  BY FieldsFacts
<1>2. Len(t) = 0 /\ Len(t) \in Nat
  OBVIOUS
<1>3. Front(t) = 1
  BY <1>2, FrontFacts
<1>4. \A e : Ends(t, e) = {}
  BY <1>2 DEF Ends
<1>5. /\ \A e, name : In(t, e, name) = {}
      /\ \A name : Closed(t, name) = {}
  BY <1>4 DEF In, Closed
<1>6. Named(h, t)
  BY <1>1, <1>3 DEF Named
<1>7. Counted(h, t)
  <2>1. Ends(t, "semicolon") \cup Ends(t, "lbrace") = {}
    BY <1>4
  <2>2. /\ IsFiniteSet({}) /\ Cardinality({}) = 0
        /\ IsFiniteSet({d}) /\ Cardinality({d}) = 1
    BY FS_EmptySet, FS_Singleton
  <2>3. IsFiniteSet(LiveOf(h)) /\ Cardinality(LiveOf(h)) = 1
    BY <2>2
  <2>4. Cardinality(Ends(t, "semicolon") \cup Ends(t, "lbrace")) = 0
    BY <2>1, <2>2
  <2> QED BY <2>3, <2>4 DEF Counted
<1>8. Origin(h, t, c)
  BY <1>1 DEF Origin
<1>9. Nested(h, t, c)
  BY DEF Nested
<1>10. Level(t)
  <2>1. \A p \in 0..Len(t) : p = 0
    BY <1>2
  <2> QED BY <2>1, DepthFacts DEF Level
<1>11. Right(h, t, d)
  <2>1. InOrder(NamesOf(h, h[d].dirs), {}) /\ InOrder(NamesOf(h, h[d].subs), {})
    BY <1>1, NoneInOrder
  <2> QED BY <1>5, <2>1 DEF Right
<1>12. Built(h, t, c)
  BY <1>6, <1>7, <1>8, <1>9, <1>10, <1>11 DEF Built
<1> QED BY <1>2, <1>3, <1>12 DEF Statement

LEMMA BuildingMain ==
  ASSUME Parse, Accepting, CreateMain
  PROVE  Building'
<1>1. /\ pc = "main" /\ stack = <<>> /\ zap = {} /\ result = Null /\ toks' = toks /\ toks = <<>>
  BY DEF CreateMain, Parse, Phase, Accepting
<1>2. CASE pc' = "done"
  BY <1>2 DEF Building
<1>3. CASE /\ heap' = [heap EXCEPT ![Malloc] = Block(0, <<>>)]
           /\ stack' = <<Frame(Malloc)>>
  <2> DEFINE d == Malloc
  <2>1. LiveOf(heap) = {}
    <3>1. Chain = <<>>
      BY <1>1 DEF Chain
    <3>2. Held = {}
      BY <1>1, <3>1 DEF Held, Elements
    <3> QED BY <3>2, NoneHeld DEF Parse
  <2>2. d \in Addr \ LiveOf(heap)
    <3>1. Unused # {}
      BY <2>1, DeserializeAssumption DEF Unused, Live, LiveOf
    <3> QED BY <3>1, MallocFacts
  <2>3. heap'[d] = Fields("block", 0, <<>>, <<>>, <<>>) /\ \A a \in Addr \ {d} : heap'[a] = heap[a]
    <3>1. heap = [a \in Addr |-> heap[a]]
      BY DEF Parse, Owned
    <3>2. Block(0, <<>>) = Fields("block", 0, <<>>, <<>>, <<>>)
      BY NewRecords
    <3> QED BY <1>3, <2>2, <3>1, <3>2
  <2>4. heap'[d].kind = "block"
    BY <2>3, FieldsFacts
  <2>5. /\ Len(stack') = 1 /\ stack'[1] = Frame(d) /\ Frame(d).block = d /\ Frame(d).head = 0
    BY <1>3 DEF Frame
  <2>6. Len(Chain') = 1 /\ Chain'[1] = d /\ Top' = Frame(d)
    BY <2>5 DEF Chain, Top
  <2> HIDE DEF d
  <2>7. LiveOf(heap') = {d}
    BY <2>1, <2>2, <2>3, <2>4 DEF LiveOf
  <2>8. Built(heap', toks', Chain') /\ Statement(toks', Top')
    BY <1>1, <2>3, <2>5, <2>6, <2>7, BuiltFirst
  <2> QED BY <2>8 DEF Building
<1> QED BY <1>2, <1>3 DEF CreateMain

LEMMA BuildingNext ==
  ASSUME Inv, Inv', Typed, Accepting, Accepting', Building, [Next]_vars
  PROVE  Building'
<1>1. CASE UNCHANGED vars
  BY <1>1 DEF vars, Building, Chain, Top
<1>2. CASE ~Parse
  BY <1>1, <1>2, CrashEnds
<1>3. CASE Parse /\ (Short \/ Late \/ Succeed \/ Refuse)
  <2>1. pc' # "parsing" \/ broken' # "no"
    BY <1>3 DEF Short, Late, Discards, Succeed, Refuse
  <2> QED BY <2>1 DEF Building
<1>4. CASE Parse /\ (Unwind \/ Free)
  <2>1. pc' # "parsing"
    BY <1>4 DEF Unwind, Free, FreeStep, Parse, Phase
  <2> QED BY <2>1 DEF Building
<1> QED BY <1>1, <1>2, <1>3, <1>4, StepCases, BuildingMain, BuildingHead, BuildingArg,
           BuildingStored, BuildingOpened, BuildingClosed

\* What is returned at the end of the input.
LEMMA FaithfulEnd ==
  ASSUME Parse, Typed, Accepting, Building, Succeed, Parse'
  PROVE  Faithful(heap, toks', result') /\ heap' = heap
<1>1. Read("eof") /\ Depth = 0 /\ result' = Top.block /\ heap' = heap
  BY DEF Succeed, tree
<1>2. /\ Longer(toks, "eof", toks') /\ Len(Chain) \in Nat \ {0} /\ Len(Chain) = Len(stack)
      /\ Chain[Len(Chain)] = Top.block /\ Built(heap, toks, Chain)
      /\ DepthAt(toks, Len(toks)) = Len(Chain) - 1
  BY <1>1, BeforeStep
<1>3. Len(Chain) = 1
  BY <1>1, <1>2 DEF Depth
<1>4. DepthAt(toks, Len(toks)) = 0
  BY <1>2, <1>3
<1>5. Faithful(heap, toks', Chain[1])
  BY <1>2, <1>3, <1>4, BuiltEnds
<1> QED BY <1>1, <1>2, <1>3, <1>5

\* That is what TreeFaithful says.
LEMMA FaithfulTree ==
  ASSUME Parse, result # Null, pc = "done", Faithful(heap, toks, result)
  PROVE  TreeFaithful
<1> DEFINE r == heap[result]
<1>1. result \in LiveOf(heap)
  BY DEF Parse, Owned, Held
<1>2. r = [kind |-> r.kind, name |-> r.name, args |-> r.args, dirs |-> r.dirs, subs |-> r.subs]
  BY <1>1 DEF Parse, Owned, Object
<1>3. r.kind = "block" /\ r.name = 0 /\ r.args = <<>>
  BY DEF Faithful
<1> HIDE DEF r
<1>4. r = [r EXCEPT !.kind = "block", !.name = 0, !.args = <<>>]
  <2> DEFINE r1 == [r EXCEPT !.kind = "block"]
             r2 == [r1 EXCEPT !.name = 0]
             r3 == [r2 EXCEPT !.args = <<>>]
  <2>1. r = Fields("block", 0, <<>>, r.dirs, r.subs)
    BY <1>2, <1>3 DEF Fields
  <2> DEFINE x == r.dirs
             y == r.subs
  <2>2. r = Fields("block", 0, <<>>, x, y)
    BY <2>1
  <2> HIDE DEF x, y
  <2>3. r1 = Fields("block", 0, <<>>, x, y)
    BY <2>2 DEF Fields
  <2>4. r2 = Fields("block", 0, <<>>, x, y)
    <3> HIDE DEF r1
    <3> QED BY <2>3 DEF Fields
  <2>5. r3 = Fields("block", 0, <<>>, x, y)
    <3> HIDE DEF r2
    <3> QED BY <2>4 DEF Fields
  <2> QED BY <2>2, <2>5, Zenon
<1>5. Live = LiveOf(heap) /\ \A list : NamesIn(list) = NamesOf(heap, list)
  BY DEF Live, LiveOf, NamesIn, NamesOf
<1>6. Cardinality(Live) = 1 + Cardinality(Ends(toks, "semicolon") \cup Ends(toks, "lbrace"))
  BY <1>5 DEF Faithful
<1>7. \A a \in Live :
        /\ InOrder(NamesIn(heap[a].dirs),
                   IF heap[a].kind = "block" THEN In(toks, "semicolon", heap[a].name) ELSE {})
        /\ InOrder(NamesIn(heap[a].subs),
                   IF heap[a].kind = "block" THEN In(toks, "lbrace", heap[a].name) ELSE {})
  BY <1>5 DEF Faithful
<1>8. \A a \in Live :
        a = result \/ \E p \in Ends(toks, IF heap[a].kind = "block" THEN "lbrace" ELSE "semicolon") :
                         HeadOf(toks, p) = heap[a].name /\ ArgsOf(toks, p) = heap[a].args
  BY <1>5 DEF Faithful, From
<1>9. heap[result] = [heap[result] EXCEPT !.kind = "block", !.name = 0, !.args = <<>>]
  BY <1>4 DEF r
<1> QED BY <1>6, <1>7, <1>8, <1>9 DEF TreeFaithful

\* After it has returned the parser does nothing.
Returned == pc = "done" /\ result # Null => Faithful(heap, toks, result)

LEMMA ReturnedNext ==
  ASSUME Inv, Inv', Typed, Accepting, Building, Returned, [Next]_vars
  PROVE  Returned'
<1>1. CASE UNCHANGED vars
  BY <1>1 DEF vars, Returned
<1>2. CASE ~Parse
  BY <1>1, <1>2, CrashEnds
<1>3. CASE Parse /\ Succeed
  <2>1. Parse'
    BY <1>3 DEF Succeed, Inv
  <2> QED BY <1>3, <2>1, FaithfulEnd DEF Returned
<1>4. CASE Parse /\ ~Succeed /\ ~UNCHANGED vars
  <2>1. result' = Null \/ pc' # "done"
    <3>1. CASE ReadHead \/ (\E k \in Kinds : Adds(k)) \/ Stores \/ Opens \/ Closes \/ Short
               \/ Late
      BY <3>1 DEF ReadHead, Adds, Stores, Opens, Closes, Short, Late, Discards, Read
    <3>2. CASE CreateMain \/ Refuse \/ Unwind \/ Free
      <4>1. result = Null
        BY <1>4, <3>2 DEF CreateMain, Refuse, Unwind, Free, FreeStep, Parse, Phase
      <4> QED BY <3>2, <4>1 DEF CreateMain, Refuse, Unwind, Free
    <3> QED BY <1>4, <3>1, <3>2, StepCases
  <2> QED BY <2>1 DEF Returned
<1> QED BY <1>1, <1>2, <1>3, <1>4

\* For any input, of any length and depth: the configuration returned has one
\* directive for each ';' and one block for each '{', each in the block around
\* it, in the order of the input, with the words that stood before it.
THEOREM TreeAlwaysFaithful == Spec => []TreeFaithful
<1>1. Init => Typed /\ Accepting /\ Building /\ Returned
  <2>1. Init => Typed
    BY TypedInit
  <2> QED BY <2>1 DEF Init, Accepting, AcceptsDocuments, Building, Returned
<1>2. Inv /\ Inv' /\ Typed /\ Accepting /\ Building /\ Returned /\ [Next]_vars
        => Typed' /\ Accepting' /\ Building' /\ Returned'
  BY TypedNext, AcceptingNext, BuildingNext, ReturnedNext
<1>3. Inv /\ Returned => TreeFaithful
  <2>1. Inv /\ pc = "done" => Parse
    BY DEF Inv
  <2> QED BY <2>1, FaithfulTree DEF Returned, TreeFaithful
<1> QED BY <1>1, <1>2, <1>3, InvInit, InvNext, PTL DEF Spec
=============================================================================
