--------------------------------- MODULE Text ---------------------------------
(***************************************************************************)
(* What Lexer makes of the text that Serialize wrote, compared with the    *)
(* tree it was written for.                                                *)
(***************************************************************************)
EXTENDS Grammar, Serialize

CONSTANTS Trees     \* the trees whose text is read back

Written == [t \in Trees |-> config_serialize(t)]
WrittenFiles == {Written[t] : t \in Trees}
-----------------------------------------------------------------------------
(* The tokens that say what a tree holds.                                  *)

WordOf(t)   == IF t = NullText THEN Token("empty", <<>>) ELSE Token("word", t)
WordsOf(ts) == [k \in 1..Len(ts) |-> WordOf(ts[k])]

RECURSIVE Statements(_)
Statements(b) ==
  FlattenSeq([k \in 1..Len(b.dirs) |->
                WordsOf(<<b.dirs[k].name>> \o b.dirs[k].args) \o <<Token(";", <<>>)>>])
  \o FlattenSeq([k \in 1..Len(b.subs) |->
                WordsOf(<<b.subs[k].name>> \o b.subs[k].args) \o <<Token("{", <<>>)>>
                \o Statements(b.subs[k]) \o <<Token("}", <<>>)>>])

TreeTokens(b) == Statements(b) \o <<Token("eof", <<>>)>>

\* A text that needs no quotes.
PlainText(t) == t # NullText /\ t # <<>> /\ IsWord(t, 1, Len(t))

PlainTexts(o) == \A k \in 1..Len(o.args) : PlainText(o.args[k])

\* A tree that can be written without quotes, with no block named main in it.
RECURSIVE Plain(_)
Plain(b) ==
  /\ \A k \in 1..Len(b.dirs) : PlainText(b.dirs[k].name) /\ PlainTexts(b.dirs[k])
  /\ \A k \in 1..Len(b.subs) : /\ PlainText(b.subs[k].name) /\ b.subs[k].name # Main
                               /\ PlainTexts(b.subs[k]) /\ Plain(b.subs[k])
-----------------------------------------------------------------------------
\* What config_serialize writes reads back as the tree it was written for,
\* if and only if the tree is plain: no text needs quotes, no argument is
\* NULL or empty, and no block in it is named main.
RoundTrip ==
  mode = "done" /\ ~oom /\ read \in WrittenFiles =>
      \A t \in Trees : read = Written[t] => (toks = TreeTokens(t) <=> Plain(t))
=============================================================================
