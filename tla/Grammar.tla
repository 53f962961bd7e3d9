------------------------------- MODULE Grammar -------------------------------
(***************************************************************************)
(* The lexical grammar of a configuration: a text is cut into blanks,      *)
(* comments, punctuation, words and quoted words, each as long as it can   *)
(* be.  What Lexer returns is compared with the tokens of the pieces.      *)
(***************************************************************************)
EXTENDS Lexer, SequencesExt

\* The characters after the quote s[i] that a backslash before them escapes.
Escaped(s, i) ==
  LET e[k \in i..Len(s)] == k > i + 1 /\ s[k - 1] = "backslash" /\ ~e[k - 1]
  IN {k \in i..Len(s) : e[k]}

\* The piece of s from i to j is a comment, a word, a quoted word.
IsComment(s, i, j) == s[i] = "#" /\ \A k \in i..j : s[k] # "newline"
IsWord(s, i, j)    == \A k \in i..j : s[k] \notin Blanks \cup Special
IsQuoted(s, i, j)  == /\ s[i] \in Quotes
                      /\ {k \in (i + 1)..j : s[k] = s[i]} \ Escaped(s, i) = {j}
IsLexeme(s, i, j)  == \/ i = j /\ s[i] \in Blanks \cup Punct
                      \/ IsComment(s, i, j) \/ IsWord(s, i, j) \/ IsQuoted(s, i, j)

\* What the characters from the quote s[i] to s[k] say, for each k: without the
\* quote and the backslashes that escape.
Unquoted(s, i) ==
  LET u[k \in i..Len(s)] ==
        IF k = i THEN <<>>
        ELSE IF k \in Escaped(s, i) THEN Append(u[k - 1], Unescaped(s[k]))
        ELSE IF s[k] = "backslash" THEN u[k - 1]
        ELSE Append(u[k - 1], s[k])
  IN u

TokenOf(s, i, j) ==
  CASE s[i] \in Blanks \cup {"#"} -> <<>>
    [] s[i] \in Punct             -> <<Token(s[i], <<>>)>>
    [] s[i] \in Quotes            -> <<IF j = i + 1 THEN Token("empty", <<>>)
                                      ELSE Token("word", CString(Unquoted(s, i)[j - 1]))>>
    [] OTHER                      -> <<Token("word", CString(SubSeq(s, i, j)))>>

\* Where a lexeme that begins at k may end, and where the longest does.
EndsOf(s, k) == {j \in k..Len(s) : IsLexeme(s, k, j)}
Longest(s, k) == CHOOSE j \in EndsOf(s, k) : \A x \in EndsOf(s, k) : x <= j

\* The tokens of s from each place on, up to what cannot be cut.
TokensFrom(s) ==
  LET from[k \in 1..(Len(s) + 1)] ==
        IF k > Len(s) THEN <<Token("eof", <<>>)>>
        ELSE IF EndsOf(s, k) = {} THEN <<Token("error", <<>>)>>
        ELSE TokenOf(s, k, Longest(s, k)) \o from[Longest(s, k) + 1]
  IN from

TokensOf(s) == TokensFrom(s)[1]
-----------------------------------------------------------------------------
\* lex_token cuts every file as the grammar says: each token it returned is
\* the one that is due, and it stops without an error only at the end.  After
\* a failed allocation or push-back what it returned before is a beginning.
LexesGrammar ==
  mode = "done" =>
    IF oom THEN IsPrefix(Front(toks), TokensOf(read)) ELSE toks = TokensOf(read)
=============================================================================
