-------------------------------- MODULE Lexer --------------------------------
(***************************************************************************)
(* lex_token of configfile_deserialize.c, called until it gives the end or *)
(* an error: one step per fgetc.  A character is a class of characters that*)
(* the code treats alike: "space" is all white space but the newline, "t"  *)
(* the letters t and r, which an escape turns into it.  The text of a token*)
(* is built in a buffer that grows by realloc.  A file is one of Files, or *)
(* the environment chooses its characters as they are read.                *)
(***************************************************************************)
EXTENDS Naturals, Sequences

CONSTANTS Ordinary,   \* characters without a meaning of their own, with "n"
                      \* and "t" those that an escape changes
          Files,      \* files that are given whole
          MaxChars,   \* bound: characters of a file the environment chooses
          FirstCap    \* the size of a new buffer, 32 in the code

Blanks   == {"space", "newline"}
Punct    == {"{", "}", ";"}
Quotes   == {"dquote", "squote"}
\* The byte 0 is read like any character but ends the text it stands in.
Zero     == "zero"
Chars    == Ordinary \cup Blanks \cup Punct \cup Quotes \cup {"#", "backslash", Zero}
EOF      == "eof"

ASSUME LexerAssumption ==
  /\ Ordinary \cap (Blanks \cup Punct \cup Quotes \cup {"#", "backslash", Zero, EOF}) = {}
  /\ Files \subseteq Seq(Chars)
  /\ MaxChars \in Nat
  /\ FirstCap \in Nat /\ FirstCap >= 2

VARIABLES read,    \* the characters of the file, as far as they are known
          pos,     \* how many of them fgetc has given, those pushed back not
          ended,   \* nothing follows read
          mode,    \* where lex_token is, "done" once it is not called again
          quote,   \* the quote that opened the token
          buf,     \* buffer[0..len-1]
          cap,     \* cap, 0 while buffer is NULL
          toks,    \* the tokens returned so far
          oom      \* ghost: a realloc failed, or an ungetc

text == <<quote, buf, cap>>
vars == <<read, pos, ended, mode, text, toks, oom>>

Init == /\ \/ read = <<>> /\ ended = FALSE
           \/ read \in Files /\ ended = TRUE
        /\ pos = 0 /\ mode = "skip" /\ quote = EOF /\ buf = <<>> /\ cap = 0
        /\ toks = <<>> /\ oom = FALSE

\* c is the next character: one pushed back or given, one the environment
\* chooses, or the end, which stays the end.
Fgetc(c) ==
  \/ /\ pos < Len(read) /\ c = read[pos + 1]
     /\ pos' = pos + 1 /\ UNCHANGED <<read, ended>>
  \/ /\ pos = Len(read) /\ ~ended /\ c # EOF /\ Len(read) < MaxChars
     /\ read' = Append(read, c) /\ pos' = pos + 1 /\ UNCHANGED ended
  \/ /\ pos = Len(read) /\ c = EOF
     /\ ended' = TRUE /\ UNCHANGED <<read, pos>>

\* fgetc and then ungetc: c is seen and read again by the next fgetc.
Peek(c) ==
  \/ /\ pos < Len(read) /\ c = read[pos + 1] /\ UNCHANGED <<read, pos, ended>>
  \/ /\ pos = Len(read) /\ ~ended /\ c # EOF /\ Len(read) < MaxChars
     /\ read' = Append(read, c) /\ UNCHANGED <<pos, ended>>

\* What the C string in the buffer says: it ends at its first zero byte.
CString(s) == LET z == {k \in 1..Len(s) : s[k] = Zero} IN
                IF z = {} THEN s
                ELSE SubSeq(s, 1, (CHOOSE k \in z : \A j \in z : k <= j) - 1)

Token(k, t) == [kind |-> k, text |-> t]

\* lex_token returns t, and the parser calls it again unless that is pointless.
Return(t) ==
  /\ toks' = Append(toks, t)
  /\ mode' = IF t.kind \in {"eof", "error"} THEN "done" ELSE "skip"
  /\ buf' = <<>> /\ cap' = 0 /\ quote' = EOF

\* The buffer becomes the token's text; a NULL one is an "empty" word.
ReturnWord ==
  Return(IF cap = 0 THEN Token("empty", <<>>) ELSE Token("word", CString(buf)))

\* free(buffer), and an error token.
Fail == Return(Token("error", <<>>))

\* Mutated Full: no room is kept for the terminating NUL.
FullWithoutNul == Len(buf) >= cap

\* The character and the NUL after it do not fit any more.
Full == Len(buf) + 1 >= cap

NewCap == IF cap = 0 THEN FirstCap ELSE cap * 2

\* Mutated buffer_append: a buffer that grows loses the character.
buffer_append_lossy(c, m) ==
  \/ /\ buf' = IF Full /\ cap > 0 THEN buf ELSE Append(buf, c)
     /\ cap' = IF Full THEN NewCap ELSE cap
     /\ mode' = m /\ UNCHANGED <<quote, toks, oom>>
  \/ /\ Full /\ oom' = TRUE /\ Fail

\* buffer_append, after which lex_token goes on in mode m.
buffer_append(c, m) ==
  \/ /\ buf' = Append(buf, c)
     /\ cap' = IF Full THEN NewCap ELSE cap
     /\ mode' = m /\ UNCHANGED <<quote, toks, oom>>
  \/ /\ Full /\ oom' = TRUE /\ Fail

\* skip_ws_and_comments, outside a comment.
Skip == /\ mode = "skip"
        /\ \E c \in Chars \cup {EOF} :
             \/ c \in Blanks /\ Fgetc(c) /\ UNCHANGED <<mode, text, toks>>
             \/ /\ c = "#" /\ Fgetc(c)
                /\ mode' = "comment" /\ UNCHANGED <<text, toks>>
             \/ c = EOF /\ Fgetc(c) /\ Return(Token("eof", <<>>))
             \/ /\ c \notin Blanks \cup {"#", EOF} /\ Peek(c)
                /\ mode' = "start" /\ UNCHANGED <<text, toks>>
        /\ UNCHANGED oom

\* Mutated Comment: the end of the file does not end a comment.
CommentToNewline ==
  /\ mode = "comment"
  /\ \E c \in Chars \cup {EOF} :
       /\ Fgetc(c)
       /\ mode' = IF c = "newline" THEN "skip" ELSE "comment"
  /\ UNCHANGED <<text, toks, oom>>

\* Its inner loop.
Comment ==
  /\ mode = "comment"
  /\ \E c \in Chars \cup {EOF} :
       /\ Fgetc(c)
       /\ mode' = IF c \in {"newline", EOF} THEN "skip" ELSE "comment"
  /\ UNCHANGED <<text, toks, oom>>

\* The first character of a token.
Start ==
  /\ mode = "start"
  /\ \E c \in Chars :
       /\ Fgetc(c)
       /\ \/ c \in Punct /\ Return(Token(c, <<>>)) /\ UNCHANGED oom
          \/ /\ c \in Quotes
             /\ quote' = c /\ mode' = "quoted" /\ UNCHANGED <<buf, cap, toks, oom>>
          \/ c \notin Punct \cup Quotes /\ buffer_append(c, "word")

\* What ends a word and is pushed back.
Special == Punct \cup Quotes \cup {"#"}

\* Mutated EndWord: the character that ends a word is always consumed.
EndWordConsuming == \E c \in Blanks \cup Special \cup {EOF} : Fgetc(c)

EndWord == \/ \E c \in Blanks \cup {EOF} : Fgetc(c)
           \/ \E c \in Special : Peek(c)

Word == /\ mode = "word"
        /\ \/ EndWord /\ ReturnWord /\ UNCHANGED oom
           \/ \E c \in Chars \ (Blanks \cup Special) :
                Fgetc(c) /\ buffer_append(c, "word")

Quoted ==
  /\ mode = "quoted"
  /\ \E c \in Chars \cup {EOF} :
       /\ Fgetc(c)
       /\ \/ c = EOF /\ Fail /\ UNCHANGED oom
          \/ c = quote /\ ReturnWord /\ UNCHANGED oom
          \/ c = "backslash" /\ mode' = "escape" /\ UNCHANGED <<text, toks, oom>>
          \/ /\ c \notin {EOF, quote, "backslash"}
             /\ buffer_append(c, "quoted")

Unescaped(c) == CASE c = "n" -> "newline" [] c = "t" -> "space" [] OTHER -> c

\* Mutated Escape: the end of the file is stored like a character.
EscapeUnchecked ==
  /\ mode = "escape"
  /\ \E c \in Chars \cup {EOF} : Fgetc(c) /\ buffer_append(Unescaped(c), "quoted")

\* The character after a backslash.
Escape ==
  /\ mode = "escape"
  /\ \E c \in Chars \cup {EOF} :
       /\ Fgetc(c)
       /\ \/ c = EOF /\ Fail /\ UNCHANGED oom
          \/ c # EOF /\ buffer_append(Unescaped(c), "quoted")

\* ungetc refuses the character that begins a token or ends a word: it is lost,
\* and so is the word.
PushBackFails ==
  /\ \/ mode = "skip" /\ \E c \in Chars \ (Blanks \cup {"#"}) : Fgetc(c)
     \/ mode = "word" /\ \E c \in Special : Fgetc(c)
  /\ oom' = TRUE /\ Fail

Next == Skip \/ Comment \/ Start \/ Word \/ Quoted \/ Escape \/ PushBackFails

\* The program reads on until it has the end or an error.
Spec == Init /\ [][Next]_vars /\ WF_vars(Next)
-----------------------------------------------------------------------------
Kinds  == {"word", "empty", "error", EOF} \cup Punct
Tokens == [kind : Kinds, text : Seq(Chars)]

TypeOK ==
  /\ read \in Seq(Chars) /\ pos \in 0..Len(read) /\ ended \in BOOLEAN
  /\ mode \in {"skip", "comment", "start", "word", "quoted", "escape", "done"}
  /\ quote \in Quotes \cup {EOF}
  /\ buf \in Seq(Chars) /\ cap \in Nat
  /\ toks \in Seq(Tokens) /\ oom \in BOOLEAN

\* The text and its terminating NUL fit in the buffer, and the buffer is at
\* most twice as large: no write goes past the end, no growth runs away.
BufferFits == cap > 0 => /\ Len(buf) < cap
                         /\ cap = FirstCap \/ cap <= 2 * Len(buf)

\* A word is the piece of the file that ends where the lexer is: what is read
\* and pushed back is neither lost nor read twice, and nothing special is in it.
WordVerbatim ==
  mode = "word" =>
    /\ Len(buf) \in 1..pos
    /\ \A k \in 1..Len(buf) : /\ buf[k] = read[pos - Len(buf) + k]
                              /\ buf[k] \notin Blanks \cup Special

\* The lexer comes to the end of its file or to an error.
Returns == <>(mode = "done")
=============================================================================
