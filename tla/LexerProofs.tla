----------------------------- MODULE LexerProofs -----------------------------
(***************************************************************************)
(* What lex_token and its buffer do for every alphabet, every file, every  *)
(* bound and every first size of the buffer; in the end, that the tokens   *)
(* of every file are those of its lexical grammar.                         *)
(***************************************************************************)
EXTENDS Grammar, Induction, SequenceTheorems

\* What is known of the buffer: while there is none it is empty.
BufferInv == /\ cap = 0 => buf = <<>>
             /\ BufferFits

Reading == read \in Seq(Chars) /\ pos \in 0..Len(read) /\ ended \in BOOLEAN
Building == /\ quote \in Quotes \cup {EOF} /\ buf \in Seq(Chars) /\ cap \in Nat
            /\ toks \in Seq(Tokens) /\ oom \in BOOLEAN
Modes == {"skip", "comment", "start", "word", "quoted", "escape", "done"}

\* The end of the file is no character.
LEMMA EOFNotChar == EOF \notin Chars
BY LexerAssumption DEF EOF, Chars, Blanks, Punct, Quotes, Zero

\* fgetc leaves a known file and a place in it.
LEMMA FgetcTyped ==
  ASSUME Reading, NEW c \in Chars \cup {EOF}, Fgetc(c)
  PROVE  Reading'
<1>1. CASE pos < Len(read) /\ c = read[pos + 1] /\ pos' = pos + 1 /\ UNCHANGED <<read, ended>>
  BY <1>1 DEF Reading
<1>2. CASE /\ c # EOF /\ pos = Len(read)
           /\ read' = Append(read, c) /\ pos' = pos + 1 /\ UNCHANGED ended
  BY <1>2 DEF Reading
<1>3. CASE pos = Len(read) /\ c = EOF /\ ended' = TRUE /\ UNCHANGED <<read, pos>>
  BY <1>3 DEF Reading
<1> QED BY <1>1, <1>2, <1>3 DEF Fgetc

\* So does looking at a character.
LEMMA PeekTyped ==
  ASSUME Reading, NEW c \in Chars, Peek(c)
  PROVE  Reading'
<1>1. CASE UNCHANGED <<read, pos, ended>>
  BY <1>1 DEF Reading
<1>2. CASE read' = Append(read, c) /\ UNCHANGED <<pos, ended>>
  BY <1>2 DEF Reading
<1> QED BY <1>1, <1>2 DEF Peek

\* A C string is a piece of its buffer.
LEMMA CStringTyped ==
  ASSUME NEW s \in Seq(Chars)
  PROVE  CString(s) \in Seq(Chars)
<1> DEFINE z == {k \in 1..Len(s) : s[k] = Zero}
           first == CHOOSE k \in z : \A j \in z : k <= j
<1>1. CASE z = {}
  BY <1>1 DEF CString
<1>2. CASE z # {}
  <2>1. PICK k \in z : \A j \in z : k <= j
    <3>1. z \subseteq Nat /\ z # {}
      BY <1>2
    <3> HIDE DEF z
    <3>2. PICK k \in z : \A j \in z : ~(<<j, k>> \in OpToRel(<, Nat))
      BY <3>1, NatLessThanWellFounded, WFMin
    <3>3. \A j \in z : k <= j
      <4>1. SUFFICES ASSUME NEW j \in z, j < k PROVE FALSE
        BY <3>1
      <4>2. <<j, k>> \in {ss \in Nat \X Nat : ss[1] < ss[2]}
        BY <3>1, <4>1
      <4>3. OpToRel(<, Nat) = {ss \in Nat \X Nat : ss[1] < ss[2]}
        BY Zenon DEF OpToRel
      <4> QED BY <3>2, <4>2, <4>3, Zenon
    <3> QED BY <3>3
  <2>2. first \in 1..Len(s)
    BY <2>1
  <2>3. SubSeq(s, 1, first - 1) \in Seq(Chars)
    <3> HIDE DEF first
    <3> QED BY <2>2
  <2> QED BY <1>2, <2>3 DEF CString
<1> QED BY <1>1, <1>2

\* What a step makes of the token under construction: its types, and a
\* buffer in which the text fits.
Built == Building /\ BufferInv

\* Returning a token leaves no buffer.
LEMMA ReturnBuilt ==
  ASSUME Built, NEW t \in Tokens, Return(t), oom' \in BOOLEAN
  PROVE  Built' /\ mode' \in {"skip", "done"}
<1>1. /\ buf' = <<>> /\ cap' = 0 /\ quote' = EOF
      /\ toks' = Append(toks, t) /\ mode' \in {"skip", "done"}
  BY DEF Return
<1>2. toks' \in Seq(Tokens)
  BY <1>1 DEF Built, Building
<1>3. Building'
  BY <1>1, <1>2 DEF Building
<1>4. BufferInv'
  BY <1>1 DEF BufferInv, BufferFits
<1> QED BY <1>1, <1>3, <1>4 DEF Built

\* What is built stays so if nothing of it changes.
LEMMA BuiltKept ==
  ASSUME Built, UNCHANGED <<buf, cap, toks>>, quote' \in Quotes \cup {EOF},
         oom' \in BOOLEAN
  PROVE  Built'
BY DEF Built, Building, BufferInv, BufferFits

LEMMA ErrorToken == Token("error", <<>>) \in Tokens /\ Token("eof", <<>>) \in Tokens
                    /\ \A c \in Punct : Token(c, <<>>) \in Tokens
BY DEF Token, Tokens, Kinds, EOF

\* A word is a token whatever the buffer holds.
LEMMA WordToken ==
  ASSUME Built
  PROVE  (IF cap = 0 THEN Token("empty", <<>>) ELSE Token("word", CString(buf))) \in Tokens
<1>1. CString(buf) \in Seq(Chars)
  BY CStringTyped DEF Built, Building
<1> QED BY <1>1 DEF Token, Tokens, Kinds

\* Appending keeps the text and its NUL within the buffer.
LEMMA AppendBuilt ==
  ASSUME Built, NEW c \in Chars, NEW m \in Modes, buffer_append(c, m)
  PROVE  Built' /\ mode' \in Modes
<1>1. CASE /\ buf' = Append(buf, c) /\ cap' = IF Full THEN NewCap ELSE cap
           /\ mode' = m /\ UNCHANGED <<quote, toks, oom>>
  <2>1. buf' \in Seq(Chars) /\ Len(buf') = Len(buf) + 1 /\ Len(buf) \in Nat
    BY <1>1 DEF Built, Building
  <2>2. cap \in Nat /\ FirstCap \in Nat /\ FirstCap >= 2
    BY LexerAssumption DEF Built, Building
  <2>3. CASE cap = 0
    <3>1. Len(buf) = 0 /\ cap' = FirstCap
      BY <1>1, <2>2, <2>3 DEF Built, BufferInv, Full, NewCap
    <3>2. BufferInv'
      BY <2>1, <2>2, <3>1 DEF BufferInv, BufferFits
    <3>3. Building'
      BY <1>1, <2>1, <2>2, <3>1 DEF Built, Building
    <3> QED BY <1>1, <3>2, <3>3 DEF Built
  <2>4. CASE cap # 0
    <3>1. Len(buf) < cap /\ (cap = FirstCap \/ cap <= 2 * Len(buf))
      BY <2>2, <2>4 DEF Built, BufferInv, BufferFits
    <3>2. CASE Full
      <4>1. cap' = 2 * cap /\ cap <= Len(buf) + 1
        BY <1>1, <2>2, <2>4, <3>2 DEF Full, NewCap
      <4>2. cap' \in Nat /\ cap' > 0 /\ Len(buf') < cap' /\ cap' <= 2 * Len(buf')
        BY <2>1, <2>2, <2>4, <3>1, <4>1
      <4>3. BufferInv' /\ Building'
        BY <1>1, <2>1, <4>2 DEF Built, Building, BufferInv, BufferFits
      <4> QED BY <1>1, <4>3 DEF Built
    <3>3. CASE ~Full
      <4>1. cap' = cap /\ cap > Len(buf) + 1
        BY <1>1, <2>1, <2>2, <3>3 DEF Full
      <4>2. cap' \in Nat /\ cap' > 0 /\ Len(buf') < cap'
            /\ (cap' = FirstCap \/ cap' <= 2 * Len(buf'))
        BY <2>1, <2>2, <3>1, <4>1
      <4>3. BufferInv' /\ Building'
        BY <1>1, <2>1, <4>2 DEF Built, Building, BufferInv, BufferFits
      <4> QED BY <1>1, <4>3 DEF Built
    <3> QED BY <3>2, <3>3
  <2> QED BY <2>3, <2>4
<1>2. CASE Full /\ oom' = TRUE /\ Fail
  BY <1>2, ReturnBuilt, ErrorToken DEF Fail, Modes
<1> QED BY <1>1, <1>2 DEF buffer_append

Inv == Reading /\ mode \in Modes /\ Built

LEMMA InitInv == Init => Inv
<1> SUFFICES ASSUME Init PROVE Inv
  OBVIOUS
<1>1. read \in Seq(Chars)
  <2>1. CASE read = <<>>
    BY <2>1
  <2>2. CASE read \in Files
    BY <2>2, LexerAssumption DEF LexerAssumption
  <2> QED BY <2>1, <2>2 DEF Init
<1>2. ended \in BOOLEAN /\ oom \in BOOLEAN
  BY Zenon DEF Init
<1>3. Reading /\ Building
  BY <1>1, <1>2 DEF Init, Reading, Building
<1>4. BufferInv
  BY DEF Init, BufferInv, BufferFits
<1> QED BY <1>3, <1>4 DEF Init, Inv, Modes, Built

LEMMA StepInv == Inv /\ [Next]_vars => Inv'
<1> SUFFICES ASSUME Inv, [Next]_vars PROVE Inv'
  OBVIOUS
<1>0. Reading /\ mode \in Modes /\ Built /\ oom \in BOOLEAN /\ quote \in Quotes \cup {EOF}
  BY DEF Inv, Built, Building
<1>a. \A c \in Chars \cup {EOF} : Fgetc(c) => Reading'
  BY <1>0, FgetcTyped
<1>b. \A c \in Chars : Peek(c) => Reading'
  BY <1>0, PeekTyped
<1>1. CASE Skip
  <2>1. PICK c \in Chars \cup {EOF} :
          \/ c \in Blanks /\ Fgetc(c) /\ UNCHANGED <<mode, text, toks>>
          \/ c = "#" /\ Fgetc(c) /\ mode' = "comment" /\ UNCHANGED <<text, toks>>
          \/ c = EOF /\ Fgetc(c) /\ Return(Token("eof", <<>>))
          \/ /\ c \notin Blanks \cup {"#", EOF} /\ Peek(c)
             /\ mode' = "start" /\ UNCHANGED <<text, toks>>
    BY <1>1 DEF Skip
  <2>2. Reading'
    BY <1>a, <1>b, <2>1
  <2>3. oom' = oom
    BY <1>1 DEF Skip
  <2>4. CASE c = EOF /\ Return(Token("eof", <<>>))
    BY <1>0, <2>2, <2>3, <2>4, ReturnBuilt, ErrorToken DEF Inv, Modes
  <2>5. CASE mode' \in {mode, "comment", "start"} /\ UNCHANGED <<text, toks>>
    BY <1>0, <2>2, <2>3, <2>5, BuiltKept DEF Inv, Modes, text
  <2> QED BY <2>1, <2>4, <2>5
<1>2. CASE Comment
  <2>1. PICK c \in Chars \cup {EOF} :
          Fgetc(c) /\ mode' = IF c \in {"newline", EOF} THEN "skip" ELSE "comment"
    BY <1>2 DEF Comment
  <2>2. UNCHANGED <<text, toks, oom>>
    BY <1>2 DEF Comment
  <2> QED BY <1>0, <1>a, <2>1, <2>2, BuiltKept DEF Inv, Modes, text
<1>3. CASE Start
  <2>1. PICK c \in Chars :
          /\ Fgetc(c)
          /\ \/ c \in Punct /\ Return(Token(c, <<>>)) /\ UNCHANGED oom
             \/ /\ c \in Quotes /\ quote' = c /\ mode' = "quoted"
                /\ UNCHANGED <<buf, cap, toks, oom>>
             \/ buffer_append(c, "word")
    BY <1>3 DEF Start
  <2>2. Reading'
    BY <1>a, <2>1
  <2>3. CASE c \in Punct /\ Return(Token(c, <<>>)) /\ UNCHANGED oom
    <3>1. Token(c, <<>>) \in Tokens
      BY <2>3, ErrorToken
    <3> QED BY <1>0, <2>2, <2>3, <3>1, ReturnBuilt DEF Inv, Modes
  <2>4. CASE c \in Quotes /\ quote' = c /\ mode' = "quoted" /\ UNCHANGED <<buf, cap, toks, oom>>
    BY <1>0, <2>2, <2>4, BuiltKept DEF Inv, Modes
  <2>5. CASE buffer_append(c, "word")
    BY <1>0, <2>2, <2>5, AppendBuilt DEF Inv, Modes
  <2> QED BY <2>1, <2>3, <2>4, <2>5
<1>4. CASE Word
  <2>1. CASE EndWord /\ ReturnWord /\ UNCHANGED oom
    <3>1. Blanks \subseteq Chars /\ Special \subseteq Chars
      BY DEF Special, Chars
    <3>2. Reading'
      BY <1>a, <1>b, <2>1, <3>1 DEF EndWord
    <3>3. Built' /\ mode' \in {"skip", "done"}
      <4> DEFINE t == IF cap = 0 THEN Token("empty", <<>>) ELSE Token("word", CString(buf))
      <4>1. t \in Tokens /\ Return(t) /\ oom' \in BOOLEAN
        BY <1>0, <2>1, WordToken DEF ReturnWord
      <4> HIDE DEF t
      <4> QED BY <1>0, <4>1, ReturnBuilt
    <3> QED BY <3>2, <3>3 DEF Inv, Modes
  <2>2. ASSUME NEW c \in Chars, Fgetc(c), buffer_append(c, "word")
        PROVE  Inv'
    BY <1>0, <1>a, <2>2, AppendBuilt DEF Inv, Modes
  <2> QED BY <1>4, <2>1, <2>2 DEF Word
<1>5. CASE Quoted
  <2>1. PICK c \in Chars \cup {EOF} :
          /\ Fgetc(c)
          /\ \/ c = EOF /\ Fail /\ UNCHANGED oom
             \/ c = quote /\ ReturnWord /\ UNCHANGED oom
             \/ c = "backslash" /\ mode' = "escape" /\ UNCHANGED <<text, toks, oom>>
             \/ c # EOF /\ buffer_append(c, "quoted")
    BY <1>5 DEF Quoted
  <2>2. Reading'
    BY <1>a, <2>1
  <2>3. CASE Fail /\ UNCHANGED oom
    BY <1>0, <2>2, <2>3, ReturnBuilt, ErrorToken DEF Inv, Modes, Fail
  <2>4. CASE ReturnWord /\ UNCHANGED oom
    <3> DEFINE t == IF cap = 0 THEN Token("empty", <<>>) ELSE Token("word", CString(buf))
    <3>1. t \in Tokens /\ Return(t) /\ oom' \in BOOLEAN
      BY <1>0, <2>4, WordToken DEF ReturnWord
    <3> HIDE DEF t
    <3> QED BY <1>0, <2>2, <3>1, ReturnBuilt DEF Inv, Modes
  <2>5. CASE mode' = "escape" /\ UNCHANGED <<text, toks, oom>>
    BY <1>0, <2>2, <2>5, BuiltKept DEF Inv, Modes, text
  <2>6. CASE c # EOF /\ buffer_append(c, "quoted")
    BY <1>0, <2>2, <2>6, AppendBuilt DEF Inv, Modes
  <2> QED BY <2>1, <2>3, <2>4, <2>5, <2>6
<1>6. CASE Escape
  <2>1. PICK c \in Chars \cup {EOF} :
          /\ Fgetc(c)
          /\ \/ c = EOF /\ Fail /\ UNCHANGED oom
             \/ c # EOF /\ buffer_append(Unescaped(c), "quoted")
    BY <1>6 DEF Escape
  <2>2. Reading'
    BY <1>a, <2>1
  <2>3. CASE Fail /\ UNCHANGED oom
    BY <1>0, <2>2, <2>3, ReturnBuilt, ErrorToken DEF Inv, Modes, Fail
  <2>4. CASE c # EOF /\ buffer_append(Unescaped(c), "quoted")
    <3>1. Unescaped(c) \in Chars
      BY <2>4 DEF Unescaped, Chars, Blanks
    <3> HIDE DEF Chars
    <3> QED BY <1>0, <2>2, <2>4, <3>1, AppendBuilt DEF Inv, Modes
  <2> QED BY <2>1, <2>3, <2>4
<1>7. CASE PushBackFails
  <2>1. Reading'
    BY <1>a, <1>7, EOFNotChar DEF PushBackFails, Special, Chars
  <2>2. Fail /\ oom' \in BOOLEAN
    BY <1>7 DEF PushBackFails
  <2> QED BY <1>0, <2>1, <2>2, ReturnBuilt, ErrorToken DEF Inv, Modes, Fail
<1>8. CASE UNCHANGED vars
  BY <1>0, <1>8 DEF Inv, vars, text, Reading, Built, Building, BufferInv, BufferFits
<1> QED BY <1>1, <1>2, <1>3, <1>4, <1>5, <1>6, <1>7, <1>8 DEF Next

\* The variables of the lexer keep their types for every alphabet and file.
THEOREM TypeCorrect == Spec => []TypeOK
<1>1. Inv => TypeOK
  BY DEF Inv, TypeOK, Reading, Modes, Built, Building
<1> QED BY InitInv, StepInv, <1>1, PTL DEF Spec

\* No write of buffer_append goes past the end of the buffer, whatever its
\* first size is, if it is at least two, and it never gets more than twice as
\* large as its text.
THEOREM BufferAlwaysFits == Spec => []BufferFits
<1>1. Inv => BufferFits
  BY DEF Inv, Built, BufferInv
<1> QED BY InitInv, StepInv, <1>1, PTL DEF Spec

-----------------------------------------------------------------------------
\* The word b ends at place p of the characters r.
Ends(b, r, p) ==
  /\ Len(b) \in 1..p
  /\ \A k \in 1..Len(b) : /\ b[k] = r[p - Len(b) + k]
                          /\ b[k] \notin Blanks \cup Special

\* WordVerbatim is inductive with what the first character of a token is: it
\* was looked at, and the buffer is still empty.
Words == /\ mode \in {"skip", "comment", "start"} => buf = <<>>
         /\ mode = "start" => /\ pos < Len(read)
                              /\ read[pos + 1] \notin Blanks \cup {"#"}
         /\ mode = "word" => Ends(buf, read, pos)

\* The character read is the one at the new place, and nothing before changes.
LEMMA FgetcReads ==
  ASSUME Reading, NEW c \in Chars, Fgetc(c)
  PROVE  /\ pos' = pos + 1 /\ pos' \in 1..Len(read') /\ read'[pos'] = c
         /\ \A k \in 1..pos : read'[k] = read[k]
<1>1. CASE pos < Len(read) /\ c = read[pos + 1] /\ pos' = pos + 1 /\ UNCHANGED <<read, ended>>
  BY <1>1 DEF Reading
<1>2. CASE pos = Len(read) /\ read' = Append(read, c) /\ pos' = pos + 1
  BY <1>2 DEF Reading
<1> QED BY <1>1, <1>2, EOFNotChar DEF Fgetc

\* A word that grows by the character read ends where the lexer is then.
LEMMA EndsGrows ==
  ASSUME NEW b \in Seq(Chars), NEW r \in Seq(Chars), NEW q \in Seq(Chars),
         NEW p \in 0..Len(r), b = <<>> \/ Ends(b, r, p),
         p + 1 \in 1..Len(q), \A k \in 1..p : q[k] = r[k],
         q[p + 1] \notin Blanks \cup Special
  PROVE  Ends(Append(b, q[p + 1]), q, p + 1)
<1> DEFINE c == q[p + 1]
           a == Append(b, c)
<1>1. c \in Chars /\ a \in Seq(Chars) /\ Len(a) = Len(b) + 1 /\ Len(b) \in 0..p
  BY DEF Ends
<1>2. ASSUME NEW k \in 1..Len(a)
      PROVE  a[k] = q[p + 1 - Len(a) + k] /\ a[k] \notin Blanks \cup Special
  <2>1. CASE k = Len(a)
    BY <1>1, <2>1
  <2>2. CASE k # Len(a)
    <3>1. k \in 1..Len(b) /\ a[k] = b[k] /\ Ends(b, r, p)
      BY <1>1, <2>2
    <3>2. p - Len(b) + k \in 1..p /\ p + 1 - Len(a) + k = p - Len(b) + k
      BY <1>1, <3>1
    <3> QED BY <3>1, <3>2 DEF Ends
  <2> QED BY <2>1, <2>2
<1>3. Len(a) \in 1..(p + 1)
  BY <1>1
<1> QED BY <1>2, <1>3 DEF Ends

LEMMA StepWords == Inv /\ Words /\ [Next]_vars => Words'
<1> SUFFICES ASSUME Inv, Words, [Next]_vars PROVE Words'
  OBVIOUS
<1>0. Reading /\ read \in Seq(Chars) /\ pos \in 0..Len(read) /\ buf \in Seq(Chars)
  BY DEF Inv, Reading, Built, Building
<1>R. Reading'
  BY StepInv DEF Inv
\* A token was returned.
<1>a. ASSUME NEW t, Return(t) PROVE Words'
  <2>1. mode' \in {"skip", "done"} /\ buf' = <<>>
    BY <1>a DEF Return
  <2> QED BY <2>1 DEF Words
\* A character was appended and lex_token is in a quoted token.
<1>b. ASSUME NEW c, buffer_append(c, "quoted") PROVE Words'
  <2>1. CASE mode' = "quoted"
    BY <2>1 DEF Words
  <2>2. CASE Fail
    BY <1>a, <2>2 DEF Fail
  <2> QED BY <1>b, <2>1, <2>2 DEF buffer_append
\* The character read was appended to a word.
<1>c. ASSUME NEW c \in Chars, Fgetc(c), c \notin Blanks \cup Special,
             buf = <<>> \/ Ends(buf, read, pos), buffer_append(c, "word")
      PROVE  Words'
  <2>1. CASE buf' = Append(buf, c) /\ mode' = "word"
    <3>1. /\ pos' = pos + 1 /\ pos' \in 1..Len(read') /\ read'[pos'] = c
          /\ \A k \in 1..pos : read'[k] = read[k]
      BY <1>0, <1>c, FgetcReads
    <3>2. read' \in Seq(Chars)
      BY <1>R DEF Reading
    <3>3. Ends(Append(buf, read'[pos + 1]), read', pos + 1)
      BY <1>0, <1>c, <3>1, <3>2, EndsGrows
    <3> QED BY <2>1, <3>1, <3>3 DEF Words
  <2>2. CASE Fail
    BY <1>a, <2>2 DEF Fail
  <2> QED BY <1>c, <2>1, <2>2 DEF buffer_append
<1>1. CASE Skip
  <2>1. CASE \E c \in Chars : /\ c \notin Blanks \cup {"#"} /\ Peek(c)
                              /\ mode' = "start" /\ UNCHANGED buf
    <3>1. PICK c \in Chars : /\ c \notin Blanks \cup {"#"} /\ Peek(c)
                             /\ mode' = "start" /\ UNCHANGED buf
      BY <2>1
    <3>2. pos' = pos /\ pos < Len(read') /\ read'[pos + 1] = c
      BY <1>0, <3>1 DEF Peek
    <3>3. buf = <<>>
      BY <1>1 DEF Skip, Words
    <3> QED BY <3>1, <3>2, <3>3 DEF Words
  <2>2. CASE Return(Token("eof", <<>>))
    BY <1>a, <2>2
  <2>3. CASE mode' \in {"skip", "comment"} /\ UNCHANGED buf
    BY <1>1, <2>3 DEF Skip, Words
  <2> QED BY <1>1, <2>1, <2>2, <2>3 DEF Skip, text
<1>2. CASE Comment
  <2>1. mode = "comment" /\ mode' \in {"skip", "comment"} /\ UNCHANGED buf
    BY <1>2 DEF Comment, text
  <2> QED BY <2>1 DEF Words
<1>3. CASE Start
  <2>1. mode = "start"
    BY <1>3 DEF Start
  <2>2. PICK c \in Chars :
          /\ Fgetc(c)
          /\ \/ c \in Punct /\ Return(Token(c, <<>>))
             \/ c \in Quotes /\ mode' = "quoted"
             \/ c \notin Punct \cup Quotes /\ buffer_append(c, "word")
    BY <1>3 DEF Start
  <2>3. CASE Return(Token(c, <<>>))
    BY <1>a, <2>3
  <2>4. CASE mode' = "quoted"
    BY <2>4 DEF Words
  <2>5. CASE c \notin Punct \cup Quotes /\ buffer_append(c, "word")
    <3>1. c = read[pos + 1]
      BY <1>0, <2>1, <2>2, EOFNotChar DEF Words, Fgetc
    <3>2. c \notin Blanks \cup Special /\ buf = <<>>
      BY <2>1, <2>5, <3>1 DEF Words, Special
    <3> QED BY <1>c, <2>2, <2>5, <3>2
  <2> QED BY <2>2, <2>3, <2>4, <2>5
<1>4. CASE Word
  <2>1. CASE ReturnWord
    BY <1>a, <2>1 DEF ReturnWord
  <2>2. CASE \E c \in Chars \ (Blanks \cup Special) : Fgetc(c) /\ buffer_append(c, "word")
    <3>1. PICK c \in Chars \ (Blanks \cup Special) : Fgetc(c) /\ buffer_append(c, "word")
      BY <2>2
    <3>2. Ends(buf, read, pos)
      BY <1>4 DEF Word, Words
    <3> QED BY <1>c, <3>1, <3>2
  <2> QED BY <1>4, <2>1, <2>2 DEF Word
<1>5. CASE Quoted
  <2>1. CASE Fail \/ ReturnWord
    BY <1>a, <2>1 DEF Fail, ReturnWord
  <2>2. CASE mode' = "escape"
    BY <2>2 DEF Words
  <2>3. CASE \E c \in Chars \cup {EOF} : buffer_append(c, "quoted")
    BY <1>b, <2>3
  <2> QED BY <1>5, <2>1, <2>2, <2>3 DEF Quoted
<1>6. CASE Escape
  <2>1. CASE Fail
    BY <1>a, <2>1 DEF Fail
  <2>2. CASE \E c \in Chars \cup {EOF} : buffer_append(Unescaped(c), "quoted")
    BY <1>b, <2>2
  <2> QED BY <1>6, <2>1, <2>2 DEF Escape
<1>7. CASE PushBackFails
  BY <1>a, <1>7 DEF PushBackFails, Fail
<1>8. CASE UNCHANGED vars
  BY <1>8 DEF Words, vars, text
<1> QED BY <1>1, <1>2, <1>3, <1>4, <1>5, <1>6, <1>7, <1>8 DEF Next

\* In every file an unquoted word is, character for character, the piece of it
\* that ends where the lexer is: pushing back loses and repeats nothing.
THEOREM WordsVerbatim == Spec => []WordVerbatim
<1>1. Init => Words
  BY DEF Init, Words
<1>2. Words => WordVerbatim
  BY DEF Words, WordVerbatim, Ends
<1> QED BY InitInv, StepInv, StepWords, <1>1, <1>2, PTL DEF Spec

-----------------------------------------------------------------------------
\* Which characters are escaped, one after the other.
LEMMA EscapedFacts ==
  ASSUME NEW s, Len(s) \in Nat, NEW i \in Nat
  PROVE  /\ Escaped(s, i) \subseteq i..Len(s)
         /\ \A k \in i..Len(s) : k \in Escaped(s, i) <=>
              k > i + 1 /\ s[k - 1] = "backslash" /\ k - 1 \notin Escaped(s, i)
<1> DEFINE n == Len(s)
           Next1(k, b) == k > i + 1 /\ s[k - 1] = "backslash" /\ ~b
           F == [k \in i..n |-> [b \in BOOLEAN |-> Next1(k, b)]]
<1>1. F \in [i..n -> [BOOLEAN -> BOOLEAN]]
  OBVIOUS
<1>2. \A k \in i..n : \A b \in BOOLEAN : F[k][b] = Next1(k, b)
  OBVIOUS
<1> HIDE DEF F
<1>0. n \in Nat
  OBVIOUS
<1> HIDE DEF n
<1>3. PICK g \in [i..n -> BOOLEAN] : Recurs(g, i, n, FALSE, F)
  BY <1>0, <1>1, IntervalRecursion
<1>4. ASSUME NEW k \in i..n PROVE g[k] = Next1(k, g[k - 1])
  <2>1. CASE k = i
    <3>1. g[k] = FALSE
      BY <1>3, <2>1, Zenon DEF Recurs
    <3>2. ~(k > i + 1)
      BY <2>1
    <3> QED BY <3>1, <3>2
  <2>2. CASE k # i
    <3>1. k - 1 \in i..n
      BY <1>0, <2>2
    <3>2. g[k] = F[k][g[k - 1]]
      BY <1>3, <2>2, Zenon DEF Recurs
    <3> QED BY <1>2, <1>3, <3>1, <3>2
  <2> QED BY <2>1, <2>2
<1>5. g = [k \in i..n |-> Next1(k, g[k - 1])]
  BY <1>3, <1>4
<1> DEFINE e == CHOOSE f : f = [k \in i..n |-> Next1(k, f[k - 1])]
<1>6. e = [k \in i..n |-> Next1(k, e[k - 1])]
  BY <1>5
<1>7. Escaped(s, i) = {k \in i..n : e[k]}
  BY DEF Escaped, n
<1> HIDE DEF e
<1>8. ASSUME NEW k \in i..n
      PROVE  k \in Escaped(s, i) <=> k > i + 1 /\ s[k - 1] = "backslash" /\ k - 1 \notin Escaped(s, i)
  <2>1. e[k] = (k > i + 1 /\ s[k - 1] = "backslash" /\ ~e[k - 1])
    BY <1>6
  <2>2. k > i + 1 => k - 1 \in i..n
    BY <1>0
  <2> QED BY <1>7, <2>1, <2>2
<1> QED BY <1>7, <1>8 DEF n

\* What a quoted word says, one character after the other.
LEMMA UnquotedFacts ==
  ASSUME NEW s \in Seq(Chars), NEW i \in 1..Len(s)
  PROVE  /\ Unquoted(s, i)[i] = <<>>
         /\ \A k \in (i + 1)..Len(s) :
              Unquoted(s, i)[k] =
                IF k \in Escaped(s, i) THEN Append(Unquoted(s, i)[k - 1], Unescaped(s[k]))
                ELSE IF s[k] = "backslash" THEN Unquoted(s, i)[k - 1]
                ELSE Append(Unquoted(s, i)[k - 1], s[k])
<1> DEFINE n == Len(s)
           Next1(k, t) == IF k \in Escaped(s, i) THEN Append(t, Unescaped(s[k]))
                          ELSE IF s[k] = "backslash" THEN t ELSE Append(t, s[k])
           F == [k \in i..n |-> [t \in Seq(Chars) |-> Next1(k, t)]]
<1>0. n \in Nat /\ i \in Nat /\ i \in i..n
  OBVIOUS
<1>1. ASSUME NEW k \in i..n, NEW t \in Seq(Chars) PROVE Next1(k, t) \in Seq(Chars)
  <2>1. s[k] \in Chars
    OBVIOUS
  <2>2. Unescaped(s[k]) \in Chars
    BY <2>1 DEF Unescaped, Chars, Blanks
  <2>3. \A c \in Chars : Append(t, c) \in Seq(Chars)
    OBVIOUS
  <2> QED BY <2>1, <2>2, <2>3
<1>2. F \in [i..n -> [Seq(Chars) -> Seq(Chars)]]
  BY <1>1
<1>3. \A k \in i..n : \A t \in Seq(Chars) : F[k][t] = Next1(k, t)
  OBVIOUS
<1> HIDE DEF F, Next1, n
<1>4. <<>> \in Seq(Chars)
  OBVIOUS
<1>5. PICK g \in [i..n -> Seq(Chars)] : Recurs(g, i, n, <<>>, F)
  BY <1>0, <1>2, <1>4, IntervalRecursion
<1>6. ASSUME NEW k \in i..n PROVE g[k] = IF k = i THEN <<>> ELSE Next1(k, g[k - 1])
  <2>1. CASE k = i
    BY <1>5, <2>1 DEF Recurs
  <2>2. CASE k # i
    <3>1. k - 1 \in i..n
      BY <1>0, <2>2
    <3>2. g[k] = F[k][g[k - 1]]
      BY <1>5, <2>2 DEF Recurs
    <3> QED BY <1>3, <1>5, <2>2, <3>1, <3>2
  <2> QED BY <2>1, <2>2
<1>7. g = [k \in i..n |-> IF k = i THEN <<>> ELSE Next1(k, g[k - 1])]
  BY <1>5, <1>6
<1> DEFINE u == CHOOSE f : f = [k \in i..n |-> IF k = i THEN <<>> ELSE Next1(k, f[k - 1])]
<1>8. u = [k \in i..n |-> IF k = i THEN <<>> ELSE Next1(k, u[k - 1])]
  BY <1>7
<1>9. Unquoted(s, i) = u
  BY DEF Unquoted, Next1, n
<1> HIDE DEF u
<1>10. u[i] = <<>> /\ \A k \in (i + 1)..n : u[k] = Next1(k, u[k - 1])
  <2>1. \A k \in (i + 1)..n : k \in i..n /\ k # i
    BY <1>0
  <2> QED BY <1>0, <1>8, <2>1
<1> QED BY <1>9, <1>10 DEF Next1, n

-----------------------------------------------------------------------------
\* The longest lexeme that begins at a place, if there is one.
LEMMA LongestFacts ==
  ASSUME NEW s, NEW k \in Nat, Len(s) \in Nat, EndsOf(s, k) # {}
  PROVE  /\ Longest(s, k) \in EndsOf(s, k) /\ Longest(s, k) \in k..Len(s)
         /\ \A x \in EndsOf(s, k) : x <= Longest(s, k)
<1>1. EndsOf(s, k) \in SUBSET Nat /\ \A x \in EndsOf(s, k) : x <= Len(s) /\ x \in k..Len(s)
  BY DEF EndsOf
<1>2. \E x \in EndsOf(s, k) : \A y \in EndsOf(s, k) : y <= x
  BY <1>1, NatMax
<1> QED BY <1>1, <1>2 DEF Longest

\* Nothing else is the longest.
LEMMA LongestIs ==
  ASSUME NEW s, NEW k \in Nat, Len(s) \in Nat, NEW j \in EndsOf(s, k),
         \A x \in EndsOf(s, k) : x <= j
  PROVE  Longest(s, k) = j
<1>1. Longest(s, k) \in EndsOf(s, k) /\ j <= Longest(s, k)
  BY LongestFacts
<1>2. Longest(s, k) <= j
  BY <1>1
<1>3. Longest(s, k) \in Nat /\ j \in Nat
  BY <1>1 DEF EndsOf
<1> QED BY <1>1, <1>2, <1>3

\* The tokens from each place on.
LEMMA FromFacts ==
  ASSUME NEW s, Len(s) \in Nat
  PROVE  \A k \in 1..(Len(s) + 1) :
           TokensFrom(s)[k] =
             IF k > Len(s) THEN <<Token("eof", <<>>)>>
             ELSE IF EndsOf(s, k) = {} THEN <<Token("error", <<>>)>>
             ELSE TokenOf(s, k, Longest(s, k)) \o TokensFrom(s)[Longest(s, k) + 1]
<1> DEFINE n == Len(s)
           E == Token("eof", <<>>)
           Body(g, k) == IF k > n THEN <<E>>
                         ELSE IF EndsOf(s, k) = {} THEN <<Token("error", <<>>)>>
                         ELSE TokenOf(s, k, Longest(s, k)) \o g[Longest(s, k) + 1]
           Right(g, m) == g = [k \in m..(n + 1) |-> Body(g, k)]
           Has(m) == \E g : Right(g, m)
           P == {j \in Nat : j <= n => Has(n + 1 - j)}
<1>1. n \in Nat
  OBVIOUS
<1>2. ASSUME NEW k \in Nat, k <= n, EndsOf(s, k) # {}
      PROVE  Longest(s, k) + 1 \in (k + 1)..(n + 1)
  <2>1. Longest(s, k) \in k..n
    BY <1>2, LongestFacts
  <2> QED BY <1>1, <1>2, <2>1
<1> HIDE DEF n, E
<1>3. 0 \in P
  <2> DEFINE g == [k \in (n + 1 - 0)..(n + 1) |-> <<E>>]
  <2>1. \A k \in (n + 1 - 0)..(n + 1) : k > n
    BY <1>1
  <2>2. \A k \in (n + 1 - 0)..(n + 1) : g[k] = Body(g, k)
    BY <2>1
  <2>3. g = [k \in (n + 1 - 0)..(n + 1) |-> g[k]]
    OBVIOUS
  <2> HIDE DEF g
  <2>4. g = [k \in (n + 1 - 0)..(n + 1) |-> Body(g, k)]
    BY <2>2, <2>3
  <2> QED BY <2>4
<1> HIDE DEF Has
<1>4. ASSUME NEW j \in Nat, j \in P PROVE j + 1 \in P
  <2> SUFFICES ASSUME j + 1 <= n PROVE Has(n + 1 - (j + 1))
    OBVIOUS
  <2> DEFINE m == n - j
  <2>1. m \in 1..n /\ n + 1 - (j + 1) = m /\ n + 1 - j = m + 1
    BY <1>1
  <2>2. PICK g : Right(g, m + 1)
    <3>1. Has(m + 1)
      BY <1>1, <1>4, <2>1
    <3> HIDE DEF m
    <3> QED BY <3>1 DEF Has
  <2> HIDE DEF m
  <2> DEFINE f == [k \in m..(n + 1) |-> IF k = m THEN Body(g, m) ELSE g[k]]
  <2>3. \A k \in m..(n + 1) : k \in Nat /\ (k # m => k \in (m + 1)..(n + 1))
    BY <1>1, <2>1
  <2>4. \A k \in (m + 1)..(n + 1) : f[k] = g[k] /\ g[k] = Body(g, k)
    <3>1. \A k \in (m + 1)..(n + 1) : k \in m..(n + 1) /\ k # m
      BY <1>1, <2>1
    <3>2. \A k \in (m + 1)..(n + 1) : g[k] = Body(g, k)
      BY <2>2
    <3> HIDE DEF Body
    <3> QED BY <3>1, <3>2
  <2>5. \A k \in m..(n + 1) : f[k] = IF k = m THEN Body(g, m) ELSE g[k]
    OBVIOUS
  <2>6. f = [k \in m..(n + 1) |-> f[k]]
    OBVIOUS
  <2> HIDE DEF f
  <2>7. ASSUME NEW k \in m..(n + 1) PROVE Body(f, k) = Body(g, k)
    <3>1. CASE k <= n /\ EndsOf(s, k) # {}
      <4> DEFINE l == Longest(s, k) + 1
      <4>1. l \in (k + 1)..(n + 1)
        BY <1>2, <2>3, <3>1
      <4> HIDE DEF l
      <4>2. l \in (m + 1)..(n + 1)
        BY <1>1, <2>1, <4>1
      <4>3. f[l] = g[l]
        BY <2>4, <4>2
      <4> QED BY <4>3 DEF l
    <3>2. CASE k > n \/ EndsOf(s, k) = {}
      BY <3>2
    <3> QED BY <1>1, <3>1, <3>2
  <2>8. ASSUME NEW k \in m..(n + 1) PROVE f[k] = Body(f, k)
    <3> HIDE DEF Body
    <3>1. CASE k = m
      BY <2>5, <2>7, <3>1
    <3>2. CASE k # m
      BY <2>3, <2>4, <2>7, <3>2
    <3> QED BY <3>1, <3>2
  <2>9. Right(f, m)
    BY <2>6, <2>8
  <2>10. Has(m)
    BY <2>9 DEF Has
  <2> QED BY <2>1, <2>10
<1> HIDE DEF P
<1>5. Nat \subseteq P
  BY <1>3, <1>4, NatSetInduction
<1>6. \E g : g = [k \in 1..(n + 1) |-> Body(g, k)]
  <2>1. n + 1 - n = 1 /\ n <= n
    BY <1>1
  <2>2. Has(1)
    BY <1>1, <1>5, <2>1 DEF P
  <2> QED BY <2>2 DEF Has
<1> DEFINE from == CHOOSE g : g = [k \in 1..(n + 1) |-> Body(g, k)]
<1>7. from = [k \in 1..(n + 1) |-> Body(from, k)]
  BY <1>6
<1>8. TokensFrom(s) = from
  BY DEF TokensFrom, n, E
<1> HIDE DEF from
<1>9. \A k \in 1..(n + 1) : from[k] = Body(from, k)
  BY <1>7
<1> QED BY <1>8, <1>9 DEF n, E

\* They are sequences over one set.
LEMMA FromTyped ==
  ASSUME NEW s, Len(s) \in Nat
  PROVE  \E S : \A k \in 1..(Len(s) + 1) : TokensFrom(s)[k] \in Seq(S)
<1> DEFINE n == Len(s)
           F == TokensFrom(s)
           Cut == {TokenOf(s, ij[1], ij[2])[1] : ij \in (1..n) \X (1..n)}
           S == {Token("eof", <<>>), Token("error", <<>>)} \cup Cut
           P == {j \in Nat : j <= n => \A k \in (n + 1 - j)..(n + 1) : F[k] \in Seq(S)}
<1>1. n \in Nat
  OBVIOUS
<1>2. \A k \in 1..(n + 1) :
        F[k] = IF k > n THEN <<Token("eof", <<>>)>>
               ELSE IF EndsOf(s, k) = {} THEN <<Token("error", <<>>)>>
               ELSE TokenOf(s, k, Longest(s, k)) \o F[Longest(s, k) + 1]
  BY FromFacts
<1>3. ASSUME NEW i \in 1..n, NEW j \in 1..n PROVE TokenOf(s, i, j) \in Seq(S)
  <2>1. TokenOf(s, i, j)[1] \in S
    <3>1. <<i, j>> \in (1..n) \X (1..n) /\ <<i, j>>[1] = i /\ <<i, j>>[2] = j
      OBVIOUS
    <3>2. TokenOf(s, i, j)[1] \in Cut
      BY <3>1
    <3> QED BY <3>2
  <2>2. TokenOf(s, i, j) = <<>> \/ \E t : TokenOf(s, i, j) = <<t>>
    BY DEF TokenOf
  <2> HIDE DEF S
  <2>3. \A t : TokenOf(s, i, j) = <<t>> => t \in S
    BY <2>1
  <2>4. <<>> \in Seq(S) /\ \A t \in S : <<t>> \in Seq(S)
    OBVIOUS
  <2>5. CASE TokenOf(s, i, j) = <<>>
    BY <2>4, <2>5
  <2>6. CASE \E t : TokenOf(s, i, j) = <<t>>
    BY <2>3, <2>4, <2>6, Zenon
  <2> QED BY <2>2, <2>5, <2>6
<1>4. <<Token("eof", <<>>)>> \in Seq(S) /\ <<Token("error", <<>>)>> \in Seq(S)
  OBVIOUS
<1>5. ASSUME NEW k \in Nat, k \in 1..n, EndsOf(s, k) # {}
      PROVE  Longest(s, k) \in k..n
  BY <1>5, LongestFacts
<1> HIDE DEF n, F, S
<1>6. 0 \in P
  <2>1. \A k \in (n + 1 - 0)..(n + 1) : k > n /\ k \in 1..(n + 1)
    BY <1>1
  <2> QED BY <1>2, <1>4, <2>1
<1>7. ASSUME NEW j \in Nat, j \in P PROVE j + 1 \in P
  <2> SUFFICES ASSUME j + 1 <= n, NEW k \in (n + 1 - (j + 1))..(n + 1) PROVE F[k] \in Seq(S)
    OBVIOUS
  <2>1. /\ k \in 1..(n + 1) /\ k \in Nat
        /\ \A l \in (k + 1)..(n + 1) : l \in (n + 1 - j)..(n + 1)
    BY <1>1
  <2>2. \A l \in (k + 1)..(n + 1) : F[l] \in Seq(S)
    BY <1>1, <1>7, <2>1
  <2>3. CASE k > n \/ EndsOf(s, k) = {}
    BY <1>2, <1>4, <2>1, <2>3
  <2>4. CASE k <= n /\ EndsOf(s, k) # {}
    <3> DEFINE l == Longest(s, k)
    <3>1. k \in 1..n
      BY <1>1, <2>1, <2>4
    <3>2. l \in k..n
      BY <1>5, <2>1, <2>4, <3>1
    <3>3. F[k] = TokenOf(s, k, l) \o F[l + 1]
      <4>1. ~(k > n)
        BY <1>1, <2>1, <2>4
      <4>2. F[k] = IF k > n THEN <<Token("eof", <<>>)>>
                   ELSE IF EndsOf(s, k) = {} THEN <<Token("error", <<>>)>>
                   ELSE TokenOf(s, k, l) \o F[l + 1]
        BY <1>2, <2>1, Zenon
      <4> HIDE DEF l
      <4> QED BY <2>4, <4>1, <4>2, Zenon
    <3> HIDE DEF l
    <3>4. l \in 1..n /\ l + 1 \in (k + 1)..(n + 1)
      BY <1>1, <2>1, <3>2
    <3>5. TokenOf(s, k, l) \in Seq(S) /\ F[l + 1] \in Seq(S)
      BY <1>3, <2>2, <3>1, <3>4
    <3>6. \A a, b \in Seq(S) : a \o b \in Seq(S)
      OBVIOUS
    <3> QED BY <3>3, <3>5, <3>6
  <2> QED BY <1>1, <2>1, <2>3, <2>4
<1> HIDE DEF P
<1>8. Nat \subseteq P
  BY <1>6, <1>7, NatSetInduction
<1>9. \A k \in 1..(n + 1) : F[k] \in Seq(S)
  <2>1. n + 1 - n = 1 /\ n <= n
    BY <1>1
  <2> QED BY <1>1, <1>8, <2>1 DEF P
<1> QED BY <1>9 DEF n, F

\* One more token than what was returned is due.
LEMMA TokenMoves ==
  ASSUME NEW s, Len(s) \in Nat, NEW T, NEW a \in Seq(T), NEW t, NEW k \in 1..(Len(s) + 1)
  PROVE  /\ a \o (<<t>> \o TokensFrom(s)[k]) = Append(a, t) \o TokensFrom(s)[k]
         /\ <<>> \o TokensFrom(s)[k] = TokensFrom(s)[k]
<1>1. PICK S : TokensFrom(s)[k] \in Seq(S)
  BY FromTyped
<1> DEFINE U == (S \cup T) \cup {t}
<1>2. \A A, B : A \subseteq B => \A q \in Seq(A) : q \in Seq(B)
  OBVIOUS
<1>3. TokensFrom(s)[k] \in Seq(U) /\ a \in Seq(U) /\ t \in U
  BY <1>1, <1>2
<1> HIDE DEF U
<1>4. \A p, q \in Seq(U) : \A x \in U : p \o (<<x>> \o q) = Append(p, x) \o q /\ <<>> \o q = q
  <2> TAKE p, q \in Seq(U)
  <2> TAKE x \in U
  <2>1. <<x>> \in Seq(U)
    OBVIOUS
  <2>2. p \o (<<x>> \o q) = (p \o <<x>>) \o q
    BY <2>1, ConcatAssociative
  <2>3. p \o <<x>> = Append(p, x)
    OBVIOUS
  <2>4. <<>> \o q = q
    OBVIOUS
  <2> QED BY <2>2, <2>3, <2>4
<1> QED BY <1>3, <1>4
-----------------------------------------------------------------------------
\* The first character of a lexeme tells its kind.
LEMMA LexemeKinds ==
  ASSUME NEW s, NEW k \in Nat, NEW j \in Nat, k <= j
  PROVE  /\ s[k] \in Blanks \cup Punct => (IsLexeme(s, k, j) <=> j = k)
         /\ s[k] = "#" => (IsLexeme(s, k, j) <=> IsComment(s, k, j))
         /\ s[k] \in Quotes => (IsLexeme(s, k, j) <=> IsQuoted(s, k, j))
         /\ s[k] \notin Blanks \cup Special => (IsLexeme(s, k, j) <=> IsWord(s, k, j))
<1>1. k \in k..j
  OBVIOUS
<1>2. \A c : /\ c \in Blanks \cup Punct => c \notin Quotes /\ c # "#"
             /\ c = "#" => c \notin Blanks \cup Punct /\ c \notin Quotes /\ c \in Special
             /\ c \in Quotes => c \in Special /\ c \notin Blanks
             /\ c \in Punct => c \in Special
             /\ c = "newline" => c \in Blanks
  BY DEF Blanks, Punct, Quotes, Special
<1>3. IsWord(s, k, j) => s[k] \notin Blanks \cup Special
  BY <1>1 DEF IsWord
<1>4. IsComment(s, k, j) => s[k] = "#"
  BY DEF IsComment
<1>5. IsQuoted(s, k, j) => s[k] \in Quotes
  BY DEF IsQuoted
<1>6. IsLexeme(s, k, j) <=> \/ k = j /\ s[k] \in Blanks \cup Punct
                            \/ IsComment(s, k, j) \/ IsWord(s, k, j) \/ IsQuoted(s, k, j)
  BY DEF IsLexeme
<1> QED BY <1>2, <1>3, <1>4, <1>5, <1>6

-----------------------------------------------------------------------------
\* The longest lexeme is cut off.
LEMMA LexemeCut ==
  ASSUME NEW s, Len(s) \in Nat, NEW k \in 1..Len(s), NEW j \in k..Len(s),
         IsLexeme(s, k, j), \A x \in k..Len(s) : IsLexeme(s, k, x) => x <= j
  PROVE  TokensFrom(s)[k] = TokenOf(s, k, j) \o TokensFrom(s)[j + 1]
<1> DEFINE n == Len(s)
<1>1. k \in Nat /\ n \in Nat /\ k \in 1..(n + 1) /\ ~(k > n)
  OBVIOUS
<1>2. j \in EndsOf(s, k) /\ \A x \in EndsOf(s, k) : x <= j
  BY DEF EndsOf
<1>3. Longest(s, k) = j
  BY <1>1, <1>2, LongestIs
<1>4. TokensFrom(s)[k] =
        IF k > n THEN <<Token("eof", <<>>)>>
        ELSE IF EndsOf(s, k) = {} THEN <<Token("error", <<>>)>>
        ELSE TokenOf(s, k, Longest(s, k)) \o TokensFrom(s)[Longest(s, k) + 1]
  BY <1>1, FromFacts, Zenon
<1>5. EndsOf(s, k) # {}
  BY <1>2
<1> HIDE DEF n
<1> QED BY <1>1, <1>3, <1>4, <1>5, Zenon

\* Blanks are cut off one by one and are no tokens.
LEMMA BlankCut ==
  ASSUME NEW s, Len(s) \in Nat, NEW k \in 1..Len(s), s[k] \in Blanks
  PROVE  TokensFrom(s)[k] = TokensFrom(s)[k + 1]
<1>1. k \in k..Len(s) /\ k \in Nat /\ k + 1 \in 1..(Len(s) + 1)
  OBVIOUS
<1>2. \A x \in k..Len(s) : x \in Nat /\ k <= x
  OBVIOUS
<1>3. \A x \in k..Len(s) : IsLexeme(s, k, x) <=> x = k
  BY <1>1, <1>2, LexemeKinds
<1>4. TokensFrom(s)[k] = TokenOf(s, k, k) \o TokensFrom(s)[k + 1]
  BY <1>1, <1>3, LexemeCut
<1>5. TokenOf(s, k, k) = <<>>
  BY DEF TokenOf, Blanks, Punct, Quotes
<1>6. <<>> \in Seq({}) /\ Token("eof", <<>>) = Token("eof", <<>>)
  OBVIOUS
<1> QED BY <1>1, <1>4, <1>5, <1>6, TokenMoves

\* A punctuation character is a token.
LEMMA PunctCut ==
  ASSUME NEW s, Len(s) \in Nat, NEW k \in 1..Len(s), s[k] \in Punct
  PROVE  TokensFrom(s)[k] = <<Token(s[k], <<>>)>> \o TokensFrom(s)[k + 1]
<1>1. k \in k..Len(s) /\ k \in Nat
  OBVIOUS
<1>2. \A x \in k..Len(s) : x \in Nat /\ k <= x
  OBVIOUS
<1>3. \A x \in k..Len(s) : IsLexeme(s, k, x) <=> x = k
  BY <1>1, <1>2, LexemeKinds
<1>4. TokensFrom(s)[k] = TokenOf(s, k, k) \o TokensFrom(s)[k + 1]
  BY <1>1, <1>3, LexemeCut
<1>5. TokenOf(s, k, k) = <<Token(s[k], <<>>)>>
  BY DEF TokenOf, Blanks, Punct, Quotes
<1> QED BY <1>4, <1>5

\* A comment goes to the end of its line and is no token.
LEMMA CommentCut ==
  ASSUME NEW s, Len(s) \in Nat, NEW k \in 1..Len(s), NEW p \in k..Len(s),
         s[k] = "#", \A x \in k..p : s[x] # "newline",
         p < Len(s) => s[p + 1] = "newline"
  PROVE  TokensFrom(s)[k] = TokensFrom(s)[p + 1]
<1>1. k \in Nat /\ p \in Nat /\ k <= p /\ p + 1 \in 1..(Len(s) + 1)
  OBVIOUS
<1>2. IsLexeme(s, k, p)
  BY DEF IsLexeme, IsComment
<1>3. ASSUME NEW x \in k..Len(s), IsLexeme(s, k, x) PROVE x <= p
  <2>1. x \in Nat /\ k <= x
    OBVIOUS
  <2>2. IsComment(s, k, x)
    BY <1>1, <1>3, <2>1, LexemeKinds
  <2>3. p < x => p + 1 \in k..x /\ p < Len(s)
    BY <1>1
  <2> QED BY <1>1, <2>1, <2>2, <2>3 DEF IsComment
<1>4. TokensFrom(s)[k] = TokenOf(s, k, p) \o TokensFrom(s)[p + 1]
  BY <1>2, <1>3, LexemeCut
<1>5. TokenOf(s, k, p) = <<>>
  BY DEF TokenOf, Blanks, Punct, Quotes
<1>6. <<>> \in Seq({})
  OBVIOUS
<1> QED BY <1>1, <1>4, <1>5, <1>6, TokenMoves

\* A word goes to a blank, to something special or to the end.
LEMMA WordCut ==
  ASSUME NEW s, Len(s) \in Nat, NEW k \in 1..Len(s), NEW p \in k..Len(s),
         IsWord(s, k, p), p < Len(s) => s[p + 1] \in Blanks \cup Special
  PROVE  TokensFrom(s)[k] =
           <<Token("word", CString(SubSeq(s, k, p)))>> \o TokensFrom(s)[p + 1]
<1>1. k \in Nat /\ p \in Nat /\ k <= p /\ p + 1 \in 1..(Len(s) + 1) /\ k \in k..p
  OBVIOUS
<1>2. IsLexeme(s, k, p) /\ s[k] \notin Blanks \cup Special
  BY <1>1 DEF IsLexeme, IsWord
<1>3. ASSUME NEW x \in k..Len(s), IsLexeme(s, k, x) PROVE x <= p
  <2>1. x \in Nat /\ k <= x
    OBVIOUS
  <2>2. IsWord(s, k, x)
    BY <1>1, <1>2, <1>3, <2>1, LexemeKinds
  <2>3. p < x => p + 1 \in k..x /\ p < Len(s)
    BY <1>1
  <2> QED BY <1>1, <2>1, <2>2, <2>3 DEF IsWord
<1>4. TokensFrom(s)[k] = TokenOf(s, k, p) \o TokensFrom(s)[p + 1]
  BY <1>2, <1>3, LexemeCut
<1>5. s[k] \notin Blanks \cup {"#"} /\ s[k] \notin Punct /\ s[k] \notin Quotes
  BY <1>2 DEF Special
<1>6. TokenOf(s, k, p) = <<Token("word", CString(SubSeq(s, k, p)))>>
  BY <1>5 DEF TokenOf
<1> QED BY <1>4, <1>6
-----------------------------------------------------------------------------
\* From the quote s[k] to s[p] nothing ends the quoted word.
Unclosed(s, k, p) == /\ s[k] \in Quotes
                     /\ \A x \in (k + 1)..p : s[x] = s[k] => x \in Escaped(s, k)

\* A quoted word goes to the first quote like its own that is not escaped.
LEMMA QuotedCut ==
  ASSUME NEW s, Len(s) \in Nat, NEW k \in 1..Len(s), NEW p \in (k + 1)..Len(s),
         Unclosed(s, k, p - 1), s[p] = s[k], p \notin Escaped(s, k)
  PROVE  TokensFrom(s)[k] =
           <<IF p = k + 1 THEN Token("empty", <<>>)
             ELSE Token("word", CString(Unquoted(s, k)[p - 1]))>> \o TokensFrom(s)[p + 1]
<1>1. k \in Nat /\ p \in Nat /\ k <= p /\ p \in k..Len(s) /\ s[k] \in Quotes
  BY DEF Unclosed
<1>2. IsQuoted(s, k, p)
  <2>1. \A x \in (k + 1)..p : x = p \/ x \in (k + 1)..(p - 1)
    BY <1>1
  <2>2. p \in (k + 1)..p
    BY <1>1
  <2>3. \A x \in (k + 1)..p : s[x] = s[k] /\ x \notin Escaped(s, k) <=> x = p
    BY <2>1 DEF Unclosed
  <2> QED BY <1>1, <2>2, <2>3 DEF IsQuoted
<1>3. ASSUME NEW x \in k..Len(s), IsLexeme(s, k, x) PROVE x <= p
  <2>1. x \in Nat /\ k <= x
    OBVIOUS
  <2>2. IsQuoted(s, k, x)
    BY <1>1, <1>3, <2>1, LexemeKinds
  <2>3. p < x => p \in (k + 1)..x /\ p # x
    BY <1>1, <2>1
  <2>4. \A y \in (k + 1)..x : s[y] = s[k] /\ y \notin Escaped(s, k) => y = x
    BY <2>2 DEF IsQuoted
  <2> QED BY <1>1, <2>1, <2>3, <2>4
<1>4. TokensFrom(s)[k] = TokenOf(s, k, p) \o TokensFrom(s)[p + 1]
  BY <1>1, <1>2, <1>3, LexemeCut DEF IsLexeme
<1>5. s[k] \notin Blanks \cup {"#"} /\ s[k] \notin Punct
  BY <1>1 DEF Blanks, Punct, Quotes
<1>6. TokenOf(s, k, p) = <<IF p = k + 1 THEN Token("empty", <<>>)
                           ELSE Token("word", CString(Unquoted(s, k)[p - 1]))>>
  BY <1>1, <1>5 DEF TokenOf
<1> QED BY <1>4, <1>6

\* Without such a quote it cannot be cut off, and neither can anything after it.
LEMMA QuotedOpen ==
  ASSUME NEW s, Len(s) \in Nat, NEW k \in 1..Len(s), Unclosed(s, k, Len(s))
  PROVE  TokensFrom(s)[k] = <<Token("error", <<>>)>>
<1> DEFINE n == Len(s)
<1>1. k \in Nat /\ n \in Nat /\ k \in 1..(n + 1) /\ ~(k > n) /\ s[k] \in Quotes
  BY DEF Unclosed
<1>2. ASSUME NEW x \in k..n, IsLexeme(s, k, x) PROVE FALSE
  <2>1. x \in Nat /\ k <= x
    OBVIOUS
  <2>2. IsQuoted(s, k, x)
    BY <1>1, <1>2, <2>1, LexemeKinds
  <2>3. x \in {y \in (k + 1)..x : s[y] = s[k]} \ Escaped(s, k)
    BY <2>2 DEF IsQuoted
  <2>4. x \in (k + 1)..Len(s)
    BY <1>1, <2>1, <2>3
  <2> QED BY <2>3, <2>4 DEF Unclosed
<1>3. EndsOf(s, k) = {}
  BY <1>2 DEF EndsOf
<1>4. TokensFrom(s)[k] =
        IF k > n THEN <<Token("eof", <<>>)>>
        ELSE IF EndsOf(s, k) = {} THEN <<Token("error", <<>>)>>
        ELSE TokenOf(s, k, Longest(s, k)) \o TokensFrom(s)[Longest(s, k) + 1]
  BY <1>1, FromFacts, Zenon
<1> HIDE DEF n
<1> QED BY <1>1, <1>3, <1>4, Zenon

\* After the last lexeme comes the end.
LEMMA EndCut ==
  ASSUME NEW s, Len(s) \in Nat
  PROVE  TokensFrom(s)[Len(s) + 1] = <<Token("eof", <<>>)>>
<1> DEFINE n == Len(s)
<1>1. n + 1 \in 1..(n + 1) /\ n + 1 > n
  OBVIOUS
<1> QED BY <1>1, FromFacts

-----------------------------------------------------------------------------
\* The backslash s[p], after the quote s[i], escapes what comes after it.
Active(s, i, p) == p > i /\ s[p] = "backslash" /\ p \notin Escaped(s, i)

\* A file that begins with the characters read, which are all if it is ended.
Completion(s) == /\ s \in Seq(Chars) /\ Len(read) <= Len(s)
                 /\ \A k \in 1..Len(read) : s[k] = read[k]
                 /\ ended => Len(s) = Len(read)

\* What the lexer has in hand is the beginning of the piece of s from i on.
Piece(s, i) ==
  /\ mode \in {"skip", "start"} => i = pos + 1
  /\ mode \in {"skip", "comment", "start"} => cap = 0
  /\ mode = "comment" => i <= pos /\ s[i] = "#" /\ \A k \in i..pos : s[k] # "newline"
  /\ mode = "word" => /\ i <= pos /\ cap # 0
                      /\ IsWord(s, i, pos) /\ buf = SubSeq(s, i, pos)
  /\ mode \in {"quoted", "escape"} =>
       /\ i <= pos /\ quote = s[i] /\ Unclosed(s, i, pos) /\ buf = Unquoted(s, i)[pos]
       /\ mode = "escape" <=> Active(s, i, pos)
  /\ mode = "quoted" => (cap = 0 <=> pos = i)

\* The tokens of s are those returned and those of s from i on.
Split(s, i) == TokensOf(s) = toks \o TokensFrom(s)[i]

\* In the end the tokens of s were returned, as many as the memory allowed;
\* before, those of s from some place on are due.
Due(s) ==
  IF mode = "done"
  THEN IF oom THEN IsPrefix(Front(toks), TokensOf(s)) ELSE toks = TokensOf(s)
  ELSE ~oom /\ \E i \in 1..(pos + 1) : Split(s, i) /\ Piece(s, i)

\* That holds of every file that the one read may turn out to be.
AllDue == \A s : Completion(s) => Due(s)

\* Reading on, a file that is still possible was possible before.
LEMMA FgetcCompletion ==
  ASSUME Reading, NEW s, Completion(s)', NEW c \in Chars, Fgetc(c)
  PROVE  /\ Completion(s) /\ pos' = pos + 1 /\ pos + 1 \in 1..Len(s) /\ s[pos + 1] = c
<1>1. CASE pos < Len(read) /\ c = read[pos + 1] /\ pos' = pos + 1 /\ UNCHANGED <<read, ended>>
  BY <1>1 DEF Reading, Completion
<1>2. CASE /\ pos = Len(read) /\ ~ended
           /\ read' = Append(read, c) /\ pos' = pos + 1 /\ UNCHANGED ended
  <2>1. /\ Len(read') = Len(read) + 1 /\ read'[Len(read) + 1] = c /\ Len(read) \in Nat
        /\ \A k \in 1..Len(read) : read'[k] = read[k] /\ k \in 1..Len(read')
    BY <1>2 DEF Reading
  <2>2. Len(read) + 1 \in 1..Len(read')
    BY <2>1
  <2> QED BY <1>2, <2>1, <2>2 DEF Completion
<1> QED BY <1>1, <1>2, EOFNotChar DEF Fgetc

\* At its end the file is known.
LEMMA EndCompletion ==
  ASSUME Reading, NEW s, Completion(s)', Fgetc(EOF)
  PROVE  Completion(s) /\ pos' = pos /\ pos = Len(s)
<1>1. pos = Len(read) /\ ended' = TRUE /\ UNCHANGED <<read, pos>>
  <2>1. pos < Len(read) => read[pos + 1] \in Chars
    BY DEF Reading
  <2> QED BY <2>1, EOFNotChar DEF Fgetc
<1> QED BY <1>1 DEF Completion, Reading

\* Looking at a character is like reading it, and it is still to be read.
LEMMA PeekCompletion ==
  ASSUME Reading, NEW s, Completion(s)', NEW c \in Chars, Peek(c)
  PROVE  Completion(s) /\ pos' = pos /\ pos + 1 \in 1..Len(s) /\ s[pos + 1] = c
<1>1. CASE pos < Len(read) /\ c = read[pos + 1] /\ UNCHANGED <<read, pos, ended>>
  BY <1>1 DEF Reading, Completion
<1>2. CASE pos = Len(read) /\ ~ended /\ read' = Append(read, c) /\ UNCHANGED <<pos, ended>>
  <2>1. /\ Len(read') = Len(read) + 1 /\ read'[Len(read) + 1] = c /\ Len(read) \in Nat
        /\ \A k \in 1..Len(read) : read'[k] = read[k] /\ k \in 1..Len(read')
    BY <1>2 DEF Reading
  <2>2. Len(read) + 1 \in 1..Len(read')
    BY <2>1
  <2> QED BY <1>2, <2>1, <2>2 DEF Completion
<1> QED BY <1>1, <1>2, EOFNotChar DEF Peek

-----------------------------------------------------------------------------
\* The token that is due was returned.
LEMMA ReturnDue ==
  ASSUME NEW s, Len(s) \in Nat, toks \in Seq(Tokens), NEW i, Split(s, i),
         NEW j \in 1..(Len(s) + 1), NEW t, t.kind \notin {"eof", "error"}, Return(t),
         TokensFrom(s)[i] = <<t>> \o TokensFrom(s)[j], oom' = FALSE, pos' + 1 = j
  PROVE  Due(s)'
<1>1. /\ toks' = Append(toks, t) /\ mode' = "skip" /\ cap' = 0
  BY DEF Return
<1>2. Split(s, j)'
  <2>1. toks \o (<<t>> \o TokensFrom(s)[j]) = Append(toks, t) \o TokensFrom(s)[j]
    BY TokenMoves
  <2> QED BY <1>1, <2>1 DEF Split
<1>3. Piece(s, j)'
  BY <1>1 DEF Piece
<1>4. j \in 1..(pos' + 1)
  OBVIOUS
<1> QED BY <1>1, <1>2, <1>3, <1>4 DEF Due

\* The last one was.
LEMMA LastDue ==
  ASSUME NEW s, toks \in Seq(Tokens), NEW i, Split(s, i),
         NEW t \in Tokens, t.kind \in {"eof", "error"}, Return(t),
         TokensFrom(s)[i] = <<t>>, oom' = FALSE
  PROVE  Due(s)'
<1>1. toks' = Append(toks, t) /\ mode' = "done"
  BY DEF Return
<1>2. toks' = TokensOf(s)
  <2>1. toks \o <<t>> = Append(toks, t)
    OBVIOUS
  <2> QED BY <1>1, <2>1 DEF Split
<1> QED BY <1>1, <1>2 DEF Due

\* The memory did not allow it.
LEMMA OomDue ==
  ASSUME NEW s, Len(s) \in Nat, toks \in Seq(Tokens), NEW i \in 1..(Len(s) + 1),
         Split(s, i), Fail, oom' = TRUE
  PROVE  Due(s)'
<1> DEFINE t == Token("error", <<>>)
<1>1. toks' = Append(toks, t) /\ mode' = "done"
  BY DEF Fail, Return, Token
<1>2. Front(toks') = toks
  <2>1. t \in Tokens
    BY ErrorToken
  <2> HIDE DEF t
  <2>2. \A x \in Tokens : \A q \in Seq(Tokens) :
          Len(Append(q, x)) - 1 = Len(q) /\ SubSeq(Append(q, x), 1, Len(q)) = q
    OBVIOUS
  <2> QED BY <1>1, <2>1, <2>2 DEF Front
<1>3. IsPrefix(toks, TokensOf(s))
  <2>1. PICK S : TokensFrom(s)[i] \in Seq(S)
    BY FromTyped
  <2> DEFINE U == S \cup Tokens
  <2>2. \A A, B : A \subseteq B => \A q \in Seq(A) : q \in Seq(B)
    OBVIOUS
  <2>3. TokensFrom(s)[i] \in Seq(U) /\ toks \in Seq(U)
    BY <2>1, <2>2
  <2> HIDE DEF U
  <2>4. \A p, q \in Seq(U) : /\ Len(p) <= Len(p \o q)
                             /\ SubSeq(p, 1, Len(p)) = SubSeq(p \o q, 1, Len(p))
    OBVIOUS
  <2> QED BY <2>3, <2>4 DEF IsPrefix, Split
<1> QED BY <1>1, <1>2, <1>3 DEF Due

\* After buffer_append there is a buffer, unless the memory did not allow it.
LEMMA AppendCases ==
  ASSUME Inv, NEW c, NEW m, buffer_append(c, m)
  PROVE  \/ /\ buf' = Append(buf, c) /\ cap' # 0
            /\ mode' = m /\ UNCHANGED <<quote, toks, oom>>
         \/ oom' = TRUE /\ Fail
<1>1. cap \in Nat /\ FirstCap >= 2 /\ FirstCap \in Nat /\ Len(buf) \in Nat
  BY LexerAssumption DEF Inv, Built, Building
<1>2. CASE /\ buf' = Append(buf, c) /\ cap' = IF Full THEN NewCap ELSE cap
           /\ mode' = m /\ UNCHANGED <<quote, toks, oom>>
  <2>1. Full => NewCap # 0
    BY <1>1 DEF NewCap
  <2>2. ~Full => cap # 0
    BY <1>1 DEF Full
  <2> QED BY <1>2, <2>1, <2>2
<1> QED BY <1>2 DEF buffer_append

\* Nothing changes but the characters known.
LEMMA DueKept ==
  ASSUME NEW s, Due(s), UNCHANGED <<pos, mode, text, toks, oom>>
  PROVE  Due(s)'
<1>1. ASSUME NEW i, Split(s, i), Piece(s, i) PROVE Split(s, i)' /\ Piece(s, i)'
  BY <1>1 DEF Split, Piece, text
<1> QED BY <1>1 DEF Due

\* Before the end the tokens from some place on are due.
LEMMA DueBefore ==
  ASSUME Inv, AllDue, NEW s, Completion(s), mode # "done"
  PROVE  /\ oom = FALSE /\ toks \in Seq(Tokens) /\ buf \in Seq(Chars)
         /\ pos \in Nat /\ s \in Seq(Chars) /\ Len(s) \in Nat /\ pos <= Len(s)
         /\ \E i \in 1..(pos + 1) : i \in Nat /\ i \in 1..(Len(s) + 1) /\ Split(s, i) /\ Piece(s, i)
<1>1. /\ toks \in Seq(Tokens) /\ buf \in Seq(Chars) /\ oom \in BOOLEAN
      /\ pos \in 0..Len(read) /\ read \in Seq(Chars)
  BY DEF Inv, Built, Building, Reading
<1>2. pos \in Nat /\ s \in Seq(Chars) /\ Len(s) \in Nat /\ pos <= Len(s)
  BY <1>1 DEF Completion
<1>3. ~oom /\ \E i \in 1..(pos + 1) : Split(s, i) /\ Piece(s, i)
  BY DEF AllDue, Due
<1>4. \A i \in 1..(pos + 1) : i \in Nat /\ i \in 1..(Len(s) + 1)
  BY <1>2
<1> QED BY <1>1, <1>2, <1>3, <1>4

\* No token was returned, and what is due are the same tokens.
LEMMA StayDue ==
  ASSUME NEW s, NEW i, Split(s, i), NEW j \in 1..(pos' + 1),
         TokensFrom(s)[i] = TokensFrom(s)[j],
         toks' = toks, oom' = FALSE, mode' # "done", Piece(s, j)'
  PROVE  Due(s)'
<1>1. Split(s, j)'
  BY DEF Split
<1> QED BY <1>1 DEF Due

LEMMA SkipDue ==
  ASSUME Inv, AllDue, Skip, NEW s, Completion(s)'
  PROVE  Due(s)'
<1>1. mode = "skip" /\ oom' = oom /\ Reading
  BY DEF Skip, Inv
<1>2. PICK c \in Chars \cup {EOF} :
        \/ c \in Blanks /\ Fgetc(c) /\ UNCHANGED <<mode, text, toks>>
        \/ c = "#" /\ Fgetc(c) /\ mode' = "comment" /\ UNCHANGED <<text, toks>>
        \/ c = EOF /\ Fgetc(c) /\ Return(Token("eof", <<>>))
        \/ /\ c \notin Blanks \cup {"#", EOF} /\ Peek(c)
           /\ mode' = "start" /\ UNCHANGED <<text, toks>>
  BY DEF Skip
<1>3. CASE c \in Blanks /\ Fgetc(c) /\ UNCHANGED <<mode, text, toks>>
  <2>1. c \in Chars
    BY <1>3 DEF Chars
  <2>2. Completion(s) /\ pos' = pos + 1 /\ pos + 1 \in 1..Len(s) /\ s[pos + 1] = c
    BY <1>1, <1>3, <2>1, FgetcCompletion
  <2>3. oom = FALSE /\ pos \in Nat /\ Len(s) \in Nat /\ Split(s, pos + 1) /\ cap = 0
    BY <1>1, <2>2, DueBefore DEF Piece
  <2>4. TokensFrom(s)[pos + 1] = TokensFrom(s)[pos + 1 + 1]
    BY <1>3, <2>2, <2>3, BlankCut
  <2>5. PICK j : j = pos + 1 + 1
    OBVIOUS
  <2>6. Piece(s, j)' /\ j \in 1..(pos' + 1)
    BY <1>1, <1>3, <2>2, <2>3, <2>5 DEF Piece, text
  <2> QED BY <1>1, <1>3, <2>3, <2>4, <2>5, <2>6, StayDue
<1>4. CASE c = "#" /\ Fgetc(c) /\ mode' = "comment" /\ UNCHANGED <<text, toks>>
  <2>1. c \in Chars
    BY <1>4 DEF Chars
  <2>2. Completion(s) /\ pos' = pos + 1 /\ pos + 1 \in 1..Len(s) /\ s[pos + 1] = c
    BY <1>1, <1>4, <2>1, FgetcCompletion
  <2>3. oom = FALSE /\ pos \in Nat /\ Len(s) \in Nat /\ Split(s, pos + 1) /\ cap = 0
    BY <1>1, <2>2, DueBefore DEF Piece
  <2>4. \A k \in (pos + 1)..(pos + 1) : s[k] # "newline"
    BY <1>4, <2>2, <2>3
  <2>5. PICK j : j = pos + 1
    OBVIOUS
  <2>6. Piece(s, j)' /\ j \in 1..(pos' + 1)
    BY <1>4, <2>2, <2>3, <2>4, <2>5 DEF Piece, text
  <2> QED BY <1>1, <1>4, <2>3, <2>5, <2>6, StayDue
<1>5. CASE c = EOF /\ Fgetc(c) /\ Return(Token("eof", <<>>))
  <2>1. Completion(s) /\ pos' = pos /\ pos = Len(s)
    BY <1>1, <1>5, EndCompletion
  <2>2. /\ oom = FALSE /\ pos \in Nat /\ Len(s) \in Nat /\ Split(s, pos + 1)
        /\ toks \in Seq(Tokens)
    BY <1>1, <2>1, DueBefore DEF Piece
  <2>3. TokensFrom(s)[pos + 1] = <<Token("eof", <<>>)>>
    BY <2>1, <2>2, EndCut
  <2>4. Token("eof", <<>>) \in Tokens /\ Token("eof", <<>>).kind = "eof"
    BY ErrorToken DEF Token
  <2> QED BY <1>1, <1>5, <2>2, <2>3, <2>4, LastDue
<1>6. CASE /\ c \notin Blanks \cup {"#", EOF} /\ Peek(c)
           /\ mode' = "start" /\ UNCHANGED <<text, toks>>
  <2>1. c \in Chars
    BY <1>6
  <2>2. Completion(s) /\ pos' = pos /\ pos + 1 \in 1..Len(s)
    BY <1>1, <1>6, <2>1, PeekCompletion
  <2>3. oom = FALSE /\ pos \in Nat /\ Split(s, pos + 1) /\ cap = 0
    BY <1>1, <2>2, DueBefore DEF Piece
  <2>4. PICK j : j = pos + 1
    OBVIOUS
  <2>5. Piece(s, j)' /\ j \in 1..(pos' + 1)
    BY <1>6, <2>2, <2>3, <2>4 DEF Piece, text
  <2> QED BY <1>1, <1>6, <2>3, <2>4, <2>5, StayDue
<1> QED BY <1>2, <1>3, <1>4, <1>5, <1>6

LEMMA CommentDue ==
  ASSUME Inv, AllDue, Comment, NEW s, Completion(s)'
  PROVE  Due(s)'
<1>1. mode = "comment" /\ oom' = oom /\ Reading /\ UNCHANGED <<text, toks>>
  BY DEF Comment, Inv
<1>2. PICK c \in Chars \cup {EOF} :
        Fgetc(c) /\ mode' = IF c \in {"newline", EOF} THEN "skip" ELSE "comment"
  BY DEF Comment
<1>3. CASE c = EOF
  <2>1. Completion(s) /\ pos' = pos /\ pos = Len(s)
    BY <1>1, <1>2, <1>3, EndCompletion
  <2>2. oom = FALSE /\ pos \in Nat /\ Len(s) \in Nat
    BY <1>1, <2>1, DueBefore
  <2>3. PICK i \in 1..(pos + 1) : i \in Nat /\ Split(s, i) /\ Piece(s, i)
    BY <1>1, <2>1, DueBefore
  <2>4. i <= pos /\ s[i] = "#" /\ (\A k \in i..pos : s[k] # "newline") /\ cap = 0
    BY <1>1, <2>3 DEF Piece
  <2>5. i \in 1..Len(s) /\ pos \in i..Len(s) /\ ~(pos < Len(s))
    BY <2>1, <2>2, <2>3, <2>4
  <2>6. TokensFrom(s)[i] = TokensFrom(s)[pos + 1]
    BY <2>2, <2>4, <2>5, CommentCut
  <2>7. PICK j : j = pos + 1
    OBVIOUS
  <2>8. Piece(s, j)' /\ j \in 1..(pos' + 1) /\ mode' # "done"
    BY <1>1, <1>2, <1>3, <2>1, <2>2, <2>4, <2>7 DEF Piece, text
  <2> QED BY <1>1, <2>2, <2>3, <2>6, <2>7, <2>8, StayDue
<1>4. CASE c # EOF
  <2>1. Completion(s) /\ pos' = pos + 1 /\ pos + 1 \in 1..Len(s) /\ s[pos + 1] = c
    BY <1>1, <1>2, <1>4, FgetcCompletion
  <2>2. oom = FALSE /\ pos \in Nat /\ Len(s) \in Nat
    BY <1>1, <2>1, DueBefore
  <2>3. PICK i \in 1..(pos + 1) : i \in Nat /\ Split(s, i) /\ Piece(s, i)
    BY <1>1, <2>1, DueBefore
  <2>4. i <= pos /\ s[i] = "#" /\ (\A k \in i..pos : s[k] # "newline") /\ cap = 0
    BY <1>1, <2>3 DEF Piece
  <2>5. CASE c = "newline"
    <3>1. i \in 1..Len(s) /\ pos \in i..Len(s)
      BY <2>1, <2>2, <2>3, <2>4
    <3>2. TokensFrom(s)[i] = TokensFrom(s)[pos + 1]
      BY <2>1, <2>2, <2>4, <2>5, <3>1, CommentCut
    <3>3. TokensFrom(s)[pos + 1] = TokensFrom(s)[pos + 1 + 1]
      BY <2>1, <2>2, <2>5, BlankCut DEF Blanks
    <3>4. PICK j : j = pos + 1 + 1
      OBVIOUS
    <3>5. Piece(s, j)' /\ j \in 1..(pos' + 1) /\ mode' # "done"
      BY <1>1, <1>2, <2>1, <2>2, <2>4, <2>5, <3>4 DEF Piece, text
    <3> QED BY <1>1, <2>2, <2>3, <3>2, <3>3, <3>4, <3>5, StayDue
  <2>6. CASE c # "newline"
    <3>1. mode' = "comment"
      BY <1>2, <1>4, <2>6
    <3>2. \A k \in i..(pos + 1) : k = pos + 1 \/ k \in i..pos
      BY <2>2, <2>3
    <3>3. Piece(s, i)' /\ i \in 1..(pos' + 1)
      BY <1>1, <2>1, <2>2, <2>3, <2>4, <2>6, <3>1, <3>2 DEF Piece, text
    <3> QED BY <1>1, <2>2, <2>3, <3>1, <3>3, StayDue
  <2> QED BY <2>5, <2>6
<1> QED BY <1>3, <1>4

\* A piece grows by the next character.
LEMMA PieceGrows ==
  ASSUME NEW s \in Seq(Chars), NEW i \in 1..Len(s), NEW p \in (i - 1)..Len(s), p + 1 <= Len(s)
  PROVE  Append(SubSeq(s, i, p), s[p + 1]) = SubSeq(s, i, p + 1)
<1> DEFINE a == SubSeq(s, i, p)
           b == SubSeq(s, i, p + 1)
<1>1. i \in Nat /\ p \in Nat /\ p + 1 \in 1..Len(s) /\ s[p + 1] \in Chars /\ Len(s) \in Nat
  OBVIOUS
<1>2. a \in Seq(Chars) /\ Len(a) = p - i + 1 /\ \A k \in 1..(p - i + 1) : a[k] = s[i + k - 1]
  BY <1>1
<1>3. b \in Seq(Chars) /\ Len(b) = p - i + 2 /\ \A k \in 1..(p - i + 2) : b[k] = s[i + k - 1]
  BY <1>1
<1> HIDE DEF a, b
<1> DEFINE m == p - i + 1
<1>4. m \in Nat /\ p - i + 1 = m /\ p - i + 2 = m + 1 /\ i + (m + 1) - 1 = p + 1
  BY <1>1
<1> HIDE DEF m
<1>5. Len(a) = m /\ Len(b) = m + 1 /\ b[m + 1] = s[p + 1] /\ \A k \in 1..m : b[k] = a[k]
  <2>1. Len(a) = m /\ \A k \in 1..m : a[k] = s[i + k - 1]
    BY <1>2, <1>4
  <2>2. Len(b) = m + 1 /\ \A k \in 1..(m + 1) : b[k] = s[i + k - 1]
    BY <1>3, <1>4
  <2>3. m + 1 \in 1..(m + 1) /\ \A k \in 1..m : k \in 1..(m + 1)
    BY <1>4
  <2>4. b[m + 1] = s[p + 1]
    BY <1>4, <2>2, <2>3
  <2> QED BY <2>1, <2>2, <2>3, <2>4
<1> DEFINE d == Append(a, s[p + 1])
<1>6. /\ d \in Seq(Chars) /\ Len(d) = m + 1 /\ d[m + 1] = s[p + 1]
      /\ \A k \in 1..m : d[k] = a[k]
  BY <1>1, <1>2, <1>4, <1>5
<1> HIDE DEF d
<1>7. \A k \in 1..(m + 1) : k = m + 1 \/ k \in 1..m
  BY <1>4
<1>8. \A k \in 1..Len(d) : d[k] = b[k]
  BY <1>5, <1>6, <1>7
<1>9. d = b
  BY <1>3, <1>5, <1>6, <1>8, SeqEqual
<1> QED BY <1>9 DEF a, b, d

LEMMA StartDue ==
  ASSUME Inv, Words, AllDue, Start, NEW s, Completion(s)'
  PROVE  Due(s)'
<1>1. mode = "start" /\ Reading
  BY DEF Start, Inv
<1>2. PICK c \in Chars :
        /\ Fgetc(c)
        /\ \/ c \in Punct /\ Return(Token(c, <<>>)) /\ UNCHANGED oom
           \/ /\ c \in Quotes
              /\ quote' = c /\ mode' = "quoted" /\ UNCHANGED <<buf, cap, toks, oom>>
           \/ c \notin Punct \cup Quotes /\ buffer_append(c, "word")
  BY DEF Start
<1>3. Completion(s) /\ pos' = pos + 1 /\ pos + 1 \in 1..Len(s) /\ s[pos + 1] = c
  BY <1>1, <1>2, FgetcCompletion
<1>4. PICK i : i = pos + 1
  OBVIOUS
<1>5. /\ oom = FALSE /\ Len(s) \in Nat /\ pos \in Nat /\ cap = 0 /\ toks \in Seq(Tokens)
      /\ Split(s, i) /\ s \in Seq(Chars)
  BY <1>1, <1>3, <1>4, DueBefore DEF Piece
<1>6. /\ i \in Nat /\ i \in 1..Len(s) /\ s[i] = c /\ pos' = i /\ i \in 1..(pos' + 1)
      /\ i \in i..Len(s) /\ i + 1 \in 1..(Len(s) + 1) /\ pos' + 1 = i + 1 /\ i \in 1..(Len(s) + 1)
  BY <1>3, <1>4, <1>5
<1>7. c \notin Blanks \cup {"#"} /\ buf = <<>>
  BY <1>1, <1>2, EOFNotChar DEF Words, Fgetc, Inv, Reading
<1>8. CASE c \in Punct /\ Return(Token(c, <<>>)) /\ UNCHANGED oom
  <2>1. TokensFrom(s)[i] = <<Token(c, <<>>)>> \o TokensFrom(s)[i + 1]
    BY <1>5, <1>6, <1>8, PunctCut
  <2>2. Token(c, <<>>).kind \notin {"eof", "error"}
    BY <1>8 DEF Token, Punct
  <2> QED BY <1>5, <1>6, <1>8, <2>1, <2>2, ReturnDue
<1>9. CASE /\ c \in Quotes
           /\ quote' = c /\ mode' = "quoted" /\ UNCHANGED <<buf, cap, toks, oom>>
  <2>1. Unclosed(s, i, i)
    BY <1>6, <1>9 DEF Unclosed
  <2>2. Unquoted(s, i)[i] = <<>>
    BY <1>5, <1>6, UnquotedFacts
  <2>3. ~Active(s, i, i)
    BY <1>6 DEF Active
  <2>4. Piece(s, i)'
    BY <1>5, <1>6, <1>7, <1>9, <2>1, <2>2, <2>3 DEF Piece
  <2> QED BY <1>5, <1>6, <1>9, <2>4, StayDue
<1>10. CASE c \notin Punct \cup Quotes /\ buffer_append(c, "word")
  <2>1. CASE oom' = TRUE /\ Fail
    BY <1>5, <1>6, <2>1, OomDue
  <2>2. CASE /\ buf' = Append(buf, c) /\ cap' # 0
             /\ mode' = "word" /\ UNCHANGED <<quote, toks, oom>>
    <3>1. IsWord(s, i, i)
      BY <1>6, <1>7, <1>10 DEF IsWord, Special
    <3>2. buf' = SubSeq(s, i, i)
      <4>1. Append(SubSeq(s, i, pos), s[pos + 1]) = SubSeq(s, i, pos + 1)
        BY <1>3, <1>4, <1>5, <1>6, PieceGrows
      <4>2. SubSeq(s, i, pos) = <<>>
        BY <1>4, <1>5
      <4> QED BY <1>3, <1>4, <1>7, <2>2, <4>1, <4>2
    <3>3. Piece(s, i)'
      BY <1>6, <2>2, <3>1, <3>2 DEF Piece
    <3> QED BY <1>5, <1>6, <2>2, <3>3, StayDue
  <2> QED BY <1>10, <2>1, <2>2, AppendCases
<1> QED BY <1>2, <1>8, <1>9, <1>10

LEMMA WordDue ==
  ASSUME Inv, AllDue, Word, NEW s, Completion(s)'
  PROVE  Due(s)'
<1>1. mode = "word" /\ Reading
  BY DEF Word, Inv
\* What is known of the word so far.
<1>2. ASSUME Completion(s)
      PROVE  /\ oom = FALSE /\ Len(s) \in Nat /\ pos \in Nat /\ cap # 0 /\ toks \in Seq(Tokens)
             /\ s \in Seq(Chars) /\ pos <= Len(s)
             /\ \E i \in 1..pos : /\ i \in 1..Len(s) /\ pos \in i..Len(s) /\ Split(s, i)
                                  /\ IsWord(s, i, pos) /\ buf = SubSeq(s, i, pos)
  <2>1. /\ oom = FALSE /\ Len(s) \in Nat /\ pos \in Nat /\ toks \in Seq(Tokens)
        /\ s \in Seq(Chars) /\ pos <= Len(s)
    BY <1>1, <1>2, DueBefore
  <2>2. PICK i \in 1..(pos + 1) : i \in Nat /\ Split(s, i) /\ Piece(s, i)
    BY <1>1, <1>2, DueBefore
  <2>3. i <= pos /\ cap # 0 /\ IsWord(s, i, pos) /\ buf = SubSeq(s, i, pos)
    BY <1>1, <2>2 DEF Piece
  <2>4. i \in 1..pos /\ i \in 1..Len(s) /\ pos \in i..Len(s)
    BY <2>1, <2>2, <2>3
  <2> QED BY <2>1, <2>2, <2>3, <2>4
<1>3. CASE EndWord /\ ReturnWord /\ UNCHANGED oom
  <2>1. ASSUME Completion(s), NEW j \in 1..(Len(s) + 1), pos' + 1 = j,
               pos < Len(s) => s[pos + 1] \in Blanks \cup Special,
               TokensFrom(s)[pos + 1] = TokensFrom(s)[j]
        PROVE  Due(s)'
    <3>1. /\ oom = FALSE /\ Len(s) \in Nat /\ pos \in Nat /\ cap # 0 /\ toks \in Seq(Tokens)
      BY <1>2, <2>1
    <3>2. PICK i \in 1..pos : /\ i \in 1..Len(s) /\ pos \in i..Len(s) /\ Split(s, i)
                              /\ IsWord(s, i, pos) /\ buf = SubSeq(s, i, pos)
      BY <1>2, <2>1
    <3>3. TokensFrom(s)[i] = <<Token("word", CString(buf))>> \o TokensFrom(s)[j]
      BY <2>1, <3>1, <3>2, WordCut
    <3>4. Return(Token("word", CString(buf))) /\ oom' = FALSE
      BY <1>3, <3>1 DEF ReturnWord
    <3>5. Token("word", CString(buf)).kind \notin {"eof", "error"}
      BY DEF Token
    <3> QED BY <2>1, <3>1, <3>2, <3>3, <3>4, <3>5, ReturnDue
  <2>2. CASE Fgetc(EOF)
    <3>1. Completion(s) /\ pos' = pos /\ pos = Len(s)
      BY <1>1, <2>2, EndCompletion
    <3>2. PICK j : j = pos + 1
      OBVIOUS
    <3>3. Len(s) \in Nat
      BY <1>2, <3>1
    <3>4. j \in 1..(Len(s) + 1) /\ pos' + 1 = j /\ ~(pos < Len(s))
      BY <3>1, <3>2, <3>3
    <3> QED BY <2>1, <3>1, <3>2, <3>4
  <2>3. CASE \E c \in Blanks : Fgetc(c)
    <3>1. PICK c \in Chars : c \in Blanks /\ Fgetc(c)
      BY <2>3 DEF Chars
    <3>2. Completion(s) /\ pos' = pos + 1 /\ pos + 1 \in 1..Len(s) /\ s[pos + 1] = c
      BY <1>1, <3>1, FgetcCompletion
    <3>3. PICK j : j = pos + 1 + 1
      OBVIOUS
    <3>4. Len(s) \in Nat /\ pos \in Nat
      BY <1>2, <3>2
    <3>5. j \in 1..(Len(s) + 1) /\ pos' + 1 = j
      <4> DEFINE n == Len(s)
      <4>1. n \in Nat /\ pos \in Nat /\ pos + 1 \in 1..n /\ pos' = pos + 1
        BY <3>2, <3>4
      <4> HIDE DEF n
      <4>2. j \in 1..(n + 1) /\ pos' + 1 = j
        BY <3>3, <4>1
      <4> QED BY <4>2 DEF n
    <3>6. TokensFrom(s)[pos + 1] = TokensFrom(s)[j]
      BY <3>1, <3>2, <3>3, <3>4, BlankCut
    <3> QED BY <2>1, <3>1, <3>2, <3>5, <3>6
  <2>4. CASE \E c \in Special : Peek(c)
    <3>1. PICK c \in Chars : c \in Special /\ Peek(c)
      BY <2>4 DEF Special, Chars
    <3>2. Completion(s) /\ pos' = pos /\ pos + 1 \in 1..Len(s) /\ s[pos + 1] = c
      BY <1>1, <3>1, PeekCompletion
    <3>3. PICK j : j = pos + 1
      OBVIOUS
    <3>4. Len(s) \in Nat /\ pos \in Nat
      BY <1>2, <3>2
    <3>5. j \in 1..(Len(s) + 1) /\ pos' + 1 = j
      BY <3>2, <3>3, <3>4
    <3> QED BY <2>1, <3>1, <3>2, <3>3, <3>5
  <2> QED BY <1>3, <2>2, <2>3, <2>4 DEF EndWord
<1>4. CASE \E c \in Chars \ (Blanks \cup Special) : Fgetc(c) /\ buffer_append(c, "word")
  <2>1. PICK c \in Chars : c \notin Blanks \cup Special /\ Fgetc(c) /\ buffer_append(c, "word")
    BY <1>4
  <2>2. Completion(s) /\ pos' = pos + 1 /\ pos + 1 \in 1..Len(s) /\ s[pos + 1] = c
    BY <1>1, <2>1, FgetcCompletion
  <2>3. /\ oom = FALSE /\ Len(s) \in Nat /\ pos \in Nat /\ cap # 0 /\ toks \in Seq(Tokens)
        /\ s \in Seq(Chars)
    BY <1>2, <2>2
  <2>4. PICK i \in 1..pos : /\ i \in 1..Len(s) /\ pos \in i..Len(s) /\ Split(s, i)
                            /\ IsWord(s, i, pos) /\ buf = SubSeq(s, i, pos)
    BY <1>2, <2>2
  <2>5. i \in 1..(Len(s) + 1) /\ i \in 1..(pos' + 1) /\ pos \in (i - 1)..Len(s)
        /\ i <= pos' /\ pos + 1 <= Len(s)
    BY <2>2, <2>3, <2>4
  <2>6. CASE oom' = TRUE /\ Fail
    BY <2>3, <2>4, <2>5, <2>6, OomDue
  <2>7. CASE /\ buf' = Append(buf, c) /\ cap' # 0
             /\ mode' = "word" /\ UNCHANGED <<quote, toks, oom>>
    <3>1. \A k \in i..(pos + 1) : k = pos + 1 \/ k \in i..pos
      BY <2>3, <2>4
    <3>2. IsWord(s, i, pos + 1)
      BY <2>1, <2>2, <2>4, <3>1 DEF IsWord
    <3>3. Append(SubSeq(s, i, pos), s[pos + 1]) = SubSeq(s, i, pos + 1)
      BY <2>3, <2>4, <2>5, PieceGrows
    <3>4. Piece(s, i)'
      BY <2>2, <2>4, <2>5, <2>7, <3>2, <3>3 DEF Piece
    <3> QED BY <2>3, <2>4, <2>5, <2>7, <3>4, StayDue
  <2> QED BY <2>1, <2>6, <2>7, AppendCases
<1> QED BY <1>3, <1>4 DEF Word

\* What the lexer has in hand of a quoted word.
InQuotes(s, i) ==
  /\ i \in 1..pos /\ i \in Nat /\ i \in 1..Len(s) /\ i \in 1..(Len(s) + 1) /\ Split(s, i)
  /\ quote = s[i] /\ s[i] \in Quotes /\ Unclosed(s, i, pos) /\ buf = Unquoted(s, i)[pos]
  /\ mode = "escape" <=> Active(s, i, pos)
  /\ mode = "quoted" => (cap = 0 <=> pos = i)

LEMMA QuotesBefore ==
  ASSUME Inv, AllDue, NEW s, Completion(s), mode \in {"quoted", "escape"}
  PROVE  /\ oom = FALSE /\ toks \in Seq(Tokens) /\ pos \in Nat
         /\ s \in Seq(Chars) /\ Len(s) \in Nat /\ pos <= Len(s)
         /\ \E i : InQuotes(s, i)
<1>1. /\ oom = FALSE /\ toks \in Seq(Tokens) /\ pos \in Nat
      /\ s \in Seq(Chars) /\ Len(s) \in Nat /\ pos <= Len(s)
  BY DueBefore
<1>2. PICK i \in 1..(pos + 1) : i \in Nat /\ i \in 1..(Len(s) + 1) /\ Split(s, i) /\ Piece(s, i)
  BY DueBefore
<1>3. /\ i <= pos /\ quote = s[i] /\ Unclosed(s, i, pos) /\ buf = Unquoted(s, i)[pos]
      /\ mode = "escape" <=> Active(s, i, pos)
      /\ mode = "quoted" => (cap = 0 <=> pos = i)
  BY <1>2 DEF Piece
<1>4. i \in 1..pos /\ i \in 1..Len(s) /\ s[i] \in Quotes
  BY <1>1, <1>2, <1>3 DEF Unclosed
<1>5. InQuotes(s, i)
  BY <1>2, <1>3, <1>4 DEF InQuotes
<1> QED BY <1>1, <1>5

\* One character further in a quoted word: what it says, and what is escaped.
LEMMA QuoteGrows ==
  ASSUME NEW s \in Seq(Chars), NEW i, NEW p \in Nat, i \in 1..p, i \in Nat, p + 1 \in 1..Len(s),
         Unclosed(s, i, p), s[p + 1] = s[i] => Active(s, i, p)
  PROVE  /\ Unclosed(s, i, p + 1)
         /\ p + 1 \in Escaped(s, i) <=> Active(s, i, p)
         /\ Active(s, i, p + 1) <=> s[p + 1] = "backslash" /\ ~Active(s, i, p)
         /\ Unquoted(s, i)[p + 1] =
              IF Active(s, i, p) THEN Append(Unquoted(s, i)[p], Unescaped(s[p + 1]))
              ELSE IF s[p + 1] = "backslash" THEN Unquoted(s, i)[p]
              ELSE Append(Unquoted(s, i)[p], s[p + 1])
<1>1. /\ p + 1 \in i..Len(s) /\ p + 1 - 1 = p /\ (p + 1 > i + 1 <=> p > i) /\ p + 1 > i
      /\ Len(s) \in Nat /\ p + 1 \in (i + 1)..Len(s) /\ i \in 1..Len(s)
  OBVIOUS
<1> DEFINE k == p + 1
<1>2. k \in Escaped(s, i) <=> k > i + 1 /\ s[k - 1] = "backslash" /\ k - 1 \notin Escaped(s, i)
  <2> HIDE DEF k
  <2>1. k \in i..Len(s)
    BY <1>1 DEF k
  <2> QED BY <1>1, <2>1, EscapedFacts
<1>3. p + 1 \in Escaped(s, i) <=> Active(s, i, p)
  BY <1>1, <1>2 DEF Active
<1>4. Unquoted(s, i)[k] =
        IF k \in Escaped(s, i) THEN Append(Unquoted(s, i)[k - 1], Unescaped(s[k]))
        ELSE IF s[k] = "backslash" THEN Unquoted(s, i)[k - 1]
        ELSE Append(Unquoted(s, i)[k - 1], s[k])
  <2> HIDE DEF k
  <2>1. k \in (i + 1)..Len(s)
    BY <1>1 DEF k
  <2> QED BY <1>1, <2>1, UnquotedFacts
<1>5. \A x \in (i + 1)..(p + 1) : x = p + 1 \/ x \in (i + 1)..p
  OBVIOUS
<1>6. Unclosed(s, i, p + 1)
  BY <1>3, <1>5 DEF Unclosed
<1>7. Active(s, i, p + 1) <=> s[p + 1] = "backslash" /\ ~Active(s, i, p)
  BY <1>1, <1>3 DEF Active
<1>8. Unquoted(s, i)[p + 1] =
        IF Active(s, i, p) THEN Append(Unquoted(s, i)[p], Unescaped(s[p + 1]))
        ELSE IF s[p + 1] = "backslash" THEN Unquoted(s, i)[p]
        ELSE Append(Unquoted(s, i)[p], s[p + 1])
  BY <1>1, <1>3, <1>4
<1> QED BY <1>3, <1>6, <1>7, <1>8

\* The file ends in a quoted word.
LEMMA OpenDue ==
  ASSUME Inv, AllDue, mode \in {"quoted", "escape"}, Fgetc(EOF), Fail, UNCHANGED oom,
         NEW s, Completion(s)'
  PROVE  Due(s)'
<1>1. Completion(s) /\ pos = Len(s)
  BY EndCompletion DEF Inv
<1>2. oom = FALSE /\ toks \in Seq(Tokens) /\ Len(s) \in Nat
  BY <1>1, QuotesBefore
<1>3. PICK i : InQuotes(s, i)
  BY <1>1, QuotesBefore
<1>4. i \in 1..Len(s) /\ Split(s, i) /\ Unclosed(s, i, Len(s))
  BY <1>1, <1>3 DEF InQuotes
<1>5. TokensFrom(s)[i] = <<Token("error", <<>>)>>
  BY <1>2, <1>4, QuotedOpen
<1>6. Token("error", <<>>) \in Tokens /\ Token("error", <<>>).kind = "error"
  BY ErrorToken DEF Token
<1> QED BY <1>2, <1>4, <1>5, <1>6, LastDue DEF Fail

\* A character was appended to a quoted word.
LEMMA QuotedAppendDue ==
  ASSUME Inv, AllDue, mode \in {"quoted", "escape"}, NEW c \in Chars, Fgetc(c),
         NEW d, buffer_append(d, "quoted"),
         IF mode = "escape" THEN d = Unescaped(c)
                            ELSE d = c /\ c \notin {quote, "backslash"},
         NEW s, Completion(s)'
  PROVE  Due(s)'
<1>1. Completion(s) /\ pos' = pos + 1 /\ pos + 1 \in 1..Len(s) /\ s[pos + 1] = c
  BY FgetcCompletion DEF Inv
<1>2. oom = FALSE /\ toks \in Seq(Tokens) /\ s \in Seq(Chars) /\ Len(s) \in Nat /\ pos \in Nat
  BY <1>1, QuotesBefore
<1>3. PICK i : InQuotes(s, i)
  BY <1>1, QuotesBefore
<1>4. /\ i \in 1..pos /\ i \in Nat /\ i \in 1..(Len(s) + 1) /\ Split(s, i) /\ quote = s[i]
      /\ Unclosed(s, i, pos) /\ buf = Unquoted(s, i)[pos]
      /\ mode = "escape" <=> Active(s, i, pos)
  BY <1>3 DEF InQuotes
<1>5. s[pos + 1] = s[i] => Active(s, i, pos)
  BY <1>1, <1>4
<1>6. /\ Unclosed(s, i, pos + 1)
      /\ Active(s, i, pos + 1) <=> s[pos + 1] = "backslash" /\ ~Active(s, i, pos)
      /\ Unquoted(s, i)[pos + 1] =
           IF Active(s, i, pos) THEN Append(Unquoted(s, i)[pos], Unescaped(s[pos + 1]))
           ELSE IF s[pos + 1] = "backslash" THEN Unquoted(s, i)[pos]
           ELSE Append(Unquoted(s, i)[pos], s[pos + 1])
  BY <1>1, <1>2, <1>4, <1>5, QuoteGrows
<1>7. ~Active(s, i, pos + 1) /\ Unquoted(s, i)[pos + 1] = Append(buf, d)
  BY <1>1, <1>4, <1>6
<1>8. CASE oom' = TRUE /\ Fail
  BY <1>2, <1>4, <1>8, OomDue
<1>9. CASE /\ buf' = Append(buf, d) /\ cap' # 0
           /\ mode' = "quoted" /\ UNCHANGED <<quote, toks, oom>>
  <2>1. i <= pos + 1 /\ i # pos + 1 /\ i \in 1..(pos' + 1)
    BY <1>1, <1>2, <1>4
  <2>2. Piece(s, i)'
    BY <1>1, <1>4, <1>6, <1>7, <1>9, <2>1 DEF Piece
  <2> QED BY <1>2, <1>4, <1>9, <2>1, <2>2, StayDue
<1> QED BY <1>8, <1>9, AppendCases

LEMMA QuotedDue ==
  ASSUME Inv, AllDue, Quoted, NEW s, Completion(s)'
  PROVE  Due(s)'
<1>1. mode = "quoted" /\ mode \in {"quoted", "escape"} /\ Reading
  BY DEF Quoted, Inv
<1>2. PICK c \in Chars \cup {EOF} :
        /\ Fgetc(c)
        /\ \/ c = EOF /\ Fail /\ UNCHANGED oom
           \/ c = quote /\ ReturnWord /\ UNCHANGED oom
           \/ c = "backslash" /\ mode' = "escape" /\ UNCHANGED <<text, toks, oom>>
           \/ /\ c \notin {EOF, quote, "backslash"}
              /\ buffer_append(c, "quoted")
  BY DEF Quoted
<1>3. CASE c = EOF /\ Fail /\ UNCHANGED oom
  BY <1>1, <1>2, <1>3, OpenDue
<1>4. CASE c \notin {EOF, quote, "backslash"} /\ buffer_append(c, "quoted")
  BY <1>1, <1>2, <1>4, QuotedAppendDue
<1>5. ASSUME c \in Chars
      PROVE  /\ Completion(s) /\ pos' = pos + 1 /\ pos + 1 \in 1..Len(s) /\ s[pos + 1] = c
             /\ oom = FALSE /\ toks \in Seq(Tokens) /\ s \in Seq(Chars)
             /\ Len(s) \in Nat /\ pos \in Nat /\ \E i : InQuotes(s, i)
  <2>1. Completion(s) /\ pos' = pos + 1 /\ pos + 1 \in 1..Len(s) /\ s[pos + 1] = c
    BY <1>1, <1>2, <1>5, FgetcCompletion
  <2> QED BY <1>1, <2>1, QuotesBefore
<1>6. CASE c = quote /\ ReturnWord /\ UNCHANGED oom
  <2>1. c \in Chars
    <3>1. quote \in Quotes \cup {EOF}
      BY DEF Inv, Built, Building
    <3>2. c # EOF
      <4>1. SUFFICES ASSUME c = EOF PROVE FALSE
        OBVIOUS
      <4>2. Completion(s)
        BY <1>1, <1>2, <4>1, EndCompletion
      <4>3. PICK i : InQuotes(s, i)
        BY <1>1, <4>2, QuotesBefore
      <4> QED BY <1>6, <4>1, <4>3 DEF InQuotes, Quotes, EOF
    <3> QED BY <1>2, <3>2
  <2>2. PICK i : InQuotes(s, i)
    BY <1>5, <2>1
  <2>3. /\ i \in 1..pos /\ i \in Nat /\ i \in 1..Len(s) /\ Split(s, i) /\ quote = s[i]
        /\ Unclosed(s, i, pos) /\ buf = Unquoted(s, i)[pos]
        /\ ~Active(s, i, pos) /\ (cap = 0 <=> pos = i)
    BY <1>1, <2>2 DEF InQuotes
  <2>4. PICK p : p = pos + 1
    OBVIOUS
  <2>5. /\ p \in (i + 1)..Len(s) /\ p - 1 = pos /\ (p = i + 1 <=> pos = i) /\ p + 1 \in 1..(Len(s) + 1)
        /\ p \in i..Len(s) /\ p > i /\ pos' + 1 = p + 1 /\ s[p] = s[i] /\ Len(s) \in Nat
    <3> DEFINE n == Len(s)
    <3>1. pos \in Nat /\ pos + 1 \in 1..n /\ n \in Nat /\ pos' = pos + 1 /\ s[pos + 1] = c
      BY <1>5, <2>1
    <3>2. s[p] = s[i]
      BY <1>6, <2>3, <2>4, <3>1
    <3>3. i \in Nat /\ i \in 1..pos
      BY <2>3
    <3> HIDE DEF n
    <3>4. /\ p \in (i + 1)..n /\ p - 1 = pos /\ (p = i + 1 <=> pos = i) /\ p + 1 \in 1..(n + 1)
          /\ p \in i..n /\ p > i /\ pos' + 1 = p + 1
      BY <2>4, <3>1, <3>3
    <3> QED BY <3>1, <3>2, <3>4 DEF n
  <2>6. p \notin Escaped(s, i)
    <3>1. p \in Escaped(s, i) <=> p > i + 1 /\ s[p - 1] = "backslash" /\ p - 1 \notin Escaped(s, i)
      BY <2>3, <2>5, EscapedFacts
    <3>2. p > i + 1 => pos > i
      BY <2>3, <2>4, <2>5
    <3> QED BY <2>3, <2>5, <3>1, <3>2 DEF Active
  <2>7. TokensFrom(s)[i] =
          <<IF p = i + 1 THEN Token("empty", <<>>)
            ELSE Token("word", CString(Unquoted(s, i)[p - 1]))>> \o TokensFrom(s)[p + 1]
    BY <2>3, <2>5, <2>6, QuotedCut
  <2> DEFINE t == IF cap = 0 THEN Token("empty", <<>>) ELSE Token("word", CString(buf))
  <2>8. PICK w : w = t
    OBVIOUS
  <2>9. Return(w) /\ w.kind \notin {"eof", "error"}
    BY <1>6, <2>8 DEF ReturnWord, Token
  <2>10. TokensFrom(s)[i] = <<w>> \o TokensFrom(s)[p + 1]
    BY <2>3, <2>5, <2>7, <2>8
  <2>11. oom' = FALSE /\ toks \in Seq(Tokens)
    BY <1>5, <1>6, <2>1
  <2> QED BY <2>3, <2>5, <2>9, <2>10, <2>11, ReturnDue
<1>7. CASE c = "backslash" /\ mode' = "escape" /\ UNCHANGED <<text, toks, oom>>
  <2>1. c \in Chars
    BY <1>7 DEF Chars
  <2>2. PICK i : InQuotes(s, i)
    BY <1>5, <2>1
  <2>3. /\ i \in 1..pos /\ i \in Nat /\ Split(s, i) /\ quote = s[i] /\ s[i] \in Quotes
        /\ Unclosed(s, i, pos) /\ buf = Unquoted(s, i)[pos] /\ ~Active(s, i, pos)
    BY <1>1, <2>2 DEF InQuotes
  <2>4. s[pos + 1] = "backslash" /\ s[pos + 1] # s[i]
    BY <1>5, <1>7, <2>1, <2>3 DEF Quotes
  <2>5. /\ Unclosed(s, i, pos + 1)
        /\ Active(s, i, pos + 1) <=> s[pos + 1] = "backslash" /\ ~Active(s, i, pos)
        /\ Unquoted(s, i)[pos + 1] =
             IF Active(s, i, pos) THEN Append(Unquoted(s, i)[pos], Unescaped(s[pos + 1]))
             ELSE IF s[pos + 1] = "backslash" THEN Unquoted(s, i)[pos]
             ELSE Append(Unquoted(s, i)[pos], s[pos + 1])
    BY <1>5, <2>1, <2>3, <2>4, QuoteGrows
  <2>6. Active(s, i, pos + 1) /\ Unquoted(s, i)[pos + 1] = buf
    BY <2>3, <2>4, <2>5
  <2>7. i <= pos + 1 /\ i \in 1..(pos' + 1)
    BY <1>5, <2>1, <2>3
  <2>8. Piece(s, i)'
    BY <1>5, <1>7, <2>1, <2>3, <2>5, <2>6, <2>7 DEF Piece, text
  <2> QED BY <1>5, <1>7, <2>1, <2>3, <2>7, <2>8, StayDue
<1> QED BY <1>2, <1>3, <1>4, <1>6, <1>7

LEMMA EscapeDue ==
  ASSUME Inv, AllDue, Escape, NEW s, Completion(s)'
  PROVE  Due(s)'
<1>1. mode = "escape" /\ mode \in {"quoted", "escape"}
  BY DEF Escape
<1>2. PICK c \in Chars \cup {EOF} :
        /\ Fgetc(c)
        /\ \/ c = EOF /\ Fail /\ UNCHANGED oom
           \/ c # EOF /\ buffer_append(Unescaped(c), "quoted")
  BY DEF Escape
<1>3. CASE c = EOF /\ Fail /\ UNCHANGED oom
  BY <1>1, <1>2, <1>3, OpenDue
<1>4. CASE c # EOF /\ buffer_append(Unescaped(c), "quoted")
  <2> DEFINE d == Unescaped(c)
  <2>1. c \in Chars /\ buffer_append(d, "quoted") /\ d = Unescaped(c)
    BY <1>2, <1>4
  <2> HIDE DEF d
  <2> QED BY <1>1, <1>2, <2>1, QuotedAppendDue
<1> QED BY <1>2, <1>3, <1>4

LEMMA PushBackDue ==
  ASSUME Inv, AllDue, PushBackFails, NEW s, Completion(s)'
  PROVE  Due(s)'
<1>1. mode # "done" /\ oom' = TRUE /\ Fail /\ Reading
  BY DEF PushBackFails, Inv
<1>2. PICK c \in Chars : Fgetc(c)
  BY DEF PushBackFails, Special, Chars
<1>3. Completion(s)
  BY <1>1, <1>2, FgetcCompletion
<1>4. PICK i \in 1..(pos + 1) : i \in 1..(Len(s) + 1) /\ Split(s, i)
  BY <1>1, <1>3, DueBefore
<1>5. Len(s) \in Nat /\ toks \in Seq(Tokens)
  BY <1>1, <1>3, DueBefore
<1> QED BY <1>1, <1>4, <1>5, OomDue

LEMMA InitDue == Init => AllDue
<1> SUFFICES ASSUME Init, NEW s, Completion(s) PROVE Due(s)
  BY DEF AllDue
<1>1. pos = 0 /\ mode = "skip" /\ cap = 0 /\ toks = <<>> /\ oom = FALSE
  BY DEF Init
<1>2. Len(s) \in Nat /\ 1 \in 1..(Len(s) + 1)
  BY DEF Completion
<1>3. TokensFrom(s)[1] = <<>> \o TokensFrom(s)[1]
  <2>1. <<>> \in Seq({})
    OBVIOUS
  <2> QED BY <1>2, <2>1, TokenMoves
<1>4. Split(s, 1) /\ Piece(s, 1) /\ 1 \in 1..(pos + 1)
  BY <1>1, <1>3 DEF Split, Piece, TokensOf
<1> QED BY <1>1, <1>4 DEF Due

LEMMA StepDue == Inv /\ Words /\ AllDue /\ [Next]_vars => AllDue'
<1> SUFFICES ASSUME Inv, Words, AllDue, [Next]_vars, NEW s, Completion(s)' PROVE Due(s)'
  BY DEF AllDue
<1>1. CASE UNCHANGED vars
  <2>1. Completion(s) /\ UNCHANGED <<pos, mode, text, toks, oom>>
    BY <1>1 DEF vars, Completion
  <2> QED BY <2>1, DueKept DEF AllDue
<1> QED BY <1>1, SkipDue, CommentDue, StartDue, WordDue, QuotedDue, EscapeDue,
       PushBackDue DEF Next

\* Every file is cut as the lexical grammar says, whatever its characters are and
\* wherever the memory runs out: each token returned is the one that is due.
THEOREM LexesTheGrammar == Spec => []LexesGrammar
<1>1. Init => Words
  BY DEF Init, Words
<1>2. Inv /\ AllDue => LexesGrammar
  <2> SUFFICES ASSUME Inv, AllDue PROVE LexesGrammar
    OBVIOUS
  <2>1. Completion(read)
    BY DEF Inv, Reading, Completion
  <2>2. Due(read)
    BY <2>1 DEF AllDue
  <2> QED BY <2>2 DEF Due, LexesGrammar
<1> QED BY InitInv, StepInv, StepWords, InitDue, StepDue, <1>1, <1>2, PTL DEF Spec
=============================================================================
