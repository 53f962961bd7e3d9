-------------------------------- MODULE MCText --------------------------------
(***************************************************************************)
(* Trees for the runs of Text: every text the parser can put into a tree   *)
(* and the serializer may mistake, as a name and as an argument.           *)
(***************************************************************************)
EXTENDS Text

MCOrdinary == {"n", "t", "main", "(null)"}

MCTexts == {<<"n">>, <<"backslash", "t">>, Main, <<"n", "space">>, <<"newline">>,
            <<"{">>, <<"n", ";">>, <<"#", "n">>, <<"dquote", "n", "dquote">>, <<>>}
MCWords == MCTexts \ {<<>>}
MCArgs  == {<<>>, <<<<"t">>, NullText>>} \cup {<<t>> : t \in MCTexts}
                \cup {<<<<"n">>, t>> : t \in MCTexts}

MCStatement(n, a)  == [name |-> n, args |-> a, dirs |-> <<>>, subs |-> <<>>]
MCBlock(n, a, d, s) == [name |-> n, args |-> a, dirs |-> d, subs |-> s]

MCDirectives == {MCStatement(n, a) : n \in MCWords, a \in MCArgs}
MCSome       == {MCStatement(<<"n">>, <<>>), MCStatement(Main, <<<<"n">>, <<"t">>>>)}
MCInner      == {MCBlock(n, a, <<>>, <<>>) : n \in MCWords, a \in MCArgs}
MCFew        == {MCBlock(<<"t">>, <<<<"n">>>>, <<x>>, <<>>) : x \in MCSome} \cup {MCBlock(Main, <<>>, <<>>, <<>>)}

\* A directive of any kind; a subblock of any kind beside a directive and
\* around another subblock; and two of each.
MCTrees ==
  {MCBlock(Main, <<>>, <<d>>, <<>>) : d \in MCDirectives}
  \cup {MCBlock(Main, <<>>, d, <<b>>) : d \in {<<>>} \cup {<<x>> : x \in MCSome}, b \in MCInner}
  \cup {MCBlock(Main, <<>>, <<d, e>>, <<MCBlock(n, <<>>, <<e>>, <<b, c>>)>>) :
          d \in MCSome, e \in MCSome, n \in {<<"n">>, Main}, b \in MCFew, c \in MCFew}

\* What was written, quoted words with escapes, and words that grow the buffer.
MCFiles ==
  WrittenFiles
  \cup {<<q, "backslash", c, d, q>> : q \in Quotes, c \in Chars, d \in Chars}
  \cup {[k \in 1..j |-> "n"] : j \in 5..9}
=============================================================================
