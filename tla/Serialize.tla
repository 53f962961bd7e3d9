------------------------------ MODULE Serialize ------------------------------
(***************************************************************************)
(* config_serialize: the characters it writes for a tree.  A tree is a     *)
(* record of its name, arguments, directives and subblocks; a text is a    *)
(* sequence of characters.  The symbol "main" stands for its four letters, *)
(* "(null)" for what printf writes for a NULL argument, and one blank for  *)
(* INDENT_BY.                                                              *)
(***************************************************************************)
EXTENDS Naturals, Sequences
LOCAL INSTANCE SequencesExt

NullText == <<"NULL">>
Main     == <<"main">>

\* A text as %s prints it, and a line of them.
Printed(t) == IF t = NullText THEN <<"(null)">> ELSE t
Spaced(ts) == FlattenSeq([k \in 1..Len(ts) |-> Printed(ts[k]) \o <<"space">>])

indent(level) == [k \in 1..level |-> "space"]

\* Mutated serialize_directive: no blank between the last two arguments.
serialize_directive_tight(d, level) ==
  indent(level) \o Printed(d.name)
  \o FlattenSeq([k \in 1..Len(d.args) |->
                   IF k > 1 /\ k = Len(d.args) THEN Printed(d.args[k])
                   ELSE <<"space">> \o Printed(d.args[k])])
  \o <<";", "newline">>

\* "name;" or "name arg arg;".
serialize_directive(d, level) ==
  indent(level) \o Printed(d.name)
  \o FlattenSeq([k \in 1..Len(d.args) |-> <<"space">> \o Printed(d.args[k])])
  \o <<";", "newline">>

\* The directives, a blank line after them, then the subblocks.  A block named
\* main, wherever it stands, has no header, no braces and no indentation.
RECURSIVE serialize_block(_, _)
serialize_block(b, level) ==
  LET inner == IF b.name = Main THEN level ELSE level + 1
      contents == FlattenSeq([k \in 1..Len(b.dirs) |-> serialize_directive(b.dirs[k], inner)])
                  \o (IF b.dirs = <<>> THEN <<>> ELSE <<"newline">>)
                  \o FlattenSeq([k \in 1..Len(b.subs) |-> serialize_block(b.subs[k], inner)])
  IN IF b.name = Main THEN contents
     ELSE indent(level) \o Spaced(<<b.name>> \o b.args) \o <<"{", "newline">>
          \o contents \o indent(level) \o <<"}", "newline">>

config_serialize(b) == serialize_block(b, 0)
=============================================================================
