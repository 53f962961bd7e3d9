----------------------------- MODULE Obfuscator -----------------------------
(***************************************************************************)
(* One run of obfuscator.py, which the web service starts for every        *)
(* challenge: the output directory is emptied, files, variables, functions *)
(* and macros get random names, every source file is rewritten, and        *)
(* output_dict.json, which says what the answer is, is written last.  A    *)
(* call may raise, and the process may be killed, between any two steps.   *)
(*                                                                         *)
(* A text is a sequence of items, each a word and where it stands:         *)
(*   "decl"    where the pattern of build_variable_dictionary finds a name *)
(*   "define"  after #define                                               *)
(*   "code"    any other identifier                                        *)
(*   "tag"     after struct, enum or union and one blank                   *)
(*   "tagdecl" the same, and the pattern finds it as well                  *)
(*   "literal" a string or character literal                               *)
(*   "system"  a header included in angle brackets                         *)
(*   "include" a file included in quotes                                   *)
(*   "comment" a comment from // on, whose word is a sequence of names.    *)
(* Comments between /* and */ and whatever is no word are left out; no     *)
(* literal and no comment holds the beginning of another comment.          *)
(***************************************************************************)
EXTENDS SequencesExt

CONSTANTS Sorted,        \* the file names <<stem, extension>>, as sorted() orders them
          Sources,       \* the input directories: functions from names to texts
          NotVariables,  \* special_cases and the names isupper() is true of
          NotMacros,     \* names that begin with two underscores
          Draws,         \* what random_string may return
          Flag,          \* FLAG
          FlagFile,      \* FLAG_FILE
          Leftover       \* bound: source files an earlier run may have left

IsSequence(s) == s \in Seq({s[i] : i \in DOMAIN s})

\* Names are pairs; texts, and in them the words of comments, are sequences.
ASSUME ObfuscatorAssumption ==
  \A s \in Sources : \A f \in DOMAIN s :
    /\ f = <<f[1], f[2]>> /\ f[2] \in {".c", ".h"}
    /\ IsSequence(s[f])
    /\ \A i \in DOMAIN s[f] : s[f][i].at = "comment" => IsSequence(s[f][i].word)

VARIABLES pc,      \* where main() is, or "done" or "failed"
          dir,     \* output_dir: "absent", "file" or "directory"
          out,     \* its entries: the name, and what is in it
          src,     \* the files of input_dir
          stem,    \* stem_map
          text,    \* file_contents
          dict,    \* shared_dictionary, in the order of its entries
          left,    \* files that are still to be rewritten
          cur,     \* filename, the one that is being rewritten
          k,       \* the entry of the dictionary that is replaced next
          new      \* file_string

vars == <<pc, dir, out, src, stem, text, dict, left, cur, k, new>>

Item(place, word) == [at |-> place, word |-> word]
File(run, whole, s) == [run |-> run, whole |-> whole, text |-> s]
Metadata == <<"output_dict", ".json">>
Makefile == <<"Makefile", "">>

Stems   == {f[1] : f \in DOMAIN src}
Olds    == {dict[i].old : i \in DOMAIN dict}
NewName(f) == <<stem[f[1]], f[2]>>

Init == /\ pc = "begin" /\ src \in Sources
        /\ \/ dir \in {"absent", "file"} /\ out = <<>>
           \/ /\ dir = "directory"
              /\ \E S \in SUBSET (Leftover \cup {Makefile, Metadata}) :
                   out \in [S -> {File("old", w, <<>>) : w \in BOOLEAN}]
        /\ stem = <<>> /\ text = <<>> /\ dict = <<>>
        /\ left = {} /\ cur = Makefile /\ k = 1 /\ new = <<>>

\* An exception, or the end of the process.
Fail == /\ pc \notin {"done", "failed"}
        /\ pc' = "failed"
        /\ UNCHANGED <<dir, out, src, stem, text, dict, left, cur, k, new>>

\* clear_output_directory and makedirs; os.listdir has no order.
Clear ==
  /\ pc = "begin"
  /\ \/ dir = "file" /\ pc' = "failed" /\ UNCHANGED <<dir, out>>
     \/ \E e \in DOMAIN out :
          /\ out' = [x \in DOMAIN out \ {e} |-> out[x]]
          /\ UNCHANGED <<pc, dir>>
     \/ /\ dir # "file" /\ DOMAIN out = {}
        /\ dir' = "directory" /\ pc' = "copy" /\ UNCHANGED out
  /\ UNCHANGED <<src, stem, text, dict, left, cur, k, new>>

\* A file is opened and emptied, then written; it is whole, or the write fails.
Write(name, s, next) ==
  \E whole \in BOOLEAN :
    /\ out' = [x \in DOMAIN out \cup {name} |->
                  IF x = name THEN File("new", whole, s) ELSE out[x]]
    /\ pc' = IF whole THEN next ELSE "failed"

copy_makefile_if_present ==
  /\ pc = "copy"
  /\ \/ Write(Makefile, <<>>, "name")
     \/ pc' = "name" /\ UNCHANGED out
  /\ UNCHANGED <<dir, src, stem, text, dict, left, cur, k, new>>

build_file_name_map ==
  /\ pc = "name" /\ pc' = "read"
  /\ stem' \in [Stems -> Draws]
  /\ UNCHANGED <<dir, out, src, text, dict, left, cur, k, new>>

\* The comment at j has a text with which the comment at i begins.
Begins(s, j, i) == s[j].at = "comment" /\ IsPrefix(s[j].word, s[i].word)

\* What comment_remover leaves of the item at i.  The text of each comment, from
\* the first on, is removed wherever it stands, also where another comment
\* begins with it; what then remains of that one is code.
Remains(s, i) ==
  IF s[i].at # "comment" THEN <<s[i]>>
    ELSE LET j == CHOOSE j \in DOMAIN s :
                    Begins(s, j, i) /\ \A h \in DOMAIN s : Begins(s, h, i) => j <= h
             rest == SubSeq(s[i].word, Len(s[j].word) + 1, Len(s[i].word))
         IN  [h \in DOMAIN rest |-> Item("code", rest[h])]

comment_remover(s) == FlattenSeq([i \in DOMAIN s |-> Remains(s, i)])

Read == /\ pc = "read" /\ pc' = "collect"
        /\ text' = [f \in DOMAIN src |-> comment_remover(src[f])]
        /\ UNCHANGED <<dir, out, src, stem, dict, left, cur, k, new>>

\* A place is a file, by its number in Sorted, a pass over it, first
\* build_variable_dictionary and then build_macro_dictionary, and an item.
ItemAt(p) == text[Sorted[p[1]]][p[3]]

Finds(p) ==
  \/ p[2] = 1 /\ ItemAt(p).at \in {"decl", "tagdecl"} /\ ItemAt(p).word \notin NotVariables
  \/ p[2] = 2 /\ ItemAt(p).at = "define" /\ ItemAt(p).word \notin NotMacros

\* Where the passes over all files find what the dictionary does not have.
Found(Known) ==
  UNION {{p \in {n} \X {1, 2} \X DOMAIN text[Sorted[n]] : Finds(p) /\ ItemAt(p).word \notin Known} :
           n \in {m \in DOMAIN Sorted : Sorted[m] \in DOMAIN src}}

Before(p, q) == \/ p[1] < q[1]
                \/ p[1] = q[1] /\ p[2] < q[2]
                \/ p[1] = q[1] /\ p[2] = q[2] /\ p[3] < q[3]

build_dictionary ==
  /\ pc = "collect"
  /\ \E p \in Found(Olds), d \in Draws :
       /\ \A q \in Found(Olds) : p = q \/ Before(p, q)
       /\ dict' = Append(dict, [old |-> ItemAt(p).word, new |-> d])
  /\ UNCHANGED <<pc, dir, out, src, stem, text, left, cur, k, new>>

\* Mutated OutputDict: the file is named as in the input directory.
OutputDictUnmapped ==
  LET entry == CHOOSE i \in DOMAIN dict : dict[i].old = Flag
  IN  <<Item("flag", dict[entry].new), Item("flag_file", FlagFile)>>

OutputDict ==
  LET entry == CHOOSE i \in DOMAIN dict : dict[i].old = Flag
  IN  <<Item("flag", dict[entry].new), Item("flag_file", NewName(FlagFile))>>

\* Mutated find_flag: the metadata is written as soon as it is known.
find_flag_and_write ==
  /\ pc = "collect" /\ Found(Olds) = {}
  /\ IF Flag \in Olds /\ FlagFile \in DOMAIN src
       THEN Write(Metadata, OutputDict, "list") /\ left' = DOMAIN src
       ELSE pc' = "failed" /\ UNCHANGED <<left, out>>
  /\ UNCHANGED <<dir, src, stem, text, dict, cur, k, new>>

\* Mutated find_flag: the flag is taken with get(), as None if it has no entry.
find_flag_or_none ==
  /\ pc = "collect" /\ Found(Olds) = {}
  /\ IF FlagFile \in DOMAIN src
       THEN pc' = "list" /\ left' = DOMAIN src
       ELSE pc' = "failed" /\ UNCHANGED left
  /\ UNCHANGED <<dir, out, src, stem, text, dict, cur, k, new>>

\* Two lookups that raise KeyError.
find_flag ==
  /\ pc = "collect" /\ Found(Olds) = {}
  /\ IF Flag \in Olds /\ FlagFile \in DOMAIN src
       THEN pc' = "list" /\ left' = DOMAIN src
       ELSE pc' = "failed" /\ UNCHANGED left
  /\ UNCHANGED <<dir, out, src, stem, text, dict, cur, k, new>>

\* The files are taken in the order of os.listdir: any.
Open == /\ pc = "list"
        /\ \E f \in left : /\ cur' = f /\ left' = left \ {f}
                           /\ new' = text[f]
        /\ k' = 1 /\ pc' = "rename"
        /\ UNCHANGED <<dir, out, src, stem, text, dict>>

\* Mutated RenamedPlaces: literals are not split off.
RenamedEverywhere == {"decl", "define", "code", "literal"}

RenamedPlaces == {"decl", "define", "code"}

replace_identifiers ==
  /\ pc = "rename" /\ k <= Len(dict)
  /\ new' = [i \in DOMAIN new |->
               IF new[i].at \in RenamedPlaces /\ new[i].word = dict[k].old
                 THEN Item(new[i].at, dict[k].new) ELSE new[i]]
  /\ k' = k + 1
  /\ UNCHANGED <<pc, dir, out, src, stem, text, dict, left, cur>>

rewrite_local_includes(s) ==
  [i \in DOMAIN s |->
     IF s[i].at = "include" /\ s[i].word \in DOMAIN src
       THEN Item("include", NewName(s[i].word)) ELSE s[i]]

WriteFile ==
  /\ pc = "rename" /\ k > Len(dict)
  /\ Write(NewName(cur), rewrite_local_includes(new), "list")
  /\ UNCHANGED <<dir, src, stem, text, dict, left, cur, k, new>>

write_output_dict ==
  /\ pc = "list" /\ left = {}
  /\ Write(Metadata, OutputDict, "done")
  /\ UNCHANGED <<dir, src, stem, text, dict, left, cur, k, new>>

Next == \/ Clear \/ copy_makefile_if_present \/ build_file_name_map \/ Read
        \/ build_dictionary \/ find_flag \/ Open \/ replace_identifiers
        \/ WriteFile \/ write_output_dict \/ Fail

Spec == Init /\ [][Next]_vars

-----------------------------------------------------------------------------

Identifiers == {"decl", "define", "code"}
Names(s)  == {s[i].word : i \in {j \in DOMAIN s : s[j].at \in Identifiers}}
News      == {dict[i].new : i \in DOMAIN dict}

\* Every variable has its type: the dictionary is one, and files are rewritten
\* only when it has the flag and the flag's file is among them (main:285-293).
TypeOK ==
  /\ pc \in {"begin", "copy", "name", "read", "collect", "list", "rename", "done", "failed"}
  /\ dir \in {"absent", "file", "directory"}
  /\ dir # "directory" => out = <<>>
  /\ \A x \in DOMAIN out : out[x].run \in {"old", "new"} /\ out[x].whole \in BOOLEAN
  /\ DOMAIN stem \in {{}, Stems} /\ \A s \in DOMAIN stem : stem[s] \in Draws
  /\ DOMAIN text \in {{}, DOMAIN src}
  /\ News \subseteq Draws
  /\ \A i, j \in DOMAIN dict : dict[i].old = dict[j].old => i = j
  /\ left \subseteq DOMAIN src /\ cur \in DOMAIN src \cup {Makefile}
  /\ k \in 1..(Len(dict) + 1)
  /\ pc \in {"list", "rename"} => Flag \in Olds /\ FlagFile \in DOMAIN src

\* No two stems drew one name, so that every file has a name of its own.
StemsApart == \A s, t \in DOMAIN stem : stem[s] = stem[t] => s = t

\* random_string gave no name twice and none that the sources have already.
Fresh ==
  /\ \A i, j \in DOMAIN dict : dict[i].new = dict[j].new => i = j
  /\ News \cap Olds = {} /\ \A f \in DOMAIN text : News \cap Names(text[f]) = {}
  /\ StemsApart

\* The files that this run has written whole.
Written == {f \in DOMAIN src : /\ DOMAIN stem # {} /\ NewName(f) \in DOMAIN out
                               /\ out[NewName(f)].run = "new" /\ out[NewName(f)].whole}
Result(f) == out[NewName(f)].text

\* Of a file: every word has its place, an include names the file that its
\* target became, and literals, struct tags and headers are what they were.
PlacesKept(f) ==
  /\ DOMAIN Result(f) = DOMAIN text[f]
  /\ \A i \in DOMAIN text[f] : LET a == text[f][i]  b == Result(f)[i] IN
       /\ b.at = a.at
       /\ a.at = "include" =>
            b.word = IF a.word \in DOMAIN src THEN NewName(a.word) ELSE a.word
       /\ a.at \notin Identifiers \cup {"include"} => b.word = a.word

\* Of two files: two identifiers are the same word if and only if they were.
NamesKept(f, g) ==
  \A i \in DOMAIN text[f], j \in DOMAIN text[g] :
    text[f][i].at \in Identifiers /\ text[g][j].at \in Identifiers =>
      (Result(f)[i].word = Result(g)[j].word <=> text[f][i].word = text[g][j].word)

\* Fresh names rename and do nothing else, within a file and across files, so
\* that the output is the same program (variable_renamer_with_dictionary,
\* rewrite_local_includes; readme.md:46 says that it can be compiled).
RenamingFaithful ==
  Fresh => \A f \in Written : PlacesKept(f) /\ \A g \in Written : NamesKept(f, g)

\* No comment is the beginning of a later one in its file.
CommentsApart ==
  \A f \in DOMAIN src : \A i, j \in DOMAIN src[f] :
    /\ i < j /\ src[f][i].at = "comment" /\ src[f][j].at = "comment"
    => ~IsStrictPrefix(src[f][i].word, src[f][j].word)

\* The program text of an input file.
Program(f) ==
  FlattenSeq([i \in DOMAIN src[f] |-> IF src[f][i].at = "comment" THEN <<>> ELSE <<src[f][i]>>])

Committed == Metadata \in DOMAIN out /\ out[Metadata].whole

\* With fresh names, the file that the metadata names is what became of
\* FLAG_FILE, and in the program that is written the answer stands where FLAG
\* stood in the program that was read, and nowhere else (main:278-305).
AnswerRight ==
  Fresh /\ CommentsApart /\ Committed /\ out[Metadata].run = "new" =>
    LET answer == out[Metadata].text[1].word  file == out[Metadata].text[2].word IN
      /\ file = NewName(FlagFile)
      /\ \A f \in DOMAIN src :
           /\ DOMAIN Result(f) = DOMAIN Program(f)
           /\ \A i \in DOMAIN Program(f) :
                Program(f)[i].at \in Identifiers =>
                  (Result(f)[i].word = answer <=> Program(f)[i].word = Flag)

\* Whenever the process ends or is killed, readable metadata is of the run that
\* the files beside it are of.  If that is this run, all of them are whole and
\* there is one for every source file, unless two stems drew one name: then a
\* file of the one may have replaced a file of the other, which is missing.  If
\* it is an earlier run, some of its files may have been removed already
\* (clear_output_directory:219, main:299, write_output_dict:305).
CommitLast ==
  /\ Committed /\ out[Metadata].run = "old" => \A x \in DOMAIN out : out[x].run = "old"
  /\ Committed /\ out[Metadata].run = "new" =>
       /\ \A x \in DOMAIN out : out[x].run = "new" /\ out[x].whole
       /\ StemsApart =>
            /\ \A f \in DOMAIN src : NewName(f) \in DOMAIN out
            /\ \A f, g \in DOMAIN src : NewName(f) = NewName(g) => f = g
  /\ pc = "done" => Committed
=============================================================================
