--------------------------- MODULE MCObfuscator ---------------------------
(***************************************************************************)
(* Three small source files in the manner of configloader: one with the    *)
(* flag, its header of the same stem, and a main file that uses them.      *)
(***************************************************************************)
EXTENDS Obfuscator

CONSTANTS flag, helper, node, guard, write, INT, DUNDER,   \* names of the sources
          x, y, z, u,                                      \* fresh names
          main, ser                                        \* stems

FlagC   == <<ser, ".c">>
FlagH   == <<ser, ".h">>
MainC   == <<main, ".c">>
Missing == <<write, ".h">>

MCSorted   == <<MainC, FlagC, FlagH>>
MCLeftover == {<<u, ".c">>}
MCNotVariables == {INT}
MCNotMacros    == {DUNDER}
MCDraws    == {x, y, z, write}
Symmetric  == Permutations({x, y, z})

I(place, word) == Item(place, word)

\* The file of the flag: as it should be, with a tag and a typedef of one name,
\* with the flag used and not defined, and with one comment that begins another.
FlagFiles ==
  { <<I("include", FlagH), I("decl", flag), I("code", write), I("literal", flag)>>,
    <<I("decl", flag), I("tagdecl", node), I("decl", node), I("tag", node), I("tag", INT)>>,
    <<I("decl", INT), I("code", flag), I("literal", write)>>,
    <<I("comment", <<flag>>), I("decl", flag), I("comment", <<flag, write>>)>>,
    <<I("comment", <<flag, write>>), I("decl", flag), I("comment", <<flag>>)>> }

\* The header: none, one with an include guard, one that declares.
Headers == { <<>>, <<I("define", guard), I("define", DUNDER), I("code", guard)>>,
             <<I("decl", flag), I("define", DUNDER), I("system", flag)>> }

\* The main file: it calls the flag's function and a library's, includes the
\* header and a file that is not there.
MainFiles ==
  { <<I("include", FlagH), I("code", flag), I("decl", helper), I("code", helper)>>,
    <<I("include", Missing), I("decl", write), I("code", node), I("tag", write)>> }

MCSources ==
  {(FlagC :> c) @@ (FlagH :> h) @@ (MainC :> m) : c \in FlagFiles, h \in Headers, m \in MainFiles}
  \cup {(FlagH :> h) @@ (MainC :> m) : h \in Headers, m \in MainFiles}
===========================================================================
