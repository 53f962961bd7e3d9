-------------------------- MODULE ObfuscatorProofs --------------------------
(***************************************************************************)
(* What holds of the obfuscator for any input directories and whatever     *)
(* random_string draws: its metadata is written last (CommitLast), fresh   *)
(* names change nothing but the names (RenamingFaithful), and the          *)
(* answer stands where the flag stood (AnswerRight).  Which names are      *)
(* found is taken as given: no proof depends on it.                        *)
(***************************************************************************)
EXTENDS Obfuscator, Induction

USE DEF File, Item

\* The stages after the directory is emptied, and those that have all names.
Empty  == {"copy", "name", "read", "collect"}
Filled == {"list", "rename", "done"}

OldOnly == \A x \in DOMAIN out : out[x].run = "old"
NewOnly == \A x \in DOMAIN out : out[x].run = "new"
AllWhole == \A x \in DOMAIN out : out[x].whole

Stage ==
  /\ pc \in {"begin", "failed"} \cup Empty \cup Filled
  /\ src \in Sources
  /\ pc = "begin" => OldOnly
  /\ pc \in Empty => NewOnly /\ AllWhole /\ DOMAIN out \subseteq {Makefile}
  /\ pc \in Filled => NewOnly /\ AllWhole /\ FlagFile \in DOMAIN src
  /\ pc = "failed" => OldOnly \/ NewOnly
  /\ pc \in {"read", "collect"} \cup Filled => DOMAIN stem = Stems
  /\ pc \in {"list", "rename"} => left \subseteq DOMAIN src
  /\ pc = "rename" => cur \in DOMAIN src

\* Files are whole as soon as they are neither to be taken nor in hand.
Progress ==
  /\ pc = "list" => DOMAIN src \ left \subseteq Written
  /\ pc = "rename" => DOMAIN src \ (left \cup {cur}) \subseteq Written
  /\ pc = "done" => Committed /\ Written = DOMAIN src
  /\ Committed => OldOnly \/ pc = "done"

CommitInv == Stage /\ Progress

\* A source file gets a name that is neither the metadata's nor the Makefile's.
LEMMA NamesApart ==
  ASSUME Stage, NEW f \in DOMAIN src
  PROVE  /\ NewName(f) # Metadata /\ NewName(f) # Makefile /\ Metadata # Makefile
         /\ f = <<f[1], f[2]>> /\ f[1] \in Stems
BY ObfuscatorAssumption DEF Stage, NewName, Metadata, Makefile, Stems

LEMMA CommitInit == Init => CommitInv
<1> SUFFICES ASSUME Init PROVE CommitInv
  OBVIOUS
<1>1. OldOnly
  BY DEF Init, OldOnly
<1> QED BY <1>1 DEF Init, CommitInv, Stage, Progress, Empty, Filled

\* What writing one file does to the files written before.
LEMMA WriteKeeps ==
  ASSUME NEW name, NEW s, NEW next, Write(name, s, next), NewOnly,
         src' = src, stem' = stem
  PROVE  /\ NewOnly'
         /\ DOMAIN out' = DOMAIN out \cup {name}
         /\ pc' = next \/ pc' = "failed"
         /\ pc' = "failed" \/ out'[name] = File("new", TRUE, s)
         /\ AllWhole /\ next # "failed" /\ pc' # "failed" => AllWhole'
         /\ \A x \in DOMAIN out : x # name => out'[x] = out[x]
         /\ next # "failed" /\ pc' # "failed" => Written \subseteq Written'
<1>1. PICK whole \in BOOLEAN :
        /\ out' = [x \in DOMAIN out \cup {name} |->
                     IF x = name THEN File("new", whole, s) ELSE out[x]]
        /\ pc' = IF whole THEN next ELSE "failed"
  BY DEF Write
<1>2. NewOnly' BY <1>1 DEF NewOnly
<1>3. ASSUME pc' # "failed" PROVE Written \subseteq Written'
  <2>1. whole = TRUE BY <1>1, <1>3
  <2> QED BY <1>1, <2>1 DEF Written, NewName, Stems
<1>4. ASSUME AllWhole, pc' # "failed" PROVE AllWhole'
  <2>1. whole = TRUE BY <1>1, <1>4
  <2> QED BY <1>1, <1>4, <2>1 DEF AllWhole
<1> QED BY <1>1, <1>2, <1>3, <1>4

LEMMA CommitClear == CommitInv /\ Clear => CommitInv'
<1> SUFFICES ASSUME CommitInv, Clear PROVE CommitInv'
  OBVIOUS
<1> USE DEF Empty, Filled
<1>1. CASE dir = "file" /\ pc' = "failed" /\ UNCHANGED <<dir, out>>
  BY <1>1 DEF CommitInv, Stage, Progress, Clear, OldOnly, NewOnly, Committed, Stems
<1>2. ASSUME NEW e \in DOMAIN out, out' = [x \in DOMAIN out \ {e} |-> out[x]], UNCHANGED <<pc, dir>>
      PROVE  CommitInv'
  <2>1. pc = "begin" /\ pc' = "begin" /\ OldOnly /\ src \in Sources /\ src' = src
    BY <1>2 DEF Clear, CommitInv, Stage
  <2>2. OldOnly' BY <1>2, <2>1 DEF OldOnly
  <2> QED BY <2>1, <2>2 DEF CommitInv, Stage, Progress
<1>3. CASE dir # "file" /\ DOMAIN out = {} /\ dir' = "directory" /\ pc' = "copy" /\ UNCHANGED out
  BY <1>3 DEF CommitInv, Stage, Progress, Clear, NewOnly, AllWhole, Committed
<1> QED BY <1>1, <1>2, <1>3 DEF Clear

LEMMA CommitCopy == CommitInv /\ copy_makefile_if_present => CommitInv'
<1> SUFFICES ASSUME CommitInv, copy_makefile_if_present PROVE CommitInv'
  OBVIOUS
<1>0. /\ pc = "copy" /\ src \in Sources /\ src' = src /\ stem' = stem
      /\ NewOnly /\ AllWhole /\ DOMAIN out \subseteq {Makefile}
  BY DEF CommitInv, Stage, copy_makefile_if_present, Empty
<1>1. CASE pc' = "name" /\ UNCHANGED out
  BY <1>0, <1>1 DEF CommitInv, Stage, Progress, Empty, Filled, NewOnly, AllWhole, Committed,
                      Makefile, Metadata
<1>2. CASE Write(Makefile, <<>>, "name")
  <2>1. /\ NewOnly' /\ DOMAIN out' = {Makefile} /\ pc' \in {"name", "failed"}
        /\ pc' = "name" => AllWhole'
    BY <1>0, <1>2, WriteKeeps
  <2>2. ~Committed'
    BY <2>1 DEF Committed, Makefile, Metadata
  <2> QED BY <1>0, <2>1, <2>2 DEF CommitInv, Stage, Progress, Empty, Filled
<1> QED BY <1>1, <1>2 DEF copy_makefile_if_present

\* The steps between the Makefile and the first source file.
LEMMA CommitNames ==
  CommitInv /\ (build_file_name_map \/ Read \/ build_dictionary \/ find_flag) => CommitInv'
<1> SUFFICES ASSUME CommitInv, build_file_name_map \/ Read \/ build_dictionary \/ find_flag
             PROVE  CommitInv'
  OBVIOUS
<1>1. /\ pc \in Empty /\ src \in Sources /\ src' = src /\ out' = out
      /\ NewOnly /\ AllWhole /\ DOMAIN out \subseteq {Makefile}
      /\ pc' \in Empty \cup {"list", "failed"}
      /\ pc' = "list" => left' = DOMAIN src /\ FlagFile \in DOMAIN src
      /\ pc' \in {"read", "collect", "list"} => DOMAIN stem' = Stems
  BY DEF CommitInv, Stage, build_file_name_map, Read, build_dictionary, find_flag, Empty
<1>2. NewOnly' /\ AllWhole' /\ Stems' = Stems /\ ~Committed'
  BY <1>1 DEF NewOnly, AllWhole, Stems, Committed, Makefile, Metadata
<1> QED BY <1>1, <1>2 DEF CommitInv, Stage, Progress, Empty, Filled

LEMMA CommitOpen == CommitInv /\ Open => CommitInv'
<1> SUFFICES ASSUME CommitInv, Open PROVE CommitInv'
  OBVIOUS
<1>1. /\ pc = "list" /\ pc' = "rename"
      /\ UNCHANGED <<dir, out, src, stem, text, dict>>
      /\ cur' \in left /\ left' = left \ {cur'}
      /\ NewOnly /\ AllWhole /\ FlagFile \in DOMAIN src
      /\ DOMAIN stem = Stems /\ src \in Sources
      /\ left \subseteq DOMAIN src
      /\ DOMAIN src \ left \subseteq Written /\ (Committed => OldOnly)
  BY DEF Open, CommitInv, Stage, Progress, Filled
<1>2. /\ NewOnly' /\ AllWhole' /\ Stems' = Stems /\ Written' = Written
      /\ (Committed' => OldOnly')
  BY <1>1 DEF NewOnly, AllWhole, OldOnly, Stems, Written, NewName, Committed
<1>3. cur' \in DOMAIN src /\ left' \subseteq DOMAIN src
  BY <1>1
<1> QED BY <1>1, <1>2, <1>3 DEF CommitInv, Stage, Progress, Empty, Filled

LEMMA CommitRename == CommitInv /\ replace_identifiers => CommitInv'
<1> SUFFICES ASSUME CommitInv, replace_identifiers PROVE CommitInv'
  OBVIOUS
<1>1. pc = "rename" /\ UNCHANGED <<pc, dir, out, src, stem, text, dict, left, cur>>
  BY DEF replace_identifiers
<1>2. /\ (NewOnly => NewOnly') /\ (AllWhole => AllWhole') /\ Stems' = Stems /\ Written' = Written
      /\ (Committed' => Committed) /\ (OldOnly => OldOnly')
  BY <1>1 DEF NewOnly, AllWhole, OldOnly, Stems, Written, NewName, Committed
<1> QED BY <1>1, <1>2 DEF CommitInv, Stage, Progress, Empty, Filled

\* A metadata file of this run cannot be there yet, whoever is old or new.
LEMMA NotCommitted ==
  ASSUME Stage, Progress, pc \in {"list", "rename"} PROVE ~Committed
BY DEF Stage, Progress, Filled, NewOnly, OldOnly, Committed

LEMMA CommitWriteFile == CommitInv /\ WriteFile => CommitInv'
<1> SUFFICES ASSUME CommitInv, WriteFile PROVE CommitInv'
  OBVIOUS
<1> DEFINE s == rewrite_local_includes(new)
<1>1. /\ pc = "rename" /\ UNCHANGED <<dir, src, stem, text, dict, left, cur, k, new>>
      /\ Write(NewName(cur), s, "list")
  BY DEF WriteFile
<1>2. /\ NewOnly /\ AllWhole /\ FlagFile \in DOMAIN src
      /\ DOMAIN stem = Stems /\ src \in Sources
      /\ left \subseteq DOMAIN src /\ cur \in DOMAIN src
      /\ DOMAIN src \ (left \cup {cur}) \subseteq Written
  BY <1>1 DEF CommitInv, Stage, Progress, Filled
<1>3. ~Committed /\ NewName(cur) # Metadata /\ Stems # {}
  BY <1>1, <1>2, NotCommitted, NamesApart DEF CommitInv
<1> HIDE DEF s
<1>4. /\ NewOnly' /\ DOMAIN out' = DOMAIN out \cup {NewName(cur)}
      /\ pc' \in {"list", "failed"} /\ (pc' # "failed" => AllWhole')
      /\ pc' = "failed" \/ out'[NewName(cur)] = File("new", TRUE, s)
      /\ \A x \in DOMAIN out : x # NewName(cur) => out'[x] = out[x]
      /\ pc' # "failed" => Written \subseteq Written'
  <2>1. src' = src /\ stem' = stem BY <1>1
  <2>2. "list" # "failed" OBVIOUS
  <2> QED BY <1>1, <1>2, <2>1, <2>2, WriteKeeps
<1>5. ~Committed'
  BY <1>3, <1>4 DEF Committed, Metadata
<1>6. Stems' = Stems
  BY <1>1 DEF Stems
<1>7. pc' = "list" => cur \in Written'
  BY <1>1, <1>2, <1>3, <1>4 DEF Written, NewName
<1> QED BY <1>1, <1>2, <1>4, <1>5, <1>6, <1>7 DEF CommitInv, Stage, Progress, Empty, Filled

LEMMA CommitWriteDict == CommitInv /\ write_output_dict => CommitInv'
<1> SUFFICES ASSUME CommitInv, write_output_dict PROVE CommitInv'
  OBVIOUS
<1> DEFINE s == OutputDict
<1>1. /\ pc = "list" /\ left = {} /\ UNCHANGED <<dir, src, stem, text, dict, left, cur, k, new>>
      /\ Write(Metadata, s, "done")
  BY DEF write_output_dict
<1> HIDE DEF s
<1>2. /\ NewOnly /\ AllWhole /\ FlagFile \in DOMAIN src
      /\ DOMAIN stem = Stems /\ src \in Sources
      /\ DOMAIN src \subseteq Written
  BY <1>1 DEF CommitInv, Stage, Progress, Filled
<1>3. /\ NewOnly' /\ DOMAIN out' = DOMAIN out \cup {Metadata}
      /\ pc' \in {"done", "failed"} /\ (pc' # "failed" => AllWhole')
      /\ pc' = "failed" \/ out'[Metadata] = File("new", TRUE, s)
      /\ pc' # "failed" => Written \subseteq Written'
  <2>1. src' = src /\ stem' = stem BY <1>1
  <2>2. "done" # "failed" OBVIOUS
  <2> QED BY <1>1, <1>2, <2>1, <2>2, WriteKeeps
<1>4. pc' = "done" => Committed' /\ Written' = (DOMAIN src)'
  <2>1. src' = src /\ Written' \subseteq DOMAIN src' BY <1>1 DEF Written
  <2>2. pc' = "done" => Committed' BY <1>3 DEF Committed
  <2> QED BY <1>2, <1>3, <2>1, <2>2
<1>5. pc' = "failed" => ~Committed'
  <2>1. PICK whole \in BOOLEAN :
          /\ out' = [x \in DOMAIN out \cup {Metadata} |->
                       IF x = Metadata THEN File("new", whole, s) ELSE out[x]]
          /\ pc' = IF whole THEN "done" ELSE "failed"
    BY <1>1 DEF Write
  <2>2. out'[Metadata] = File("new", whole, s) BY <2>1
  <2>3. ASSUME pc' = "failed" PROVE ~whole BY <2>1, <2>3
  <2> QED BY <2>2, <2>3 DEF Committed
<1>6. Stems' = Stems
  BY <1>1 DEF Stems
<1> QED BY <1>1, <1>2, <1>3, <1>4, <1>5, <1>6 DEF CommitInv, Stage, Progress, Empty, Filled

LEMMA CommitFail == CommitInv /\ Fail => CommitInv'
<1> SUFFICES ASSUME CommitInv, Fail PROVE CommitInv'
  OBVIOUS
<1>1. /\ pc # "done" /\ pc' = "failed"
      /\ UNCHANGED <<dir, out, src, stem, text, dict, left, cur, k, new>>
      /\ OldOnly \/ NewOnly \/ pc = "failed"
  BY DEF Fail, CommitInv, Stage, Empty, Filled
<1>2. /\ (OldOnly => OldOnly') /\ (NewOnly => NewOnly') /\ (Committed' => Committed)
  BY <1>1 DEF OldOnly, NewOnly, Committed
<1> QED BY <1>1, <1>2 DEF CommitInv, Stage, Progress, Empty, Filled, Fail

LEMMA CommitStutter == CommitInv /\ UNCHANGED vars => CommitInv'
<1> SUFFICES ASSUME CommitInv, UNCHANGED vars PROVE CommitInv'
  OBVIOUS
<1>1. /\ OldOnly' = OldOnly /\ NewOnly' = NewOnly /\ Committed' = Committed
      /\ Written' = Written /\ Stems' = Stems /\ AllWhole' = AllWhole
  BY DEF vars, AllWhole, OldOnly, NewOnly, Committed, Written, NewName, Stems
<1> QED BY <1>1 DEF vars, CommitInv, Stage, Progress

LEMMA CommitInvariant == Spec => []CommitInv
<1>1. CommitInv /\ [Next]_vars => CommitInv'
  BY CommitClear, CommitCopy, CommitNames, CommitOpen, CommitRename,
     CommitWriteFile, CommitWriteDict, CommitFail, CommitStutter DEF Next
<1> QED BY CommitInit, <1>1, PTL DEF Spec

\* Whenever the obfuscator ends or is killed, readable metadata and every file
\* beside it are of one run; if it is this run, they are whole, and there is one
\* for every source file if no two stems drew one name (main:299-305).
THEOREM MetadataCommits == Spec => []CommitLast
<1>1. CommitInv => CommitLast
  <2> SUFFICES ASSUME CommitInv PROVE CommitLast
    OBVIOUS
  <2>1. CASE Committed /\ pc # "done"
    BY <2>1 DEF CommitInv, Progress, OldOnly, CommitLast, Committed
  <2>2. CASE Committed /\ pc = "done"
    <3>1. NewOnly /\ AllWhole /\ Written = DOMAIN src
      BY <2>2 DEF CommitInv, Progress, Stage, Filled
    <3>2. ASSUME NEW f \in DOMAIN src PROVE NewName(f) \in DOMAIN out
      BY <3>1 DEF Written
    <3>3. ASSUME StemsApart, NEW f \in DOMAIN src, NEW g \in DOMAIN src, NewName(f) = NewName(g)
          PROVE  f = g
      <4>1. /\ f = <<f[1], f[2]>> /\ f[1] \in Stems /\ g = <<g[1], g[2]>> /\ g[1] \in Stems
        BY NamesApart DEF CommitInv
      <4>2. DOMAIN stem = Stems BY <2>2 DEF CommitInv, Stage, Filled
      <4>3. stem[f[1]] = stem[g[1]] /\ f[2] = g[2] BY <3>3 DEF NewName
      <4>4. f[1] = g[1] BY <3>3, <4>1, <4>2, <4>3 DEF StemsApart
      <4> QED BY <4>1, <4>3, <4>4
    <3> QED BY <2>2, <3>1, <3>2, <3>3 DEF NewOnly, AllWhole, CommitLast, Committed
  <2> QED BY <2>1, <2>2 DEF CommitLast, CommitInv, Progress
<1> QED BY <1>1, CommitInvariant, PTL

-----------------------------------------------------------------------------

\* What the first n - 1 entries of the dictionary, one after the other, make of
\* an identifier w if all names are fresh: the first entry for w replaces it and
\* no other entry touches it.
Mapped(w, v, n) ==
  \/ \E j \in DOMAIN dict : /\ j < n /\ dict[j].old = w /\ dict[j].new = v
                            /\ \A i \in DOMAIN dict : i < j => dict[i].old # w
  \/ v = w /\ \A j \in DOMAIN dict : j < n => dict[j].old # w

\* A text s became r, up to its includes, after n - 1 entries.
Renamed(s, r, n) ==
  /\ DOMAIN r = DOMAIN s
  /\ \A i \in DOMAIN s :
       /\ r[i].at = s[i].at
       /\ s[i].at \in Identifiers => Mapped(s[i].word, r[i].word, n)
       /\ s[i].at \notin Identifiers => r[i].word = s[i].word

Finished(f) ==
  /\ f \in DOMAIN text /\ PlacesKept(f)
  /\ \A i \in DOMAIN text[f] : text[f][i].at \in Identifiers =>
       Mapped(text[f][i].word, Result(f)[i].word, Len(dict) + 1)

DictIsSeq == \E S : dict \in Seq(S)

Counting ==
  /\ DictIsSeq /\ k \in Nat \ {0}
  /\ pc \in {"collect"} \cup Filled => DOMAIN text = DOMAIN src

InHand == pc = "rename" /\ Fresh => Renamed(text[cur], new, k)
AllFinished == Fresh => \A f \in Written : Finished(f)

RenameInv == Counting /\ InHand /\ AllFinished

LEMMA DictRange ==
  ASSUME DictIsSeq PROVE Len(dict) \in Nat /\ DOMAIN dict = 1..Len(dict)
BY DEF DictIsSeq

\* One more entry of the dictionary.
LEMMA MapStep ==
  ASSUME Fresh, DictIsSeq, k \in Nat \ {0}, k <= Len(dict), NEW w, NEW v, Mapped(w, v, k)
  PROVE  IF v = dict[k].old THEN Mapped(w, dict[k].new, k + 1) ELSE Mapped(w, v, k + 1)
<1>0. k \in DOMAIN dict /\ DOMAIN dict \subseteq Nat
  BY DictRange
<1>1. ASSUME NEW j \in DOMAIN dict, j < k, dict[j].old = w, dict[j].new = v,
             \A i \in DOMAIN dict : i < j => dict[i].old # w
      PROVE  v # dict[k].old /\ Mapped(w, v, k + 1)
  <2>1. v \in News /\ dict[k].old \in Olds BY <1>0, <1>1 DEF News, Olds
  <2>2. v # dict[k].old BY <2>1 DEF Fresh
  <2>3. j < k + 1 BY <1>0, <1>1
  <2> QED BY <1>1, <2>2, <2>3 DEF Mapped
<1>2. ASSUME v = w, \A j \in DOMAIN dict : j < k => dict[j].old # w
      PROVE  IF v = dict[k].old THEN Mapped(w, dict[k].new, k + 1) ELSE Mapped(w, v, k + 1)
  <2>1. \A j \in DOMAIN dict : j < k + 1 => j < k \/ j = k
    BY <1>0
  <2>2. CASE v = dict[k].old
    <3>1. k < k + 1 BY <1>0
    <3> QED BY <1>0, <1>2, <2>2, <3>1 DEF Mapped
  <2>3. CASE v # dict[k].old
    BY <1>2, <2>1, <2>3 DEF Mapped
  <2> QED BY <2>2, <2>3
<1> QED BY <1>1, <1>2 DEF Mapped

\* With all entries applied, fresh names keep identifiers equal and apart.
LEMMA MapInjective ==
  ASSUME Fresh, DictIsSeq, NEW a, NEW b, a \notin News, b \notin News, NEW c, NEW d,
         Mapped(a, c, Len(dict) + 1), Mapped(b, d, Len(dict) + 1)
  PROVE  c = d <=> a = b
<1> DEFINE First(w, v, j) == /\ dict[j].old = w /\ dict[j].new = v
                             /\ \A i \in DOMAIN dict : i < j => dict[i].old # w
           Kept(w, v) == v = w /\ \A j \in DOMAIN dict : dict[j].old # w
<1>0. Len(dict) \in Nat /\ DOMAIN dict = 1..Len(dict)
  BY DictRange
<1>1. /\ (\E j \in DOMAIN dict : First(a, c, j)) \/ Kept(a, c)
      /\ (\E j \in DOMAIN dict : First(b, d, j)) \/ Kept(b, d)
  <2>1. \A j \in DOMAIN dict : j < Len(dict) + 1 BY <1>0
  <2> QED BY <2>1 DEF Mapped
<1>3. \A j \in DOMAIN dict : dict[j].new \in News
  BY DEF News
<1>4. ASSUME NEW i \in DOMAIN dict, First(a, c, i), NEW j \in DOMAIN dict, First(b, d, j)
      PROVE  c = d <=> a = b
  <2>1. c = d => i = j BY <1>4 DEF Fresh
  <2>2. a = b => i = j
    <3>1. ASSUME a = b PROVE ~(i < j) /\ ~(j < i) BY <1>4, <3>1
    <3> QED BY <1>0, <3>1
  <2> QED BY <1>4, <2>1, <2>2
<1>5. ASSUME NEW i \in DOMAIN dict, First(a, c, i), Kept(b, d) PROVE c # d /\ a # b
  BY <1>3, <1>5
<1>6. ASSUME Kept(a, c), NEW j \in DOMAIN dict, First(b, d, j) PROVE c # d /\ a # b
  BY <1>3, <1>6
<1> HIDE DEF First
<1> QED BY <1>1, <1>4, <1>5, <1>6

LEMMA RenameInit == Init => RenameInv
<1> SUFFICES ASSUME Init PROVE RenameInv
  OBVIOUS
<1>1. dict \in Seq({}) /\ k = 1 /\ pc = "begin" /\ DOMAIN stem = {}
  BY DEF Init
<1>2. Written = {}
  BY <1>1 DEF Written
<1> QED BY <1>1, <1>2 DEF RenameInv, Counting, DictIsSeq, InHand, AllFinished, Filled

\* Before the first source file is written there is none to speak of.
LEMMA NoneWritten == Stage /\ pc \in {"begin"} \cup Empty => Written = {}
<1> SUFFICES ASSUME Stage, pc \in {"begin"} \cup Empty, NEW f \in Written PROVE FALSE
  OBVIOUS
<1>1. f \in DOMAIN src /\ NewName(f) \in DOMAIN out /\ out[NewName(f)].run = "new"
  BY DEF Written
<1>2. CASE pc = "begin"
  BY <1>1, <1>2 DEF Stage, OldOnly
<1>3. CASE pc \in Empty
  BY <1>1, <1>3, NamesApart DEF Stage
<1> QED BY <1>2, <1>3

\* The steps that take place before.
LEMMA RenameEarly ==
  CommitInv /\ CommitInv' /\ RenameInv
    /\ (Clear \/ copy_makefile_if_present \/ build_file_name_map \/ Read)
  => RenameInv'
<1> SUFFICES ASSUME CommitInv, CommitInv', RenameInv,
                    Clear \/ copy_makefile_if_present \/ build_file_name_map \/ Read
             PROVE  RenameInv'
  OBVIOUS
<1> USE DEF Empty, Filled
<1>1. /\ pc \in {"begin"} \cup Empty /\ dict' = dict /\ k' = k
      /\ pc' \in {"begin", "failed"} \cup Empty
      /\ pc' = "collect" => DOMAIN text' = DOMAIN src' /\ pc = "read"
  BY DEF CommitInv, Stage, Clear, copy_makefile_if_present, build_file_name_map, Read, Write
<1>2. CASE pc' # "failed"
  <2>1. (Stage /\ pc \in {"begin"} \cup Empty)' BY <1>1, <1>2 DEF CommitInv
  <2>2. (Written = {})' BY <2>1, NoneWritten, PTL
  <2> QED BY <1>1, <1>2, <2>2 DEF RenameInv, Counting, DictIsSeq, InHand, AllFinished
<1>3. CASE pc' = "failed"
  <2>1. CASE Clear
    <3>1. UNCHANGED <<out, src, stem, text>>
      BY <1>3, <2>1 DEF Clear, CommitInv, Stage
    <3>2. Written' = Written /\ Written = {}
      BY <1>1, <3>1, NoneWritten DEF Written, NewName, CommitInv
    <3> QED BY <1>1, <1>3, <3>2 DEF RenameInv, Counting, DictIsSeq, InHand, AllFinished
  <2>2. CASE copy_makefile_if_present
    <3>1. /\ src' = src /\ stem' = stem /\ Write(Makefile, <<>>, "name") /\ NewOnly
          /\ DOMAIN out \subseteq {Makefile} /\ src \in Sources
      BY <1>3, <2>2 DEF copy_makefile_if_present, CommitInv, Stage
    <3>2. DOMAIN out' \subseteq {Makefile}
      BY <3>1, WriteKeeps
    <3>3. \A f \in DOMAIN src : NewName(f)' # Makefile
      BY <3>1, NamesApart DEF NewName, CommitInv
    <3>4. Written' = {}
      BY <3>1, <3>2, <3>3 DEF Written
    <3> QED BY <1>1, <1>3, <3>4 DEF RenameInv, Counting, DictIsSeq, InHand, AllFinished
  <2> QED BY <1>3, <2>1, <2>2 DEF build_file_name_map, Read
<1> QED BY <1>2, <1>3

LEMMA RenameDict == CommitInv /\ RenameInv /\ (build_dictionary \/ find_flag) => RenameInv'
<1> SUFFICES ASSUME CommitInv, RenameInv, build_dictionary \/ find_flag PROVE RenameInv'
  OBVIOUS
<1>1. /\ pc = "collect" /\ UNCHANGED <<out, src, stem, text, k>> /\ pc' \in {"collect", "list", "failed"}
  BY DEF build_dictionary, find_flag
<1>2. Written' = {}
  <2>1. Written = {} BY <1>1, NoneWritten DEF CommitInv, Empty
  <2> QED BY <1>1, <2>1 DEF Written, NewName
<1>3. DictIsSeq'
  <2>1. CASE dict' = dict
    BY <2>1 DEF RenameInv, Counting, DictIsSeq
  <2>2. ASSUME NEW e, dict' = Append(dict, e) PROVE DictIsSeq'
    <3>1. PICK S : dict \in Seq(S) BY DEF RenameInv, Counting, DictIsSeq
    <3>2. dict \in Seq(S \cup {e}) BY <3>1
    <3>3. Append(dict, e) \in Seq(S \cup {e}) BY <3>2
    <3> QED BY <2>2, <3>3 DEF DictIsSeq
  <2> QED BY <2>1, <2>2 DEF build_dictionary, find_flag
<1> QED BY <1>1, <1>2, <1>3 DEF RenameInv, Counting, InHand, AllFinished, Filled

\* Nothing that Finished speaks of changes, except for the entries of out.
LEMMA SameNames ==
  ASSUME UNCHANGED <<src, stem, text, dict>>
  PROVE  /\ Fresh' = Fresh /\ \A f : NewName(f)' = NewName(f)
         /\ \A w, v, n : Mapped(w, v, n)' = Mapped(w, v, n)
         /\ \A f : out'[NewName(f)] = out[NewName(f)] => Finished(f)' = Finished(f)
BY DEF Fresh, StemsApart, News, Olds, Names, NewName, Mapped, Finished, PlacesKept, Result, Identifiers

LEMMA RenameOpen == CommitInv /\ RenameInv /\ Open => RenameInv'
<1> SUFFICES ASSUME CommitInv, RenameInv, Open PROVE RenameInv'
  OBVIOUS
<1>1. /\ pc = "list" /\ pc' = "rename" /\ UNCHANGED <<out, src, stem, text, dict>>
      /\ k' = 1 /\ new' = text[cur']
  BY DEF Open
<1>2. AllFinished'
  <2>1. Written' = Written BY <1>1 DEF Written, NewName
  <2> QED BY <1>1, <2>1, SameNames DEF RenameInv, AllFinished
<1>3. InHand'
  <2>1. \A w : Mapped(w, w, 1)'
    <3>1. DOMAIN dict \subseteq Nat \ {0} BY DictRange DEF RenameInv, Counting
    <3>2. \A j \in DOMAIN dict : ~(j < 1) BY <3>1
    <3>3. \A w : Mapped(w, w, 1) BY <3>2 DEF Mapped
    <3> QED BY <1>1, <3>3, SameNames
  <2> QED BY <1>1, <2>1 DEF InHand, Renamed
<1> QED BY <1>1, <1>2, <1>3 DEF RenameInv, Counting, DictIsSeq, Filled

LEMMA RenameReplace == CommitInv /\ RenameInv /\ replace_identifiers => RenameInv'
<1> SUFFICES ASSUME CommitInv, RenameInv, replace_identifiers PROVE RenameInv'
  OBVIOUS
<1>1. /\ pc = "rename" /\ k <= Len(dict) /\ k' = k + 1
      /\ UNCHANGED <<pc, dir, out, src, stem, text, dict, left, cur>>
  BY DEF replace_identifiers
<1>2. k \in Nat \ {0} /\ DictIsSeq
  BY DEF RenameInv, Counting
<1>3. AllFinished'
  <2>1. Written' = Written BY <1>1 DEF Written, NewName
  <2> QED BY <1>1, <2>1, SameNames DEF RenameInv, AllFinished
<1>4. ASSUME Fresh PROVE Renamed(text[cur], new', k + 1)
  <2>1. Renamed(text[cur], new, k)
    BY <1>1, <1>4 DEF RenameInv, InHand
  <2>2. DOMAIN new' = DOMAIN text[cur]
    BY <2>1 DEF Renamed, replace_identifiers
  <2>3. ASSUME NEW i \in DOMAIN text[cur]
        PROVE  /\ new'[i].at = text[cur][i].at
               /\ text[cur][i].at \in Identifiers =>
                    Mapped(text[cur][i].word, new'[i].word, k + 1)
               /\ text[cur][i].at \notin Identifiers => new'[i].word = text[cur][i].word
    <3>1. /\ new[i].at = text[cur][i].at
          /\ text[cur][i].at \in Identifiers => Mapped(text[cur][i].word, new[i].word, k)
          /\ text[cur][i].at \notin Identifiers => new[i].word = text[cur][i].word
      BY <2>1 DEF Renamed
    <3>2. new'[i] = IF new[i].at \in Identifiers /\ new[i].word = dict[k].old
                      THEN Item(new[i].at, dict[k].new) ELSE new[i]
      BY <2>1 DEF Renamed, replace_identifiers, RenamedPlaces, Identifiers
    <3>3. CASE text[cur][i].at \notin Identifiers
      BY <3>1, <3>2, <3>3
    <3>4. CASE text[cur][i].at \in Identifiers
      <4>1. IF new[i].word = dict[k].old
              THEN Mapped(text[cur][i].word, dict[k].new, k + 1)
              ELSE Mapped(text[cur][i].word, new[i].word, k + 1)
        BY <1>1, <1>2, <1>4, <3>1, <3>4, MapStep
      <4> QED BY <3>1, <3>2, <3>4, <4>1
    <3> QED BY <3>3, <3>4
  <2> QED BY <2>2, <2>3 DEF Renamed
<1>5. InHand'
  <2>1. Fresh' => Renamed(text[cur], new', k + 1)
    BY <1>1, <1>4, SameNames
  <2> QED BY <1>1, <2>1, SameNames DEF InHand, Renamed
<1> QED BY <1>1, <1>2, <1>3, <1>5 DEF RenameInv, Counting, DictIsSeq, Filled

\* Different files have different names, once their stems have.
LEMMA NewNamesApart ==
  ASSUME Stage, Fresh, DOMAIN stem = Stems, NEW f \in DOMAIN src, NEW g \in DOMAIN src,
         NewName(f) = NewName(g)
  PROVE  f = g
<1>1. f = <<f[1], f[2]>> /\ g = <<g[1], g[2]>> /\ f[1] \in Stems /\ g[1] \in Stems
  BY NamesApart
<1>2. stem[f[1]] = stem[g[1]] /\ f[2] = g[2]
  BY DEF NewName
<1>3. f[1] = g[1]
  BY <1>1, <1>2 DEF Fresh, StemsApart
<1> QED BY <1>1, <1>2, <1>3

LEMMA RenameWriteFile == CommitInv /\ RenameInv /\ WriteFile => RenameInv'
<1> SUFFICES ASSUME CommitInv, RenameInv, WriteFile PROVE RenameInv'
  OBVIOUS
<1> DEFINE r == rewrite_local_includes(new)
<1>1. /\ pc = "rename" /\ k > Len(dict) /\ Write(NewName(cur), r, "list")
      /\ UNCHANGED <<dir, src, stem, text, dict, left, cur, k, new>>
  BY DEF WriteFile
<1>2. /\ DOMAIN stem = Stems /\ cur \in DOMAIN src /\ k \in Nat \ {0} /\ DictIsSeq
      /\ DOMAIN text = DOMAIN src
  BY <1>1 DEF CommitInv, Stage, RenameInv, Counting, Filled
<1>3. PICK whole \in BOOLEAN :
        /\ out' = [x \in DOMAIN out \cup {NewName(cur)} |->
                     IF x = NewName(cur) THEN File("new", whole, r) ELSE out[x]]
        /\ pc' = IF whole THEN "list" ELSE "failed"
  BY <1>1 DEF Write
<1>4. ASSUME Fresh, NEW f \in Written', f # cur PROVE Finished(f)'
  <2>1. f \in DOMAIN src /\ NewName(f) # NewName(cur)
    BY <1>1, <1>2, <1>4, NewNamesApart DEF Written, CommitInv
  <2>2. NewName(f) \in DOMAIN out' /\ NewName(f)' = NewName(f)
    BY <1>1, <1>4 DEF Written, NewName
  <2>3. out'[NewName(f)] = out[NewName(f)] /\ NewName(f) \in DOMAIN out
    BY <1>3, <2>1, <2>2
  <2>4. f \in Written
    BY <1>1, <1>4, <2>1, <2>2, <2>3 DEF Written
  <2> QED BY <1>1, <1>4, <2>3, <2>4, SameNames DEF RenameInv, AllFinished
<1>5. ASSUME Fresh PROVE Finished(cur)'
  <2>1. Renamed(text[cur], new, k)
    BY <1>1, <1>5 DEF RenameInv, InHand
  <2>2. NewName(cur)' = NewName(cur) /\ out'[NewName(cur)].text = r
    BY <1>1, <1>3 DEF NewName
  <2>3. DOMAIN r = DOMAIN text[cur]
    BY <2>1 DEF Renamed, rewrite_local_includes
  <2>4. ASSUME NEW i \in DOMAIN text[cur]
        PROVE  /\ r[i].at = text[cur][i].at
               /\ text[cur][i].at = "include" =>
                    r[i].word = IF text[cur][i].word \in DOMAIN src
                                  THEN NewName(text[cur][i].word) ELSE text[cur][i].word
               /\ text[cur][i].at \notin Identifiers \cup {"include"} =>
                    r[i].word = text[cur][i].word
               /\ text[cur][i].at \in Identifiers => Mapped(text[cur][i].word, r[i].word, k)
    <3>1. /\ i \in DOMAIN new /\ new[i].at = text[cur][i].at
          /\ text[cur][i].at \in Identifiers => Mapped(text[cur][i].word, new[i].word, k)
          /\ text[cur][i].at \notin Identifiers => new[i].word = text[cur][i].word
      BY <2>1 DEF Renamed
    <3>2. r[i] = IF new[i].at = "include" /\ new[i].word \in DOMAIN src
                   THEN Item("include", NewName(new[i].word)) ELSE new[i]
      BY <3>1 DEF rewrite_local_includes
    <3> QED BY <3>1, <3>2 DEF Identifiers
  <2> HIDE DEF r
  <2>5. \A w, v : Mapped(w, v, k) => Mapped(w, v, Len(dict) + 1)
    <3>1. Len(dict) \in Nat /\ DOMAIN dict = 1..Len(dict) BY <1>2, DictRange
    <3>2. \A j \in DOMAIN dict : j < k /\ j < Len(dict) + 1 BY <1>1, <1>2, <3>1
    <3> QED BY <3>2 DEF Mapped
  <2>6. Result(cur)' = r
    BY <2>2 DEF Result
  <2>7. PlacesKept(cur)'
    BY <1>1, <2>3, <2>4, <2>6, SameNames DEF PlacesKept, Identifiers
  <2>8. \A i \in DOMAIN text[cur] : text[cur][i].at \in Identifiers =>
          Mapped(text[cur][i].word, r[i].word, Len(dict) + 1)
    BY <2>4, <2>5
  <2>9. (\A i \in DOMAIN text[cur] : text[cur][i].at \in Identifiers =>
          Mapped(text[cur][i].word, Result(cur)[i].word, Len(dict) + 1))'
    BY <1>1, <2>6, <2>8 DEF Mapped, Identifiers
  <2> QED BY <1>1, <1>2, <2>7, <2>9 DEF Finished
<1>6. AllFinished'
  BY <1>1, <1>4, <1>5, SameNames DEF AllFinished
<1>7. pc' # "rename" /\ (pc' \in Filled => DOMAIN text' = DOMAIN src') /\ pc' # "collect"
  BY <1>1, <1>2, <1>3
<1> QED BY <1>1, <1>2, <1>6, <1>7 DEF RenameInv, Counting, DictIsSeq, InHand

LEMMA RenameWriteDict == CommitInv /\ RenameInv /\ write_output_dict => RenameInv'
<1> SUFFICES ASSUME CommitInv, RenameInv, write_output_dict PROVE RenameInv'
  OBVIOUS
<1> DEFINE s == OutputDict
<1>1. /\ pc = "list" /\ Write(Metadata, s, "done")
      /\ UNCHANGED <<dir, src, stem, text, dict, left, cur, k, new>>
  BY DEF write_output_dict
<1> HIDE DEF s
<1>2. PICK whole \in BOOLEAN :
        /\ out' = [x \in DOMAIN out \cup {Metadata} |->
                     IF x = Metadata THEN File("new", whole, s) ELSE out[x]]
        /\ pc' = IF whole THEN "done" ELSE "failed"
  BY <1>1 DEF Write
<1>3. ASSUME Fresh, NEW f \in Written' PROVE Finished(f)'
  <2>1. f \in DOMAIN src /\ NewName(f) \in DOMAIN out' /\ NewName(f)' = NewName(f)
    BY <1>1, <1>3 DEF Written, NewName
  <2>2. NewName(f) # Metadata
    BY <2>1, NamesApart DEF CommitInv
  <2>3. out'[NewName(f)] = out[NewName(f)] /\ NewName(f) \in DOMAIN out
    BY <1>2, <2>1, <2>2
  <2>4. f \in Written
    BY <1>1, <1>3, <2>1, <2>3 DEF Written
  <2> QED BY <1>1, <1>3, <2>3, <2>4, SameNames DEF RenameInv, AllFinished
<1>4. AllFinished'
  BY <1>1, <1>3, SameNames DEF AllFinished
<1> QED BY <1>1, <1>2, <1>4 DEF RenameInv, Counting, DictIsSeq, InHand, Filled

LEMMA RenameRest == RenameInv /\ (Fail \/ UNCHANGED vars) => RenameInv'
<1> SUFFICES ASSUME RenameInv, Fail \/ UNCHANGED vars PROVE RenameInv'
  OBVIOUS
<1>1. /\ UNCHANGED <<dir, out, src, stem, text, dict, left, cur, k, new>>
      /\ pc' = pc \/ pc' = "failed"
  BY DEF Fail, vars
<1>2. AllFinished'
  <2>1. Written' = Written BY <1>1 DEF Written, NewName
  <2> QED BY <1>1, <2>1, SameNames DEF RenameInv, AllFinished
<1>3. InHand'
  BY <1>1, SameNames DEF RenameInv, InHand, Renamed
<1> QED BY <1>1, <1>2, <1>3 DEF RenameInv, Counting, DictIsSeq, Filled

\* What is written whole is renamed by one mapping, which is one to one.
LEMMA FinishedIsFaithful == CommitInv /\ RenameInv => RenamingFaithful
<1> SUFFICES ASSUME CommitInv, RenameInv, Fresh, NEW f \in Written, NEW g \in Written
             PROVE  PlacesKept(f) /\ NamesKept(f, g)
  BY DEF RenamingFaithful
<1>1. Finished(f) /\ Finished(g)
  BY DEF RenameInv, AllFinished
<1>2. ASSUME NEW i \in DOMAIN text[f], NEW j \in DOMAIN text[g],
             text[f][i].at \in Identifiers, text[g][j].at \in Identifiers
      PROVE  Result(f)[i].word = Result(g)[j].word <=> text[f][i].word = text[g][j].word
  <2>1. text[f][i].word \in Names(text[f]) /\ text[g][j].word \in Names(text[g])
    BY <1>2 DEF Names
  <2>2. /\ Mapped(text[f][i].word, Result(f)[i].word, Len(dict) + 1)
        /\ Mapped(text[g][j].word, Result(g)[j].word, Len(dict) + 1)
    BY <1>1, <1>2 DEF Finished
  <2>3. text[f][i].word \notin News /\ text[g][j].word \notin News
    BY <1>1, <2>1 DEF Finished, Fresh
  <2> QED BY <2>2, <2>3, MapInjective DEF RenameInv, Counting
<1> QED BY <1>1, <1>2 DEF Finished, NamesKept

LEMMA RenameInvariant == Spec => []RenameInv
<1>1. CommitInv /\ CommitInv' /\ RenameInv /\ [Next]_vars => RenameInv'
  BY RenameEarly, RenameDict, RenameOpen, RenameReplace, RenameWriteFile,
     RenameWriteDict, RenameRest DEF Next
<1> QED BY RenameInit, CommitInvariant, <1>1, PTL DEF Spec

\* With fresh names the output is the program it was made from, except for the
\* names: in every file that is written whole, at any time, for any sources.
THEOREM RenamesFaithfully == Spec => []RenamingFaithful
BY RenameInvariant, CommitInvariant, FinishedIsFaithful, PTL

-----------------------------------------------------------------------------

\* What is in the output directory, and that it is there while it is written.
OutTyped ==
  /\ dir # "directory" => out = <<>>
  /\ \A x \in DOMAIN out : out[x].run \in {"old", "new"} /\ out[x].whole \in BOOLEAN

TypeInv == TypeOK /\ (pc \in Empty \cup Filled => dir = "directory")

LEMMA WriteTyped ==
  ASSUME OutTyped, dir = "directory", dir' = dir, NEW name, NEW s, NEW next, Write(name, s, next)
  PROVE  OutTyped'
BY DEF OutTyped, Write

LEMMA TypeInit == Init => TypeInv
<1> SUFFICES ASSUME Init PROVE TypeInv
  OBVIOUS
<1>1. OutTyped
  <2>1. CASE out = <<>>
    BY <2>1 DEF OutTyped
  <2>2. CASE dir = "directory"
    BY <2>2 DEF Init, OutTyped
  <2> QED BY <2>1, <2>2 DEF Init
<1>2. DOMAIN dict = {} /\ Len(dict) = 0
  BY DEF Init
<1> QED BY <1>1, <1>2 DEF Init, TypeInv, TypeOK, OutTyped, Empty, Filled, News, Stems

\* The steps before the first name is found.
LEMMA TypeEarly ==
  TypeInv /\ (Clear \/ copy_makefile_if_present \/ build_file_name_map \/ Read) => TypeInv'
<1> SUFFICES ASSUME TypeInv, Clear \/ copy_makefile_if_present \/ build_file_name_map \/ Read
             PROVE  TypeInv'
  OBVIOUS
<1> USE DEF Empty, Filled
<1>1. /\ UNCHANGED <<src, dict, left, cur, k>> /\ OutTyped
      /\ pc' \in {"begin", "copy", "name", "read", "collect", "failed"}
      /\ dir' \in {"absent", "file", "directory"}
  BY DEF TypeInv, TypeOK, OutTyped, Clear, copy_makefile_if_present, build_file_name_map, Read, Write
<1>2. OutTyped' /\ (pc' \in Empty \cup Filled => dir' = "directory")
  <2>1. CASE Clear
    <3>1. ASSUME NEW e \in DOMAIN out, out' = [x \in DOMAIN out \ {e} |-> out[x]], dir' = dir
          PROVE  OutTyped'
      <4>1. out # <<>> BY <3>1
      <4> QED BY <1>1, <3>1, <4>1 DEF OutTyped
    <3>2. OutTyped'
      BY <1>1, <2>1, <3>1 DEF Clear, OutTyped
    <3> QED BY <2>1, <3>2 DEF Clear
  <2>2. CASE copy_makefile_if_present
    BY <1>1, <2>2, WriteTyped DEF TypeInv, copy_makefile_if_present, OutTyped
  <2>3. CASE build_file_name_map \/ Read
    BY <1>1, <2>3 DEF TypeInv, build_file_name_map, Read, OutTyped
  <2> QED BY <2>1, <2>2, <2>3
<1>3. /\ DOMAIN stem' \in {{}, Stems} /\ \A s \in DOMAIN stem' : stem'[s] \in Draws
      /\ DOMAIN text' \in {{}, DOMAIN src}
  BY DEF TypeInv, TypeOK, Clear, copy_makefile_if_present, build_file_name_map, Read
<1> QED BY <1>1, <1>2, <1>3 DEF TypeInv, TypeOK, OutTyped, News, Olds, Stems

\* A name goes into the dictionary only if it is not there.
LEMMA TypeDictionary == TypeInv /\ DictIsSeq /\ build_dictionary => TypeInv'
<1> SUFFICES ASSUME TypeInv, DictIsSeq, build_dictionary PROVE TypeInv'
  OBVIOUS
<1>1. PICK p \in Found(Olds), d \in Draws :
        dict' = Append(dict, [old |-> ItemAt(p).word, new |-> d])
  BY DEF build_dictionary
<1>2. /\ pc = "collect" /\ UNCHANGED <<pc, dir, out, src, stem, text, left, cur, k, new>>
  BY DEF build_dictionary
<1>3. ItemAt(p).word \notin Olds
  BY DEF Found
<1>4. /\ Len(dict) \in Nat /\ DOMAIN dict = 1..Len(dict)
      /\ Len(dict') = Len(dict) + 1 /\ DOMAIN dict' = DOMAIN dict \cup {Len(dict) + 1}
      /\ \A i \in DOMAIN dict : dict'[i] = dict[i]
      /\ dict'[Len(dict) + 1] = [old |-> ItemAt(p).word, new |-> d]
  <2>1. PICK S : dict \in Seq(S) BY DEF DictIsSeq
  <2> QED BY <1>1, <2>1
<1>5. News' \subseteq Draws
  BY <1>4 DEF News, TypeInv, TypeOK
<1>6. \A i, j \in DOMAIN dict' : dict'[i].old = dict'[j].old => i = j
  BY <1>3, <1>4 DEF Olds, TypeInv, TypeOK
<1> QED BY <1>2, <1>4, <1>5, <1>6 DEF TypeInv, TypeOK, Stems

\* The steps that leave the names as they are.
LEMMA TypeLate ==
  TypeInv /\ Stage /\ Counting
    /\ (find_flag \/ Open \/ replace_identifiers \/ WriteFile \/ write_output_dict)
  => TypeInv'
<1> SUFFICES ASSUME TypeInv, Stage, Counting,
                    find_flag \/ Open \/ replace_identifiers \/ WriteFile \/ write_output_dict
             PROVE  TypeInv'
  OBVIOUS
<1> USE DEF Empty, Filled
<1>1. /\ UNCHANGED <<dir, src, stem, text, dict>> /\ OutTyped /\ dir = "directory"
      /\ pc \in {"collect", "list", "rename"}
      /\ pc' \in {"collect", "list", "rename", "done", "failed"}
  BY DEF TypeInv, TypeOK, OutTyped, find_flag, Open, replace_identifiers, WriteFile,
         write_output_dict, Write
<1>2. OutTyped'
  BY <1>1, WriteTyped DEF OutTyped, find_flag, Open, replace_identifiers, WriteFile, write_output_dict
<1>3. Len(dict) \in Nat
  BY DictRange DEF Counting
<1>4. left' \subseteq DOMAIN src /\ cur' \in DOMAIN src \cup {Makefile}
  BY DEF TypeInv, TypeOK, find_flag, Open, replace_identifiers, WriteFile, write_output_dict
<1>5. k' \in 1..(Len(dict) + 1)
  BY <1>3 DEF TypeInv, TypeOK, find_flag, Open, replace_identifiers, WriteFile, write_output_dict
<1>6. pc' \in {"list", "rename"} => Flag \in Olds /\ FlagFile \in DOMAIN src
  BY <1>1 DEF TypeInv, TypeOK, find_flag, Open, replace_identifiers, WriteFile, write_output_dict, Write
<1> QED BY <1>1, <1>2, <1>4, <1>5, <1>6 DEF TypeInv, TypeOK, OutTyped, News, Olds, Stems

LEMMA TypeRest == TypeInv /\ (Fail \/ UNCHANGED vars) => TypeInv'
BY DEF TypeInv, TypeOK, Fail, vars, News, Olds, Stems, Empty, Filled

LEMMA TypeInvariant == Spec => []TypeInv
<1>1. CommitInv /\ RenameInv /\ TypeInv /\ [Next]_vars => TypeInv'
  BY TypeEarly, TypeDictionary, TypeLate, TypeRest DEF Next, CommitInv, RenameInv, Counting
<1> QED BY TypeInit, CommitInvariant, RenameInvariant, <1>1, PTL DEF Spec

\* Every variable keeps its type; no name is in the dictionary twice, and the
\* first file is taken only when the flag and its file are known.
THEOREM TypeCorrect == Spec => []TypeOK
BY TypeInvariant, PTL DEF TypeInv

-----------------------------------------------------------------------------

\* If no comment begins a later one, comment_remover takes out the comments.
LEMMA CommentsGone ==
  ASSUME src \in Sources, CommentsApart, NEW f \in DOMAIN src
  PROVE  comment_remover(src[f]) = Program(f)
<1> DEFINE s == src[f]
<1>1. IsSequence(s) /\ DOMAIN s \subseteq Nat
  <2>1. IsSequence(s) BY ObfuscatorAssumption
  <2>2. ASSUME NEW q, NEW T, q \in Seq(T) PROVE DOMAIN q \subseteq Nat
    BY <2>2
  <2>3. DOMAIN s \subseteq Nat BY <2>1, <2>2 DEF IsSequence
  <2> QED BY <2>1, <2>3
<1>2. ASSUME NEW i \in DOMAIN s, s[i].at = "comment" PROVE Remains(s, i) = <<>>
  <2> DEFINE w == s[i].word
             P(j) == Begins(s, j, i) /\ \A h \in DOMAIN s : Begins(s, h, i) => j <= h
             first == CHOOSE j \in DOMAIN s : P(j)
  <2>1. w \in Seq({w[h] : h \in DOMAIN w})
    BY <1>2, ObfuscatorAssumption DEF IsSequence
  <2>2. Begins(s, i, i)
    BY <1>2, <2>1 DEF Begins, IsPrefix
  <2>3. \E j \in DOMAIN s : P(j)
    <3>1. {j \in DOMAIN s : Begins(s, j, i)} \in SUBSET Nat
      BY <1>1
    <3>2. PICK j \in {h \in DOMAIN s : Begins(s, h, i)} :
            \A h \in {g \in DOMAIN s : Begins(s, g, i)} : j <= h
      BY <1>2, <2>2, <3>1, NatMin
    <3> QED BY <3>2
  <2>4. first \in DOMAIN s /\ P(first)
    BY <2>3
  <2> HIDE DEF first
  <2>5. first <= i
    BY <1>2, <2>2, <2>4
  <2>6. s[first].word = w
    <3>1. CASE first = i
      BY <3>1
    <3>2. CASE first < i
      <4>1. ~IsStrictPrefix(s[first].word, w)
        BY <1>2, <2>4, <3>2 DEF CommentsApart, Begins
      <4> QED BY <2>4, <4>1 DEF IsStrictPrefix, Begins
    <3> QED BY <1>1, <2>4, <2>5, <3>1, <3>2
  <2>7. SubSeq(w, Len(s[first].word) + 1, Len(w)) = <<>>
    BY <2>1, <2>6
  <2> DEFINE rest == SubSeq(w, Len(s[first].word) + 1, Len(w))
  <2>8. Remains(s, i) = [h \in DOMAIN rest |-> Item("code", rest[h])]
    BY <1>2 DEF Remains, first
  <2>9. rest = <<>>
    BY <2>7
  <2> HIDE DEF rest
  <2>10. [h \in DOMAIN rest |-> Item("code", rest[h])] = <<>>
    BY <2>9
  <2> QED BY <2>8, <2>10
<1>3. \A i \in DOMAIN s : Remains(s, i) = IF s[i].at = "comment" THEN <<>> ELSE <<s[i]>>
  BY <1>2 DEF Remains
<1> QED BY <1>3 DEF comment_remover, Program

\* The texts are what comment_remover left of the sources, and the metadata what
\* main() looked up in the dictionary.
AnswerInv ==
  /\ pc \in {"collect"} \cup Filled => text = [f \in DOMAIN src |-> comment_remover(src[f])]
  /\ pc \in Filled => Flag \in Olds
  /\ pc = "done" => out[Metadata].text = OutputDict

LEMMA AnswerStep ==
  ASSUME CommitInv, AnswerInv, [Next]_vars PROVE AnswerInv'
<1> USE DEF Empty, Filled
<1>1. CASE pc \in {"begin", "copy", "name", "read", "collect"}
  <2>1. /\ src' = src /\ pc' \notin {"rename", "done"}
        /\ pc' \in {"collect", "list"} => text' = [f \in DOMAIN src |-> comment_remover(src[f])]
        /\ pc' = "list" => Flag \in Olds'
    BY <1>1 DEF Next, Clear, copy_makefile_if_present, build_file_name_map, Read, build_dictionary,
       find_flag, Open, replace_identifiers, WriteFile, write_output_dict, Fail, vars, Write,
       AnswerInv, Olds
  <2> QED BY <1>1, <2>1 DEF AnswerInv
<1>2. CASE pc \in {"list", "rename"} /\ ~write_output_dict
  <2>1. UNCHANGED <<src, text, dict>> /\ pc' \in {"list", "rename", "failed"}
    BY <1>2 DEF Next, Clear, copy_makefile_if_present, build_file_name_map, Read, build_dictionary,
       find_flag, Open, replace_identifiers, WriteFile, Fail, vars, Write
  <2> QED BY <1>2, <2>1 DEF AnswerInv, Olds
<1>3. CASE write_output_dict
  <2>1. pc = "list" /\ UNCHANGED <<src, stem, text, dict>> /\ pc' \in {"done", "failed"}
    BY <1>3 DEF write_output_dict, Write
  <2>2. pc' = "done" => out'[Metadata].text = OutputDict
    BY <1>3 DEF write_output_dict, Write
  <2>3. OutputDict' = OutputDict /\ Olds' = Olds
    BY <2>1 DEF OutputDict, NewName, Olds
  <2> QED BY <2>1, <2>2, <2>3 DEF AnswerInv, Metadata
<1>4. CASE pc \in {"done", "failed"}
  <2>1. UNCHANGED vars
    BY <1>4 DEF Next, Clear, copy_makefile_if_present, build_file_name_map, Read, build_dictionary,
       find_flag, Open, replace_identifiers, WriteFile, write_output_dict, Fail, vars
  <2> QED BY <2>1 DEF AnswerInv, vars, Olds, OutputDict, NewName
<1> QED BY <1>1, <1>2, <1>3, <1>4 DEF CommitInv, Stage

LEMMA AnswerInvariant == Spec => []AnswerInv
<1>1. Init => AnswerInv
  BY DEF Init, AnswerInv, Filled
<1>2. CommitInv /\ AnswerInv /\ [Next]_vars => AnswerInv'
  BY AnswerStep
<1> QED BY <1>1, <1>2, CommitInvariant, PTL DEF Spec

\* The answer is what the entry of the flag maps it to, and nothing else becomes it.
LEMMA AnswerIsFlag ==
  ASSUME TypeOK, Fresh, DictIsSeq, Flag \in Olds
  PROVE  /\ Flag \notin News
         /\ Mapped(Flag, OutputDict[1].word, Len(dict) + 1)
         /\ OutputDict[2].word = NewName(FlagFile)
<1> DEFINE entry == CHOOSE i \in DOMAIN dict : dict[i].old = Flag
<1>1. entry \in DOMAIN dict /\ dict[entry].old = Flag
  BY DEF Olds
<1>2. OutputDict[1].word = dict[entry].new /\ OutputDict[2].word = NewName(FlagFile)
  BY DEF OutputDict
<1> HIDE DEF entry
<1>3. Len(dict) \in Nat /\ DOMAIN dict = 1..Len(dict)
  BY DictRange
<1>4. \A i \in DOMAIN dict : i < entry => dict[i].old # Flag
  BY <1>1, <1>3 DEF TypeOK
<1>5. entry < Len(dict) + 1
  BY <1>1, <1>3
<1> QED BY <1>1, <1>2, <1>4, <1>5 DEF Mapped, Fresh

LEMMA AnswerHolds ==
  ASSUME CommitInv, RenameInv, AnswerInv, TypeOK, Fresh, CommentsApart, Committed,
         out[Metadata].run = "new"
  PROVE  LET answer == out[Metadata].text[1].word  file == out[Metadata].text[2].word IN
           /\ file = NewName(FlagFile)
           /\ \A f \in DOMAIN src :
                /\ DOMAIN Result(f) = DOMAIN Program(f)
                /\ \A i \in DOMAIN Program(f) :
                     Program(f)[i].at \in Identifiers =>
                       (Result(f)[i].word = answer <=> Program(f)[i].word = Flag)
<1>1. pc = "done"
  BY DEF CommitInv, Progress, OldOnly, Committed
<1>2. /\ out[Metadata].text = OutputDict /\ Flag \in Olds /\ src \in Sources
      /\ text = [f \in DOMAIN src |-> comment_remover(src[f])]
      /\ Written = DOMAIN src /\ DictIsSeq
  BY <1>1 DEF AnswerInv, CommitInv, Stage, Progress, Filled, RenameInv, Counting
<1> DEFINE answer == OutputDict[1].word
<1>3. /\ Flag \notin News /\ Mapped(Flag, answer, Len(dict) + 1)
      /\ OutputDict[2].word = NewName(FlagFile)
  BY <1>2, AnswerIsFlag
<1> HIDE DEF answer
<1>4. ASSUME NEW f \in DOMAIN src
      PROVE  /\ DOMAIN Result(f) = DOMAIN Program(f)
             /\ \A i \in DOMAIN Program(f) :
                  Program(f)[i].at \in Identifiers =>
                    (Result(f)[i].word = answer <=> Program(f)[i].word = Flag)
  <2>1. text[f] = Program(f)
    BY <1>2, CommentsGone
  <2>2. Finished(f)
    BY <1>2 DEF RenameInv, AllFinished
  <2>3. DOMAIN Result(f) = DOMAIN text[f]
    BY <2>2 DEF Finished, PlacesKept
  <2>4. ASSUME NEW i \in DOMAIN text[f], text[f][i].at \in Identifiers
        PROVE  Result(f)[i].word = answer <=> text[f][i].word = Flag
    <3>1. Mapped(text[f][i].word, Result(f)[i].word, Len(dict) + 1)
      BY <2>2, <2>4 DEF Finished
    <3>2. text[f][i].word \notin News
      <4>1. text[f][i].word \in Names(text[f]) BY <2>4 DEF Names
      <4> QED BY <2>2, <4>1 DEF Finished, Fresh
    <3> QED BY <1>2, <1>3, <3>1, <3>2, MapInjective
  <2> QED BY <2>1, <2>3, <2>4
<1> QED BY <1>2, <1>3, <1>4 DEF answer

\* With fresh names the metadata of a whole output names the flag's file, and in
\* every file the answer stands where the flag stood and nowhere else, whatever
\* the sources are, as long as no comment is the beginning of a later one.
THEOREM AnswerAlwaysRight == Spec => []AnswerRight
<1>1. CommitInv /\ RenameInv /\ AnswerInv /\ TypeOK => AnswerRight
  BY AnswerHolds DEF AnswerRight
<1> QED BY <1>1, CommitInvariant, RenameInvariant, AnswerInvariant, TypeCorrect, PTL
=============================================================================
