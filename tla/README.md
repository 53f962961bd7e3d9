# Models of configloader and its challenge service

The repository holds a C program that loads and merges nginx-style configuration
files (`configloader`), a script that renames its identifiers (`obfuscator`), and a
Flask service that hands out a freshly renamed copy and checks one answer within a
minute (`webservice`). This directory models them in TLA+, checks the models with
TLC and proves properties of the program, its lexer, parser and merge, the service and
the obfuscator with TLAPS.

## The system

| part | state | operations | hard to test |
|---|---|---|---|
| loader run (`main.c`, `filesystem.c`, `fs_low.c`) | handles, arrays, trees, exit status | open, parse, merge, write, close, report | each error path frees a different set; output truncated before inputs are read; stdio errors |
| configuration tree (`configfile.c`) | blocks, directives, their lists | create, add, copy, free | failed allocations at any point |
| parser (`configfile_deserialize.c`) | the open blocks and statements of the recursion | one token at a time | who owns a subblock that is not stored yet |
| lexer (same file) | buffer, one pushed-back character | `lex_token` | escapes, growth, end of input |
| merge (`configfile_merge.c`) | merged block, nested calls | copy, merge a directive, match and merge subblocks | order of directives and inputs, matching before appending |
| serializer (`configfile_serialize.c`) | none | write the tree | text that does not parse back |
| web service (`app.py`) | session cookie, run directories, clock | `/`, `/start`, `/submit`, `/reset` | overlapping requests, lost and late replies, deadline, leftovers |
| obfuscator (`obfuscator.py`) | output directory, rename dictionaries | empty, collect, rename, write, commit | colliding random names, an end halfway, agreement across files |
| command line (`cli.c`) | growing argument array | `cli_create`, `parse_opt` | growth at the limit, failed allocations |
| logging (`logger.c`, `printer.c`, `sysinfo.c`, `sysunsafe.c`) | log level | print; `sysunsafe.c` logs through `system()` | what a command does is outside of the program |

`main` parses the arguments and calls `run`, which opens the output and the inputs,
has each input parsed into a tree, merges the trees into a new one, writes it, and
releases everything. The loader is sequential; its nondeterminism is the environment:
files, their contents, and each call that can fail. The service starts the obfuscator
for every `/start`, keeps the answer and the start time in the session, and the session
in the browser's cookie and nowhere else; requests of several tabs overlap.

What makes each part correct: the loader releases everything once, gives the status
of the stage that failed and returns 0 only for a whole merge; the parser accepts the grammar and
builds the tree of the text; the lexer neither loses nor repeats a character and never
writes past its buffer; what is written reads back where it can; every object of a tree
has one owner; a merge is the union of its inputs, conflicts are real and inputs stay as
they are; a session never claims what did not happen, and a run directory has one user
and is removed; the obfuscated program is the same program, and the answer kept for it
is the right one.

## Modules

| module | models |
|---|---|
| `ConfigJob` | what a run promises about its output, without its insides |
| `Loader` | `run()` and what it calls, a tree being one object; shown to implement `ConfigJob` |
| `Program` | `main()`: the command line of `cli.c`, then `Loader` |
| `ProgramProofs` | the theorems about `Loader`, and about `Program`, to which they are carried over |
| `Lexer`, `LexerProofs` | `lex_token`, one step per `fgetc`; its theorems |
| `Grammar` | the lexical grammar on its own, and that `Lexer` follows it |
| `Serialize` | the characters `config_serialize` writes, as operators |
| `Text`, `MCText` | `Lexer` run on what `Serialize` wrote; files and trees |
| `ConfigTree` | objects of `configfile.c` on a heap: create, grow, copy, free |
| `TreeProofs` | lemmas about ownership on that heap |
| `Deserialize`, `DeserializeProofs` | `config_deserialize` over tokens, extends `ConfigTree`; its theorems |
| `Merge`, `MCMerge`, `MergeProofs` | `config_merge_n` with `config_block_copy`, extends `ConfigTree`; the inputs of its runs; its proofs |
| `Challenge`, `MCChallenge` | the web service with one browser; symmetry for its runs |
| `ChallengeProofs` | the theorems about `Challenge` |
| `Obfuscator`, `MCObfuscator` | a run of `obfuscator.py`; small source files |
| `ObfuscatorProofs` | the theorems about `Obfuscator` |
| `Induction` | induction over the numbers and their minima and maxima, stated over sets |

*Loader.* One action per stage of `run()`, one step per file in the two loops. `pc`
names the stage, `i` the loop counter. Handles and allocations are `null`, `open`/`live`,
`closed`/`freed`, or `twice` after a second release. `disk` is what each path holds, so
that arguments and output may be the same file. `faults` is a ghost that records the
failures so far, told apart by what failed (an output or an input that does not open, memory
for the handles, the trees, the parser or the merge). `Crash` stands for the two ways the tree code ends the program
(a failed first allocation taken for success, a NULL argument text compared).

*Program.* Extends `Loader` with `step` (where `main` is), `cli` (the record `cli_parse`
fills) and the ghost `line` (the words so far). The environment chooses the words one by
one; `Run` hands `cli` to `run()`, whose variables rest until then. `main` does not look at
what `cli_create` returned: `Defaults` ends in `crashed` when it is NULL. The array's first
size is a constant, 16 in the code. `-v` is left out: `set_log_lvl` lets more be logged and
`start_up_check` runs the commands `date` and `uname -a` (`main.c:163-167`); nothing
modelled depends on either.

*Lexer.* A character is a class of characters that the code treats alike. `mode` is the
place in `lex_token`; `read` and `pos` are the stream, and a character that is pushed back
is one that does not move `pos`; where `ungetc` refuses it, it is lost and the token is an
error (`PushBackFails`). `buf` and `cap` are the growing buffer, any `realloc` may
fail. A file is one of `Files`, or the environment chooses each character as it is read.
After a token the parser calls `lex_token` again, until the end or an error.

*Grammar.* It has no states: it says which pieces of a text are lexemes, that the longest
one is cut off, what a quoted word stands for and where a zero byte ends a text, by place
and not by scanning. `LexesGrammar` compares it with what `lex_token` returned.

*Serialize, Text.* `config_serialize` is a function from a tree to the characters it
writes; the trees are finite records. `Text` runs the lexer on what was written. How
tokens become a tree is `Deserialize`.

*ConfigTree.* An address holds a block or a directive; texts are copied into objects by
the code, so they are values. `Grow` and `Build` give what `config_realloc_array` and its
callers may come to: a failure is an error only for a list that has elements. `zap` is
what the recursion of `config_block_free` has still to visit; one step frees one object.

*Deserialize.* The recursion of `parse_contents` and `parse_statement` is the `stack`: each
frame is a block with the head and arguments of its unfinished statement. The
environment chooses the next token's kind, and a word's text is its place in the input,
so that all texts differ. `texts` are the allocated token texts. A directive or a block that
is made but refused an argument or its place is live and in `zap` (`Discards`); it is freed
in the next step, before the frames return, so that one freed twice or left would show.

*Merge.* `stack` holds the calls of `merge_into` and `config_block_copy`, a copy being a
merge into a new block that does not look for matches. A step handles one directive or
one subblock. `given` keeps the inputs as they were.

*Challenge.* A request carries the cookie the browser had when it was sent (`session` of
`req[t]`), the handler changes that copy, and `Receive` stores it in the browser if the
session was modified. `/start` is three steps (directory, obfuscator, archive), the other
handlers one. An exception that `/start` does not catch is an answer 500, in each of the
three: the directory cannot be made, or exists (`app.py:94`, `101`); the obfuscator cannot
be started or its metadata cannot be used (105, 123, 135); zipping fails (141). From 105 on
the directory is left behind. `Lose` drops a request or a reply. `began`, `attempts`, `settled`, `wins`
and `leaked` are ghosts: what truly happened, to compare the sessions with.

*Obfuscator.* A text is a sequence of words, each with the place where it stands, which
decides what the regular expressions do with it. `out` is the output directory: an entry is
of an earlier run or of this one, whole or cut off. `dict` is the shared dictionary in its
order; one step applies one entry to the file in hand (`new`), because an entry acts on what
earlier entries made of the text. `random_string` draws any of `Draws`, names of the
sources included. `Fail` ends the process between any two steps, `Write` in the middle of
a file. `Challenge` has the three outcomes that the service tells apart: `start_fails`
(no exit status 0, or no readable metadata) and `start_obfuscated`; `CommitLast` and
`AnswerRight` say that, with fresh names, the latter is offered only with a whole program
and its answer.

Definitions called "Mutated ..." are wrong variants of the definition that follows.
They are used by no specification; exchanged for it, they show that a property can fail.

## Runs

| run | bounds | shows |
|---|---|---|
| `Program.cfg` | 3 arguments, 2 `-o`, array of 1 at first, 3 paths, a refused name, `-` | the array holds what it is given, `run()` gets the command line, ownership on every error path, the status is that of the stage that failed, success is complete, termination, `ConfigJob` implemented |
| `MCText.cfg` | files of up to 4 characters, some longer; about 750 trees; buffer of 2 at first | the lexer follows the grammar, the buffer fits, what is written reads back exactly if it needs no quotes and has no inner block `main`, termination |
| `LoaderStreams.cfg` | 1 argument | **violated**: a write error, or a read error, returns 0 |
| `MCChallenge.cfg` | 2 tabs, 2 run ids, 2 challenges, window of 2 ticks in a clock of 3 | sessions genuine, no reopening after a verdict, directories owned, page and handler agree |
| `ChallengeLive.cfg` | the same, 1 challenge | deadline comes, directories are removed |
| `ChallengeAttempt.cfg` | 1 challenge | **violated**: two submissions with one cookie are both judged |
| `ChallengeWindow.cfg` | window of 2 s at 2 ticks | **violated**: the last second counts as late |
| `Deserialize.cfg` | 5 objects, 10 tokens | grammar, tree, ownership (also of what is made and then refused), nothing left, termination |
| `DeserializeCrash.cfg` | 2 objects, 5 tokens | **violated**: NULL written through |
| `MCMerge.cfg` | two inputs of up to 2 directives or 2 subblocks with nested ones, three small inputs | union, real conflicts, inputs untouched, ownership, termination |
| `MergeExact.cfg` | the same | **violated**: an exact match conflicts |
| `MCObfuscator.cfg` | up to 3 files, dictionaries of up to 4 names, 4 names to draw | fresh names keep the program, the answer is right, metadata of this run stand beside whole files only, one for each source if the stems differ |

Why the bounds are enough. *Loader*: with three files the loops have a first, a middle
and a last turn, a failure can come before, between and after successes, and
`merge_config_blocks` takes each of its three cases; three paths allow distinct,
repeated and aliased ones. *Program*: an array of one place grows twice for three
arguments, at and away from its limit. *Text*: four characters hold a word between two
others, an escape in an open quote, a comment at the end; words of five to nine
characters grow a buffer of two three times; every text the parser can put into a tree
is there as a name and as an argument. *Obfuscator*: three files share names, two of
them a stem; four draws, one of them a name of a source, give fresh names and every kind
of collision; its symmetry permutes the other three, which occur nowhere else.
*Challenge*: two requests make every race of a read and a write of the cookie; a third
would only repeat them; two challenges allow an older session to come back after a newer
one; in `ChallengeWindow.cfg` two ticks a second make the dropped fraction visible.
*Deserialize*: ten tokens hold four directives, or blocks nested three deep, and a
failure or a stray token anywhere among them. *Merge*: lists of two hold an exact match
behind a conflict; subblocks of subblocks need a copy inside a copy; three inputs merge
into a block that was merged into before.

Deadlock is checked for the service, which never stops. The other programs end, so
their runs say `CHECK_DEADLOCK FALSE`; the property `Returns` says that they do end.

## Fairness

`Program`, `Loader`, `Lexer`, `Deserialize` and `Merge` assume weak fairness of their
next step: a sequential program that can go on does. Reads come to an end, because the
token bound makes the input finite; the command line is finite for the same reason.
`Obfuscator` has no fairness: its properties hold wherever it stops. `Challenge` assumes
that the clock runs and that a handler that can take its next step does
(`WF_vars(Tick)`, `WF_vars(Serve(t))`: Flask serves each request in a thread of its own
and has no lock a handler could wait for). It does not assume that the user acts or that
replies arrive.

## Proofs

`ProgramProofs` proves of `Loader`, for every number of arguments and every set of paths:

| theorem | argument |
|---|---|
| `TypeCorrect` | `TypeOK` is inductive with the link between `i`, `pc` and `n` (`Typed`) |
| `OwnershipSafe` | `Ownership` says, for each stage, the exact state of every handle and allocation; `ReleasedOnce`, `UsesOnlyLive` and `CleanExit` alone are not inductive, since they do not say what was opened so far |
| `StatusesNameStage` | `Blame`: the faults so far are those that the steps taken survive, until a stage fails and sets its status. It says which stage failed and not why: the words printed for it are not always true (below) |
| `SuccessesComplete` | `Faithful`: what was parsed so far is what the disk holds, as long as no fault happened and the output is no input |
| `LoaderImplementsJob` | `OutputFate` gives the state of the output at each stage; each action is then a step of `ConfigJob` or a stutter |

and of `Program`, for any command line and any first size of the array:

| theorem | argument |
|---|---|
| `ArgsAlwaysFit` | `CliInv`: the array is large enough, and holds at most `MaxArgs` |
| `CommandLineAlwaysKept` | `LineInv`: `CommandLineKept`, which speaks of the parsing at every word, and that nothing was read before it. A word more adds one place to those of its kind and moves no other, so that the j-th argument stays the j-th name when the array grows |
| `ProgramReleasesOnce`, `ProgramUsesOnlyLive`, `ProgramExitsClean`, `ProgramCompletes`, `ProgramStatusNamesStage`, `ProgramImplementsJob` | before `Run`, `Loader`'s variables are as `Init` has them (`AtRest`), and from then on a step is a step of `Loader` or leaves it alone; the lemmas about `Loader` are stated over `Init /\ [][Next]_vars`, without the fairness, so they apply to what follows |

`LexerProofs` proves for any files, characters and size of the buffer:

| theorem | argument |
|---|---|
| `TypeCorrect`, `BufferAlwaysFits` | `Inv`: type and size together, as `Full` leaves room for the NUL after every append |
| `WordsVerbatim` | `Words`: a word being read is a piece of `read` that ends at `pos`, which no step but its own moves |
| `LexesTheGrammar` | `AllDue`: of every file that the one read may still turn out to be (`Completion`) the tokens are those returned and those from some place on (`Split`), and what the lexer has in hand is the piece that begins there (`Piece`): a comment, a word or a quoted word that nothing has ended yet. In a quoted word the lexer is after an escaping backslash exactly if the grammar says so (`Active`), and the buffer holds what the grammar makes of the piece so far. One lemma for each kind of lexeme says where it ends (`WordCut`, `QuotedCut` and so on). It speaks of all completions because the grammar looks ahead, and the file is chosen as it is read |

`DeserializeProofs` proves for any input, any number of addresses, and whatever
allocation fails:

| theorem | argument |
|---|---|
| `OwnedOnce`, `NothingLeft` | `Parse`: the heap is `Owned` by what the frames, the result and the free under way hold (`Held`), and it is `Ranked`. `Owned` says that a live object is held or listed, in one place only; `TreeProofs` shows what allocating, listing and freeing make of it, and that `OneOwner` follows. `Ranked` says that no object is below itself: without it a ring of objects that list each other would be owned once and yet be left behind |
| `TypeCorrect` | `Typed`: what is stored is a place in the input or `NULL`. It needs ownership, or a freed object might be listed |
| `AcceptsTheGrammar` | `Synced`: every token read is `Legal` where it stands, there is one frame for each block that is open after them besides the outermost, and the innermost has a head exactly if a statement has begun. `Accepting` adds that what ends in a failure was no document or met a failed allocation. The grammar is told by positions, so that one more token adds one position to it and changes no other |
| `TreeAlwaysFaithful` | `Built`, for the heap and the chain of open blocks: each object is named by the place where its statement begins and has its arguments (`Named`, `Origin`), there are as many as statements ended (`Counted`), the frame at depth n holds a block that was opened there, in the block of the frame around it, and is not yet closed (`Nested`), and every list holds exactly what ended in its block so far, in the order of the input (`Right`). `Statement` says what the innermost frame has read. Without `Nested` nothing says that a directive is stored in the block it stands in, and without `Counted` a tree might hold objects of no statement |

`MergeProofs` proves for any number of inputs of any shape, and any heap:

| theorem | argument |
|---|---|
| `InputsNeverTouched` | `MergeInv`: the addresses of the inputs (`Old`) hold what was given, and everything the merge writes to or frees is among the rest (`New`). For this every call reads an input and writes a copy, a matched pair is an input's block and a copy's, a copy lists only copies, and `zap` holds only copies. `InputsUntouched` alone does not say that what is freed after a failure is a copy |
| `MergeOwnedOnce` | `Owning`, with `MergeInv`: the heap is `Owned` (`TreeProofs`) by the inputs, the copies of the calls under way, the merged block and the free under way. Each call copies to a block of its own, the outermost one copies exactly as long as there is no merged block, or `Return` would forget it, and nothing is freed while calls are under way, so that the blocks they merge into are live |
| `TypeCorrect` | `Kinded`, with both: objects keep their kinds and the lists of copies only grow (`Grows`), so that a pair matched earlier still names a subblock of the input and one of the copy when its turn comes; it starts from the kinds `ForestAssumption` gives the inputs |
| `MergesAsUnion`, `DoublesInherited`, `ConflictsReal` | `Merged`, with the three above. It says that there are paths `w` of the copied blocks and a set `D` of input blocks taken over such that a copied block lists what continues its path (`Shaped`), blocks of the inputs stand at its path and each two of its directives with one name are from one of them (`Sourced`), what is in `D` is in the copies with all that it lists (`Taken`), and each call under way says how far it is: the directives up to `d` are taken over, the subblocks that are not in `subs` are in `D`, apart from the one its callee works on (`Doing`, `Within`). Without the paths nothing ties a match to the input it stands for, and without `D` nothing says that what left `subs` was merged. At the end `D` is every block of every input (`AllTaken`), and what is copied is what is below the result (`ResultBlocks`). In a heap that is `Owned` an object is at one level only (`LevelOnce`), so there are no more levels than addresses (`LevelBound`), and `BlocksIn` is every block. `DoublesInherited` rests on two more facts: the directives of a copied block begin with those of the input block it was copied from, in their order (`Begun`), and what was added since has a name that stands nowhere before it (`NewNames`) |

`ObfuscatorProofs` proves for any sources, draws and names:

| theorem | argument |
|---|---|
| `MetadataCommits` | `Stage`: entries of two runs never meet, because the directory is empty before the first is written; `Progress`: what is neither to be taken nor in hand is whole, so all of it is when the metadata is written. `AllWhole`: with the metadata of this run there is no other file. That each source has a file of its own holds only of stems with different names (`StemsApart`): otherwise one has replaced the other |
| `RenamesFaithfully` | `InHand`: the text in hand is what the entries so far make of the one read (`Mapped`: the first entry for a word replaces it, no other touches it), which `MapStep` extends by one entry; `AllFinished` keeps this for what was written. `MapInjective`: fresh names keep words equal and apart |
| `TypeCorrect` | `TypeInv`: `TypeOK`, and the output directory is there while its files are read and written; an entry is made only for a name the dictionary does not have |
| `AnswerAlwaysRight` | `RenameInv` again, and `AnswerInv`: the texts are what `comment_remover` left of the sources, the metadata what `main()` looked up. If no comment begins a later one that is the program text (`CommentsGone`), so the words written are those of `Program(f)` under the mapping, and `MapInjective` leaves the flag alone with its answer |

`ChallengeProofs` proves for any number of tabs, run ids and challenges, any window and
any resolution of the clock:

| theorem | argument |
|---|---|
| `TypeCorrect` | `Typed`: `TypeOK`, and only a request that was answered has a reply (`Sound`) |
| `RunsOwnedAlways` | `RunsOwned` with `leaked` a part of `runs`, or a directory left behind could be drawn again |
| `SessionsGenuineAlways` | `SessionsGenuine` is inductive; what the ghosts record only grows (`Grows`), and a right answer is judged within the time (`JudgedGenuine`) |
| `NeverReopenedAlways` | `Settled`: a challenge on its way to the browser is in no cookie and no other request (`Unseen`), a verdict spends the attempt and sets the cookie (`Verdict`), and a request sent after it carries the spent attempt (`Informed`). `NeverReopened` alone does not say why an older reply cannot carry the challenge |
| `PageAlwaysAgrees` | a consequence of `TypeOK`, by the cases of the two decisions |

In all of them the first lemmas say what each kind of step makes of the part it changes,
and one lemma carries over what the others keep. Where a proof counts (the places of the
command line, the blocks open at a position) or takes the first of many (the first
comment that begins another), it uses `Induction`, which has induction over numbers for
sets, from the well-foundedness of `<`. `LevelsExist` shows that the recursion which
defines the levels of a tree has a solution; `IntervalRecursion` and `FromFacts` show it
for those of the lexical grammar.

The only assumptions are on constants:

| assumption | says |
|---|---|
| `LoaderAssumption`, `ProgramAssumption` | `MaxArgs` and the number of options are natural numbers, the names are distinct, the array has a place at first |
| `LexerAssumption` | the classes of characters are disjoint, a new buffer holds two |
| `ObfuscatorAssumption` | source files end in `.c` or `.h`, as `obfuscator.py:271` selects them, and texts and comments are sequences |
| `TreeAssumption`, `PairsAssumption` | `NULL` is no address and no list |
| `FiniteAssumption` | there are finitely many addresses |
| `DeserializeAssumption` | there is an address, and room for a token |
| `ForestAssumption` | the inputs of a merge are whole trees: blocks list directives and blocks that are on the heap and listed once, directives list nothing, arguments are a sequence, the roots are blocks, and there is an input at all, `configfile_merge.c:217` |
| `ChallengeAssumption` | window and resolution are positive, the bounds natural numbers, `NoRun` no run id |

Only model-checked are:

- `RoundTrip`, which compares recursive operators over trees;
- every liveness property, which the prover cannot reach;
- the properties of the runs that are expected to fail.

## Disagreements between the code and its documentation

1. A write error returns 0 although `main.c:145` has a message for it, and so does a read
   error although `main.c:142` has one: the input is merged as far as it was read
   (`StreamErrorsReported`).
2. Two submissions with one cookie are both judged, though `app.py:208` says the challenge
   is locked (`SingleAttempt`).
3. The window is 59 seconds and a fraction, not the 60 of `readme.md:50` (`FullWindow`).
4. A failed allocation for the first element of a list crashes the program instead of
   returning -1 (`NeverCrashes`).
5. An exact match behind a same-name directive is reported as a duplicate, though
   `configfile_merge.c:69` says exact matches stay once (`ExactMatchNeverConflicts`).

Three more were met in reading and have no run of their own:

6. For an output that does not open, for no input at all and for no memory the program
   prints that an input can not be opened (`main.c:139`). For no input there is a status and
   a message (`main.c:94`, `136`) that no run reaches, because the test at `main.c:179`
   comes first; in `Loader` that is `err = "FILE_OPEN_ERR"` with `n = 0`.
7. When a merge runs out of memory, even that of a single input, the program says that
   duplicates were found (`main.c:148`).
8. The clock of a challenge starts before its archive is built (`app.py:139`), though
   `readme.md:49-50` lets the window begin after the download.

## Not modelled, and plan

Logging is more than output here: `sysunsafe.c:32-50` hands what it logs, block names of the
input included, to `system()`, which is the flaw that `readme.md:17-26` builds the challenge
on, and `-v` runs two commands. No caller looks at what comes of it, and the models assume
that a command leaves the files and handles of the run alone; what a shell does is out of
their reach. Some hazards of the code are in a model but in no property, because no doc says
what should happen: an input that is also the output (`SuccessIsComplete` excludes it),
random names that collide or stand in the sources already (the properties of `Obfuscator`
assume `Fresh` or `StemsApart`), a comment that begins another (`CommentsApart`), a `NULL`
argument compared in a merge (`broken`), and `cli_create` returning `NULL` (`crashed`). That
`FLAG_FILE` declares the flag, that the lexer frees its buffer, and that the window begins
after the download, as `readme.md:49-50` has it, is not covered either.

Templates and container files are presentation; `configfile_easy.c`, `_config_merge_multi`, `cli_free`, `whitespace_remover` and
`variable_renamer` have no caller. A read that fails is the end of the file to the
lexer, as it is to `fgetc` (`Loader` has the fault). In the obfuscator the regular
expressions are represented by the places of words: which lines they match is not
modelled, nor are comments or literals that hold the beginning of a comment.

Planned: the parser on top of `Lexer` instead of a stream of tokens.
