-------------------------------- MODULE Loader --------------------------------
(***************************************************************************)
(* One run of the configloader program after its arguments are parsed:     *)
(* run() of main.c with the functions it calls in main.c, filesystem.c and *)
(* fs_low.c.  The program is sequential; the choices are the environment's:*)
(* which files exist or open, which are well formed, and which allocation, *)
(* read, write or close fails.  A configuration tree is one object here    *)
(* (ConfigTree, Deserialize and Merge open it up).                         *)
(***************************************************************************)
EXTENDS Naturals

CONSTANTS MaxArgs,    \* bound: positional arguments on the command line
          Paths,      \* file names that pass path_sanity_check
          Dash,       \* the output name "-", standard output
          Insane      \* a name path_sanity_check refuses, the empty one included

ASSUME LoaderAssumption == /\ MaxArgs \in Nat
                           /\ Dash \notin Paths
                           /\ Insane \notin Paths \cup {Dash}

VARIABLES pc,         \* the next step of run()
          n, args,    \* cli->args_count and cli->args
          output,     \* cli->output_file
          disk,       \* what each path holds, standard output being one
          outFile,    \* the handle out_file
          inFile,     \* the handles files[i]
          inArr,      \* the array in_files
          blocks,     \* the trees blocks[i]
          got,        \* what blocks[i] was parsed from
          blockArr,   \* the array blocks
          merged,     \* the tree out_block
          i,          \* the loop counter of the function that runs
          err,        \* run()'s result, "none" while it has none
          logged,     \* what main_log_error printed
          faults      \* ghost: the failures the environment caused so far

env  == <<n, args, output>>
mem  == <<inArr, blocks, blockArr, merged>>
vars == <<pc, env, disk, outFile, inFile, mem, got, i, err, logged, faults>>

Targets == Paths \cup {Dash}

Errors == {"INVALID_ARGS_ERR", "FILE_OPEN_ERR", "DESERIALIZE_ERR",
           "SERIALIZE_ERR", "MERGE_ERR", "OO_MEMORY_ERR"}
\* "config": a whole configuration; "broken": one the parser refuses;
\* "merged"/"partial": the result, all of it or cut by a write error.
Contents == {"absent", "config", "broken", "empty", "merged", "partial"}
HandleStates == {"null", "open", "closed", "twice"}
\* "twice" marks a second free: undefined behaviour in the program.
MemStates == {"null", "live", "freed", "twice"}
\* An allocation may fail for the handles, the trees, in the parser or in a merge.
Faults == {"open_output", "open_input", "read", "write", "close", "broken",
           "duplicate", "empty_arg", "oom_files", "oom_blocks", "oom_parse",
           "oom_merge"}

Free(m) == CASE m = "live" -> "freed" [] m = "null" -> "null" [] OTHER -> "twice"
\* filesystem_close refuses NULL and calls fclose otherwise.
Close(h) == CASE h = "open" -> "closed" [] h = "null" -> "null" [] OTHER -> "twice"

Init == /\ pc = "open_output"
        /\ n \in 0..MaxArgs
        /\ args \in [1..n -> Paths \cup {Insane}]
        /\ output \in Paths \cup {Dash, Insane}
        /\ \E d \in [Paths -> {"absent", "config", "broken"}] :
             disk = [p \in Targets |-> IF p = Dash THEN "empty" ELSE d[p]]
        /\ outFile = "null" /\ inFile = [k \in 1..n |-> "null"]
        /\ inArr = "null" /\ blockArr = "null" /\ merged = "null"
        /\ blocks = [k \in 1..n |-> "null"] /\ got = [k \in 1..n |-> "none"]
        /\ i = 1 /\ err = "none" /\ logged = "none" /\ faults = {}

Fault(f) == faults' = faults \cup {f}

\* open_output_file: "-" is standard output; "w" truncates before anything
\* is read.
OpenOutput ==
  /\ pc = "open_output"
  /\ pc' = "open_inputs"
  /\ \/ /\ output # Insane
        /\ outFile' = "open" /\ disk' = [disk EXCEPT ![output] = "empty"]
        /\ UNCHANGED faults
     \/ /\ output # Dash
        /\ Fault("open_output") /\ UNCHANGED <<disk, outFile>>
  /\ UNCHANGED <<env, inFile, mem, got, i, err, logged>>

\* open_input_files, up to its loop: no arguments or no memory give NULL.
AllocInputs ==
  /\ pc = "open_inputs"
  /\ \/ n = 0 /\ pc' = "check" /\ UNCHANGED <<inArr, faults>>
     \/ n > 0 /\ pc' = "check" /\ Fault("oom_files") /\ UNCHANGED inArr
     \/ n > 0 /\ pc' = "open_next" /\ inArr' = "live" /\ UNCHANGED faults
  /\ UNCHANGED <<env, disk, outFile, inFile, blocks, got, blockArr, merged,
                 i, err, logged>>

\* Mutated Following: the body of the loop counts as well.
FollowingTwice == i + 2

Following == i + 1

\* One turn of open_input_files: a file that does not open drops the array
\* and leaves the handles it held open.
OpenInput ==
  /\ pc = "open_next"
  /\ \/ /\ i > n /\ pc' = "check"
        /\ UNCHANGED <<inFile, inArr, i, faults>>
     \/ /\ i <= n /\ args[i] \in Paths /\ disk[args[i]] # "absent"
        /\ inFile' = [inFile EXCEPT ![i] = "open"]
        /\ i' = Following
        /\ UNCHANGED <<pc, inArr, faults>>
     \/ /\ i <= n
        /\ inArr' = Free(inArr) /\ pc' = "check" /\ Fault("open_input")
        /\ UNCHANGED <<inFile, i>>
  /\ UNCHANGED <<env, disk, outFile, blocks, got, blockArr, merged, err, logged>>

\* in_files is not NULL.
HaveInputs == inArr = "live"

\* Mutated FilesMissing: && for ||, and only one of its tests.
BothMissing  == outFile = "null" /\ ~HaveInputs
InputsMissing == ~HaveInputs

FilesMissing == outFile = "null" \/ ~HaveInputs

\* The test in run(), the log call and merge_config_files' first lines.
CheckFiles ==
  /\ pc = "check"
  /\ IF FilesMissing
       THEN /\ err' = "FILE_OPEN_ERR" /\ pc' = "report"
            /\ UNCHANGED <<blockArr, faults, i>>
       ELSE \/ /\ err' = "OO_MEMORY_ERR" /\ pc' = "report" /\ Fault("oom_blocks")
               /\ UNCHANGED <<blockArr, i>>
            \/ /\ blockArr' = "live" /\ i' = 1 /\ pc' = "parse"
               /\ UNCHANGED <<err, faults>>
  /\ UNCHANGED <<env, disk, outFile, inFile, inArr, blocks, got, merged, logged>>

\* Mutated FreeBlocks: the last block is forgotten.
FreeAllButLast(k) ==
  /\ blocks' = [j \in 1..n |-> IF j < k - 1 THEN Free(blocks[j]) ELSE blocks[j]]
  /\ blockArr' = Free(blockArr)

\* The trees blocks[0..k-1] are freed, then the array.
FreeBlocks(k) ==
  /\ blocks' = [j \in 1..n |-> IF j < k THEN Free(blocks[j]) ELSE blocks[j]]
  /\ blockArr' = Free(blockArr)

\* One turn of merge_config_files' loop: config_deserialize of in[i].  A read
\* error looks like the end of the file to fgetc, so it cuts the tree short.
ParseInput ==
  /\ pc = "parse" /\ i <= n
  /\ LET text == disk[args[i]] IN
       \/ /\ text # "broken"
          /\ got' = [got EXCEPT ![i] = text]
          /\ blocks' = [blocks EXCEPT ![i] = "live"] /\ i' = Following
          /\ UNCHANGED <<pc, blockArr, err, faults>>
       \/ /\ Fault("read")
          /\ got' = [got EXCEPT ![i] = "partial"]
          /\ blocks' = [blocks EXCEPT ![i] = "live"] /\ i' = Following
          /\ UNCHANGED <<pc, blockArr, err>>
       \/ /\ \/ text = "broken" /\ Fault("broken")
             \/ \E f \in {"oom_parse", "read"} : Fault(f)
          /\ err' = "DESERIALIZE_ERR" /\ FreeBlocks(i) /\ pc' = "report"
          /\ UNCHANGED <<got, i>>
  /\ UNCHANGED <<env, disk, outFile, inFile, inArr, merged, logged>>

\* Mutated Merged: a single tree is not copied, and goes with the inputs.
Uncopied == IF n = 1 THEN "freed" ELSE "live"

\* The tree merge_config_blocks returns is one of its own, also for one input.
Merged == "live"

\* merge_config_blocks (one input is only copied), then the inputs' trees are
\* freed whatever it returned.
MergeBlocks ==
  /\ pc = "parse" /\ i > n
  /\ FreeBlocks(n + 1)
  /\ \/ /\ merged' = Merged /\ pc' = "write" /\ UNCHANGED <<err, faults>>
     \/ /\ \/ Fault("oom_merge")
           \/ n > 1 /\ Fault("duplicate")
        /\ err' = "MERGE_ERR" /\ pc' = "report" /\ UNCHANGED merged
  /\ UNCHANGED <<env, disk, outFile, inFile, inArr, got, i, logged>>

\* A failed allocation for the first element of a list is taken for a
\* success, and strcmp is given the NULL text of an empty argument.
Crash ==
  /\ pc = "parse"
  /\ \/ i <= n /\ Fault("oom_parse")
     \/ i > n /\ Fault("oom_merge")
     \/ i > n /\ n > 1 /\ Fault("empty_arg")
  /\ pc' = "crashed"
  /\ UNCHANGED <<env, disk, outFile, inFile, mem, got, i, err, logged>>

\* Mutated SetOutput: what is written is never flushed.
NeverFlushed(text) == UNCHANGED disk

SetOutput(text) == disk' = [disk EXCEPT ![output] = text]

\* config_serialize writes the tree and returns 0 even if cfg_fprintf failed.
Serialize ==
  /\ pc = "write"
  /\ \/ SetOutput("merged") /\ UNCHANGED faults
     \/ SetOutput("partial") /\ Fault("write")
  /\ merged' = Free(merged)
  /\ err' = "ok" /\ pc' = "report"
  /\ UNCHANGED <<env, outFile, inFile, inArr, blocks, blockArr, got, i, logged>>

\* Mutated LogError: a failure is tried again.
RetryOpening ==
  /\ pc = "report"
  /\ logged' = err
  /\ pc' = IF err = "FILE_OPEN_ERR" THEN "open_inputs" ELSE "close_output"
  /\ UNCHANGED <<env, disk, outFile, inFile, mem, got, i, err, faults>>

\* main_log_error.
LogError ==
  /\ pc = "report"
  /\ logged' = err
  /\ pc' = "close_output"
  /\ UNCHANGED <<env, disk, outFile, inFile, mem, got, i, err, faults>>

\* filesystem_close of the output; fclose may fail to flush, which run ignores.
CloseOutput ==
  /\ pc = "close_output"
  /\ outFile' = Close(outFile)
  /\ \/ UNCHANGED <<disk, faults>>
     \/ /\ err = "ok" /\ outFile = "open"
        /\ SetOutput("partial") /\ Fault("close")
  /\ pc' = "close_inputs"
  /\ UNCHANGED <<env, inFile, mem, got, i, err, logged>>

\* close_input_files_and_free.
CloseInputs ==
  /\ pc = "close_inputs"
  /\ IF HaveInputs
       THEN /\ inFile' = [k \in 1..n |-> Close(inFile[k])]
            /\ inArr' = Free(inArr)
       ELSE UNCHANGED <<inFile, inArr>>
  /\ pc' = "exit"
  /\ UNCHANGED <<env, disk, outFile, blocks, got, blockArr, merged, i, err,
                 logged, faults>>

Next == \/ OpenOutput \/ AllocInputs \/ OpenInput \/ CheckFiles \/ ParseInput
        \/ MergeBlocks \/ Crash \/ Serialize \/ LogError \/ CloseOutput \/ CloseInputs

\* The program runs on until it returns.
Spec == Init /\ [][Next]_vars /\ WF_vars(Next)
-----------------------------------------------------------------------------
TypeOK ==
  /\ pc \in {"open_output", "open_inputs", "open_next", "check", "parse", "write",
             "report", "close_output", "close_inputs", "exit",
             "crashed"}
  /\ n \in 0..MaxArgs
  /\ args \in [1..n -> Paths \cup {Insane}]
  /\ output \in Paths \cup {Dash, Insane}
  /\ disk \in [Targets -> Contents]
  /\ outFile \in HandleStates /\ inFile \in [1..n -> HandleStates]
  /\ inArr \in MemStates /\ blockArr \in MemStates /\ merged \in MemStates
  /\ blocks \in [1..n -> MemStates]
  /\ got \in [1..n -> Contents \cup {"none"}]
  /\ i \in 1..(n + 1)
  /\ err \in Errors \cup {"none", "ok"} /\ logged \in Errors \cup {"none", "ok"}
  /\ faults \subseteq Faults

Held(j) == inFile[j] = "open"

\* Every handle and every allocation of run() is released at most once, on
\* each of the error paths as on the way of success.
ReleasedOnce ==
  /\ outFile # "twice" /\ \A j \in 1..n : inFile[j] # "twice"
  /\ "twice" \notin {inArr, blockArr, merged}
  /\ \A j \in 1..n : blocks[j] # "twice"

\* What a step reads is still there: the arrays and handles while the files
\* are parsed, the trees parsed so far until they are merged, the merged tree
\* when it is written, the output handle until it is closed.
UsesOnlyLive ==
  /\ pc = "open_next" => inArr = "live"
  /\ pc = "parse" => /\ inArr = "live" /\ blockArr = "live" /\ outFile = "open"
                     /\ \A j \in 1..n : Held(j) /\ (j < i => blocks[j] = "live")
  /\ pc = "write" => merged = "live" /\ outFile = "open"

\* A run that returns holds nothing any more, except the input files it had
\* opened before one that did not open: open_input_files forgets those.
CleanExit ==
  pc = "exit" =>
    /\ "live" \notin {inArr, blockArr, merged} /\ outFile # "open"
    /\ \A j \in 1..n : blocks[j] # "live"
    /\ \A j \in 1..n : Held(j) => /\ err = "FILE_OPEN_ERR" /\ "open_input" \in faults
                                 /\ j < i /\ inFile[i] = "null"

\* A run that returns 0 met no failure but an input or output error stdio
\* keeps to itself; without one, and if the output is not also an input, the
\* output holds the merge of every input file as it stands on the disk.
SuccessIsComplete ==
  pc = "exit" /\ err = "ok" =>
    /\ n > 0 /\ faults \subseteq {"read", "write", "close"}
    /\ faults = {} /\ output \notin {args[j] : j \in 1..n} =>
         /\ disk[output] = "merged"
         /\ \A j \in 1..n : got[j] = "config" /\ disk[args[j]] = "config"

\* What stops a run at the stage that gives each status.
Causes == [INVALID_ARGS_ERR |-> {}, SERIALIZE_ERR |-> {},
           FILE_OPEN_ERR    |-> {"open_output", "open_input", "oom_files"},
           OO_MEMORY_ERR    |-> {"oom_blocks"},
           DESERIALIZE_ERR  |-> {"broken", "read", "oom_parse"},
           MERGE_ERR        |-> {"duplicate", "oom_merge"}]

\* A run stops at the first stage that fails, and its status is that stage's: no
\* other stage met a failure, but for reads that failed unseen before a merge.
\* The status says where the run stopped and not why, and the words that are
\* printed for it (main.c:139, 148) name only one of its causes.
StatusNamesStage ==
  pc = "exit" /\ err # "ok" =>
    /\ logged = err
    /\ faults \subseteq Causes[err] \cup (IF err = "MERGE_ERR" THEN {"read"} ELSE {})
    /\ Causes[err] \cap faults # {} \/ (err = "FILE_OPEN_ERR" /\ n = 0)

\* main.c:142 announces "input config file can not be loaded." and main.c:145
\* "merged config file can not be written.": a run that could not read an input to
\* its end, or not write its output, ought not to return 0.
StreamErrorsReported ==
  pc = "exit" /\ faults \cap {"read", "write", "close"} # {} => err # "ok"

JobTarget == IF outFile = "null" THEN "kept"
             ELSE CASE disk[output] = "merged"  -> "whole"
                    [] disk[output] = "partial" -> "damaged"
                    [] OTHER                    -> "emptied"

JobStatus == IF pc = "exit" THEN err ELSE "running"

Job == INSTANCE ConfigJob WITH target <- JobTarget, status <- JobStatus

\* The output is emptied before it is written and written at most once, the
\* status is 0 only after that, and no failed run leaves a whole merge behind.
ImplementsJob == Job!Spec
=============================================================================
