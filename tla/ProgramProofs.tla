---------------------------- MODULE ProgramProofs ----------------------------
(***************************************************************************)
(* Theorems about run() and about the whole program, for any number of     *)
(* arguments, places and paths.                                            *)
(*                                                                         *)
(* First run() on its own (Loader).  A tree is typed only if its file has a*)
(* name filesystem_open accepts, so TypeOK is inductive with SaneInputs.   *)
(* The ownership properties need to know, at each step of run(), what the  *)
(* steps before it acquired and dropped: that is Ownership, one conjunct   *)
(* per stretch of the code.                                                *)
(*                                                                         *)
(* Then main() (Program).  Before run() nothing of its state changes, and  *)
(* what run() finds is one of its initial states, so that what was proved  *)
(* of its steps holds of main() as well.                                   *)
(***************************************************************************)
EXTENDS Program, FiniteSetTheorems, TLAPS

\* What a run does, without the fairness that makes it end.
Steps == Init /\ [][Next]_vars

\* Only sane names are opened: all of them once open_input_files succeeded.
SaneInputs ==
  /\ pc \in {"open_output", "open_inputs"} => i = 1 /\ inArr = "null"
  /\ pc = "open_next" => \A j \in 1..n : j < i => args[j] \in Paths
  /\ pc = "check" /\ inArr = "live" => \A j \in 1..n : args[j] \in Paths
  /\ pc = "parse" => \A j \in 1..n : args[j] \in Paths

Typed == TypeOK /\ SaneInputs

\* The inductive invariant behind TypeCorrect: types and sane names.
LEMMA TypedAlways == Steps => []Typed
<1>1. Init => Typed
  BY LoaderAssumption
     DEF Init, Typed, TypeOK, SaneInputs, Targets, Contents, HandleStates, MemStates
<1>2. TypeOK /\ SaneInputs /\ [Next]_vars => TypeOK'
  <2> SUFFICES ASSUME TypeOK, SaneInputs, [Next]_vars PROVE TypeOK'
    OBVIOUS
  <2> USE DEF TypeOK, env, mem
  <2>0. \A m \in MemStates : Free(m) \in MemStates
    BY DEF Free, MemStates
  <2>00. \A h \in HandleStates : Close(h) \in HandleStates
    BY DEF Close, HandleStates
  <2>1. CASE OpenOutput
    <3>1. faults' \subseteq Faults
      BY <2>1 DEF OpenOutput, Fault, Faults
    <3>2. disk' \in [Targets -> Contents]
      BY <2>1 DEF OpenOutput, Contents
    <3> QED
      BY <2>1, <3>1, <3>2 DEF OpenOutput, HandleStates
  <2>2. CASE AllocInputs
    <3>1. faults' \subseteq Faults
      BY <2>2 DEF AllocInputs, Fault, Faults
    <3> QED
      BY <2>2, <3>1 DEF AllocInputs, MemStates
  <2>3. CASE OpenInput
    <3>1. faults' \subseteq Faults
      BY <2>3 DEF OpenInput, Fault, Faults
    <3>2. i' \in 1..(n + 1) /\ inFile' \in [1..n -> HandleStates]
      BY <2>3, LoaderAssumption DEF OpenInput, Following, HandleStates
    <3> QED
      BY <2>3, <2>0, <3>1, <3>2 DEF OpenInput
  <2>4. CASE CheckFiles
    <3>1. faults' \subseteq Faults
      BY <2>4 DEF CheckFiles, Fault, Faults
    <3>2. i' \in 1..(n + 1) /\ blockArr' \in MemStates
      BY <2>4, LoaderAssumption DEF CheckFiles, MemStates
    <3>3. err' \in Errors \cup {"none", "ok"}
      BY <2>4 DEF CheckFiles, Errors
    <3> QED
      BY <2>4, <3>1, <3>2, <3>3 DEF CheckFiles
  <2>5. CASE ParseInput
    <3>1. faults' \subseteq Faults
      BY <2>5 DEF ParseInput, Fault, Faults
    <3>2. i' \in 1..(n + 1)
      BY <2>5, LoaderAssumption DEF ParseInput, Following
    <3>3. blocks' \in [1..n -> MemStates] /\ blockArr' \in MemStates
      BY <2>5, <2>0 DEF ParseInput, FreeBlocks, MemStates
    <3>4. i \in 1..n /\ disk[args[i]] \in Contents
      BY <2>5, LoaderAssumption DEF ParseInput, SaneInputs, Targets
    <3>5. got' \in [1..n -> Contents \cup {"none"}]
      <4>1. got' = got \/ got' = [got EXCEPT ![i] = "partial"]
                      \/ got' = [got EXCEPT ![i] = disk[args[i]]]
        BY <2>5 DEF ParseInput
      <4> QED
        BY <4>1, <3>4 DEF Contents
    <3>6. err' \in Errors \cup {"none", "ok"}
      BY <2>5 DEF ParseInput, Errors
    <3> QED
      BY <2>5, <3>1, <3>2, <3>3, <3>5, <3>6 DEF ParseInput
  <2>6. CASE MergeBlocks
    <3>1. faults' \subseteq Faults
      BY <2>6 DEF MergeBlocks, Merged, Fault, Faults
    <3> QED
      BY <2>6, <2>0, <3>1 DEF MergeBlocks, Merged, FreeBlocks, MemStates, Errors
  <2>7. CASE Crash
    BY <2>7 DEF Crash, Fault, Faults
  <2>8. CASE Serialize
    <3>1. faults' \subseteq Faults
      BY <2>8 DEF Serialize, Fault, Faults
    <3>2. disk' \in [Targets -> Contents]
      BY <2>8 DEF Serialize, SetOutput, Contents
    <3> QED
      BY <2>8, <2>0, <3>1, <3>2 DEF Serialize
  <2>9. CASE LogError
    BY <2>9 DEF LogError
  <2>10. CASE CloseOutput
    <3>1. faults' \subseteq Faults
      BY <2>10 DEF CloseOutput, Fault, Faults
    <3>2. disk' \in [Targets -> Contents]
      BY <2>10 DEF CloseOutput, SetOutput, Contents
    <3> QED
      BY <2>10, <2>00, <3>1, <3>2 DEF CloseOutput
  <2>11. CASE CloseInputs
    BY <2>11, <2>0, <2>00 DEF CloseInputs
  <2>12. CASE UNCHANGED vars
    BY <2>12 DEF vars
  <2> QED
    BY <2>1, <2>2, <2>3, <2>4, <2>5, <2>6, <2>7, <2>8, <2>9, <2>10, <2>11, <2>12
       DEF Next
<1>3. TypeOK /\ SaneInputs /\ [Next]_vars => SaneInputs'
  <2> SUFFICES ASSUME TypeOK, SaneInputs, [Next]_vars PROVE SaneInputs'
    OBVIOUS
  <2> USE DEF SaneInputs, env, mem
  <2>1. n \in Nat /\ i \in 1..(n + 1)
    BY LoaderAssumption DEF TypeOK
  <2>2. CASE OpenOutput \/ AllocInputs
    BY <2>1, <2>2 DEF OpenOutput, AllocInputs
  <2>3. CASE OpenInput
    BY <2>1, <2>3 DEF OpenInput, Following, Free
  <2>4. CASE CheckFiles
    BY <2>4 DEF CheckFiles, FilesMissing, HaveInputs
  <2>5. CASE ParseInput \/ MergeBlocks \/ Crash
    BY <2>5 DEF ParseInput, Following, MergeBlocks, Merged, Crash
  <2>6. CASE Serialize \/ LogError \/ CloseOutput \/ CloseInputs
    BY <2>6 DEF Serialize, LogError, CloseOutput, CloseInputs
  <2>7. CASE UNCHANGED vars
    BY <2>7 DEF vars
  <2> QED
    BY <2>2, <2>3, <2>4, <2>5, <2>6, <2>7 DEF Next
<1> QED
  BY <1>1, <1>2, <1>3, PTL DEF Steps, Typed

\* The steps of a run keep every type, whether or not the run ends.
LEMMA TypeAlways == Steps => []TypeOK
  BY TypedAlways, PTL DEF Typed

\* Every variable of a run keeps its type: the loop counter stays within the
\* arrays, every handle and tree has one of the states that can be told apart.
THEOREM TypeCorrect == Spec => []TypeOK
  BY TypeAlways, PTL DEF Spec, Steps
-----------------------------------------------------------------------------
Opening == {"open_output", "open_inputs", "open_next", "check"}
Leaving == {"report", "close_output", "close_inputs", "exit"}

\* The inputs before the loop counter are open and the others are not.
OpenedSoFar == \A j \in 1..n : inFile[j] = IF j < i THEN "open" ELSE "null"

\* open_input_files gave up, and what it had opened is out of reach.
Abandoned == /\ OpenedSoFar /\ inArr \in {"null", "freed"}
             /\ n = 0 \/ i <= n
             /\ inArr = "null" => i = 1
             /\ inArr = "freed" => "open_input" \in faults

\* Nothing is parsed or allocated while the files are opened.
WhileOpening ==
  pc \in Opening =>
    /\ OpenedSoFar
    /\ pc = "open_output" => outFile = "null"
    /\ outFile \in {"null", "open"}
    /\ blockArr = "null" /\ merged = "null" /\ err = "none"
    /\ \A j \in 1..n : blocks[j] = "null"
    /\ pc = "open_next" => inArr = "live"
    /\ pc = "check" => Abandoned \/ (inArr = "live" /\ i > n)

AllOpen == inArr = "live" /\ \A j \in 1..n : inFile[j] = "open"

\* A run that parses and merges holds all of its files, and the trees parsed
\* so far.
WhileMerging ==
  pc \in {"parse", "write"} =>
    /\ outFile = "open" /\ AllOpen
    /\ pc = "parse" =>
         /\ blockArr = "live" /\ merged = "null"
         /\ \A j \in 1..n : blocks[j] = IF j < i THEN "live" ELSE "null"
    /\ pc = "write" =>
         /\ blockArr = "freed" /\ merged = "live"
         /\ \A j \in 1..n : blocks[j] = "freed"

\* A run on its way out holds no tree; it holds its files until it closes
\* them, all of them or none.
WhileLeaving ==
  pc \in Leaving =>
    /\ blockArr \in {"null", "freed"} /\ merged \in {"null", "freed"}
    /\ \A j \in 1..n : blocks[j] \in {"null", "freed"}
    /\ outFile \in IF pc \in {"report", "close_output"} THEN {"null", "open"}
                                                      ELSE {"null", "closed"}
    /\ \/ Abandoned /\ err = "FILE_OPEN_ERR"
       \/ IF pc = "exit" THEN inArr = "freed" /\ \A j \in 1..n : inFile[j] = "closed"
                         ELSE AllOpen

\* A run that crashed keeps what it had: nothing was released twice.
WhileCrashed ==
  pc = "crashed" => ReleasedOnce

Ownership == WhileOpening /\ WhileMerging /\ WhileLeaving /\ WhileCrashed

\* The stretches of run() hand over to each other what they hold.
LEMMA OwnershipAlways == Steps => []Ownership
<1>1. Init => Ownership
  BY DEF Init, Ownership, WhileOpening, WhileMerging, WhileLeaving, WhileCrashed,
         Opening, Leaving, OpenedSoFar
<1>2. Typed /\ Ownership /\ [Next]_vars => Ownership'
  <2> SUFFICES ASSUME Typed, Ownership, [Next]_vars PROVE Ownership'
    OBVIOUS
  <2> USE DEF env, mem, Ownership, WhileOpening, WhileMerging, WhileLeaving,
              WhileCrashed, Opening, Leaving, OpenedSoFar, Abandoned, AllOpen
  <2>0. /\ n \in Nat /\ i \in 1..(n + 1)
        /\ inFile \in [1..n -> HandleStates] /\ blocks \in [1..n -> MemStates]
    BY LoaderAssumption DEF Typed, TypeOK
  <2>1. CASE OpenOutput
    BY <2>0, <2>1 DEF OpenOutput, Typed, SaneInputs
  <2>2. CASE AllocInputs
    <3>1. i = 1 /\ inArr = "null"
      BY <2>2 DEF AllocInputs, Typed, SaneInputs
    <3>2. pc' \in {"check", "open_next"}
      BY <2>2 DEF AllocInputs
    <3>3. pc' = "check" => inArr' = "null"
      BY <2>2, <3>1 DEF AllocInputs
    <3>4. /\ UNCHANGED <<outFile, inFile, blocks, blockArr, merged, err, i, n>>
          /\ pc = "open_inputs" /\ (pc' = "open_next" => inArr' = "live")
      BY <2>2 DEF AllocInputs
    <3>5. n = 0 \/ i <= n
      BY <2>0, <3>1
    <3>6. OpenedSoFar' /\ (pc' = "check" => Abandoned')
      BY <2>0, <3>1, <3>3, <3>4, <3>5
    <3>7. WhileOpening'
      BY <3>2, <3>4, <3>6
    <3> QED
      BY <3>2, <3>7
  <2>3. CASE OpenInput
    <3>1. /\ pc = "open_next" /\ pc' \in {"check", "open_next"}
          /\ UNCHANGED <<outFile, blocks, blockArr, merged, err, n>>
      BY <2>3 DEF OpenInput
    <3>2. OpenedSoFar'
      BY <2>0, <2>3 DEF OpenInput, Following
    <3>3. pc' = "open_next" => inArr' = "live"
      BY <2>3 DEF OpenInput
    <3>4. pc' = "check" => Abandoned' \/ (inArr' = "live" /\ i' > n')
      BY <2>0, <2>3, <3>2 DEF OpenInput, Following, Free, Fault
    <3>5. WhileOpening'
      BY <3>1, <3>2, <3>3, <3>4
    <3> QED
      BY <3>1, <3>5
  <2>4. CASE CheckFiles
    BY <2>0, <2>4 DEF CheckFiles, FilesMissing, HaveInputs
  <2>5. CASE ParseInput
    BY <2>0, <2>5 DEF ParseInput, Following, FreeBlocks, Free
  <2>6. CASE MergeBlocks
    BY <2>0, <2>6 DEF MergeBlocks, Merged, FreeBlocks, Free
  <2>7. CASE Crash
    BY <2>0, <2>7 DEF Crash, ReleasedOnce
  <2>8. CASE Serialize
    BY <2>0, <2>8 DEF Serialize, Free
  <2>9. CASE LogError
    BY <2>0, <2>9 DEF LogError
  <2>10. CASE CloseOutput
    BY <2>0, <2>10 DEF CloseOutput, Close, Fault
  <2>11. CASE CloseInputs
    BY <2>0, <2>11 DEF CloseInputs, HaveInputs, Free, Close
  <2>12. CASE UNCHANGED vars
    BY <2>12 DEF vars, ReleasedOnce
  <2> QED
    BY <2>1, <2>2, <2>3, <2>4, <2>5, <2>6, <2>7, <2>8, <2>9, <2>10, <2>11, <2>12
       DEF Next
<1> QED
  BY <1>1, <1>2, TypedAlways, PTL DEF Steps

\* The steps of a run, whether or not it ends, release everything once, use
\* only what is there, and leave only what open_input_files forgets.
LEMMA SafeAlways == Steps => [](ReleasedOnce /\ UsesOnlyLive /\ CleanExit)
<1> USE DEF Opening, Leaving, OpenedSoFar, Abandoned, AllOpen
<1>1. Typed /\ Ownership => ReleasedOnce /\ UsesOnlyLive /\ CleanExit
  <2> SUFFICES ASSUME Typed, Ownership
               PROVE  ReleasedOnce /\ UsesOnlyLive /\ CleanExit
    OBVIOUS
  <2>1. /\ n \in Nat /\ i \in 1..(n + 1)
        /\ pc \in Opening \cup {"parse", "write", "crashed"} \cup Leaving
    BY LoaderAssumption DEF Typed, TypeOK
  <2>2. CASE pc \in Opening
    BY <2>1, <2>2 DEF Ownership, WhileOpening, ReleasedOnce, UsesOnlyLive, CleanExit,
                      Typed, SaneInputs
  <2>3. CASE pc \in {"parse", "write"}
    BY <2>1, <2>3 DEF Ownership, WhileMerging, ReleasedOnce, UsesOnlyLive, CleanExit,
                      Held
  <2>4. CASE pc \in Leaving
    <3>1. ReleasedOnce /\ UsesOnlyLive
      BY <2>1, <2>4 DEF Ownership, WhileLeaving, ReleasedOnce, UsesOnlyLive
    <3>2. ASSUME pc = "exit"
          PROVE  \A j \in 1..n : Held(j) => /\ err = "FILE_OPEN_ERR" /\ "open_input" \in faults
                                          /\ j < i /\ inFile[i] = "null"
      BY <2>1, <3>2 DEF Ownership, WhileLeaving, Held
    <3> QED
      BY <2>4, <3>1, <3>2 DEF Ownership, WhileLeaving, CleanExit
  <2>5. CASE pc = "crashed"
    BY <2>5 DEF Ownership, WhileCrashed, UsesOnlyLive, CleanExit
  <2> QED
    BY <2>1, <2>2, <2>3, <2>4, <2>5
<1> QED
  BY <1>1, TypedAlways, OwnershipAlways, PTL

\* No handle, array or tree of run() is released twice, nothing is read after
\* it was released, and a run that returns has leaked nothing but the inputs
\* opened before one that failed to open.
THEOREM OwnershipSafe == Spec => [](ReleasedOnce /\ UsesOnlyLive /\ CleanExit)
  BY SafeAlways, PTL DEF Spec, Steps
-----------------------------------------------------------------------------
Merges == {"merged", "partial"}

\* The output exists once its handle does; the steps before Serialize leave it
\* empty, and so does every failing run.
OutputFate ==
  /\ outFile # "null" => output \in Targets
  /\ pc = "open_output" => outFile = "null"
  /\ pc \in {"parse", "write"} => outFile = "open" /\ err = "none"
  /\ err = "ok" => /\ outFile # "null" /\ disk[output] \in Merges
                  /\ pc \in Leaving
  /\ err # "ok" /\ outFile # "null" => disk[output] \notin Merges
  /\ pc \in Leaving => err # "none"

\* What OutputFate says holds after every step.
LEMMA OutputFateAlways == Steps => []OutputFate
<1>1. Init => OutputFate
  BY DEF Init, OutputFate, Leaving
<1>2. Typed /\ Ownership /\ OutputFate /\ [Next]_vars => OutputFate'
  <2> SUFFICES ASSUME Typed, Ownership, OutputFate, [Next]_vars PROVE OutputFate'
    OBVIOUS
  <2> USE DEF OutputFate, Merges, Leaving, env, mem
  <2>0. disk \in [Targets -> Contents] /\ output \in Targets \cup {Insane}
    BY DEF Typed, TypeOK, Targets
  <2>1. CASE OpenOutput
    BY <2>0, <2>1 DEF OpenOutput, Ownership, WhileOpening, Opening
  <2>2. CASE AllocInputs \/ OpenInput \/ Crash
    BY <2>2 DEF AllocInputs, OpenInput, Crash
  <2>3. CASE CheckFiles
    BY <2>3 DEF CheckFiles, FilesMissing, Ownership, WhileOpening, Opening
  <2>4. CASE ParseInput \/ MergeBlocks
    BY <2>4 DEF ParseInput, MergeBlocks, Merged
  <2>5. CASE Serialize
    BY <2>0, <2>5 DEF Serialize, SetOutput
  <2>6. CASE LogError \/ CloseInputs
    BY <2>6 DEF LogError, CloseInputs
  <2>7. CASE CloseOutput
    BY <2>0, <2>7 DEF CloseOutput, SetOutput, Close
  <2>8. CASE UNCHANGED vars
    BY <2>8 DEF vars
  <2> QED
    BY <2>1, <2>2, <2>3, <2>4, <2>5, <2>6, <2>7, <2>8 DEF Next
<1> QED
  BY <1>1, <1>2, TypedAlways, OwnershipAlways, PTL DEF Steps

\* Each step of a run is one of ConfigJob or leaves output and status alone.
LEMMA JobAlways == Steps => ImplementsJob
<1> USE DEF JobTarget, JobStatus
<1>1. Init => Job!Init
  BY DEF Init, Job!Init
<1>2. Typed /\ OutputFate /\ OutputFate' /\ [Next]_vars => [Job!Next]_(Job!vars)
  <2> SUFFICES ASSUME Typed, OutputFate, OutputFate', [Next]_vars
               PROVE  [Job!Next]_(Job!vars)
    OBVIOUS
  <2> USE DEF OutputFate, Merges, Leaving, env, mem, Job!vars
  <2>0. /\ disk \in [Targets -> Contents] /\ output \in Targets \cup {Insane}
        /\ err \in Errors \cup {"none", "ok"}
    BY DEF Typed, TypeOK, Targets
  <2>1. CASE OpenOutput
    <3>1. CASE outFile' = "null"
      BY <2>1, <3>1 DEF OpenOutput
    <3>2. CASE outFile' # "null"
      BY <2>0, <2>1, <3>2 DEF OpenOutput, Job!Next, Job!Empty
    <3> QED
      BY <3>1, <3>2
  <2>2. CASE \/ AllocInputs \/ OpenInput \/ CheckFiles \/ ParseInput \/ MergeBlocks
             \/ Crash \/ LogError
    BY <2>2 DEF AllocInputs, OpenInput, CheckFiles, ParseInput, MergeBlocks, Merged, Crash,
                LogError
  <2>3. CASE Serialize
    BY <2>0, <2>3 DEF Serialize, SetOutput, Job!Next, Job!Write
  <2>4. CASE CloseOutput
    <3>1. CASE disk' = disk
      BY <2>4, <3>1 DEF CloseOutput, Close
    <3>2. CASE disk' # disk
      BY <2>0, <2>4, <3>2 DEF CloseOutput, SetOutput, Close, Job!Next, Job!Lose
    <3> QED
      BY <3>1, <3>2
  <2>5. CASE CloseInputs
    <3>1. /\ pc = "close_inputs" /\ pc' = "exit"
          /\ UNCHANGED <<disk, output, outFile, err>>
      BY <2>5 DEF CloseInputs
    <3>2. CASE err = "ok"
      BY <3>1, <3>2 DEF Job!Next, Job!Succeed
    <3>3. CASE err # "ok"
      <4>1. err \in Errors /\ JobTarget # "whole"
        BY <2>0, <3>1, <3>3
      <4> QED
        BY <3>1, <4>1 DEF Job!Next, Job!Fail
    <3> QED
      BY <3>2, <3>3
  <2>6. CASE UNCHANGED vars
    BY <2>6 DEF vars
  <2> QED
    BY <2>1, <2>2, <2>3, <2>4, <2>5, <2>6 DEF Next
<1> QED
  BY <1>1, <1>2, TypedAlways, OutputFateAlways, PTL DEF Steps, Job!Spec, ImplementsJob

\* Whatever fails, a run does to its output and reports what ConfigJob allows:
\* it empties it, writes it once, returns 0 only then, and never returns an
\* error and a whole merge together.
THEOREM LoaderImplementsJob == Spec => ImplementsJob
  BY JobAlways, PTL DEF Spec, Steps
-----------------------------------------------------------------------------
\* What may fail while the files are opened, and what the status leaves unsaid.
OpenFaults == {"open_output", "open_input", "oom_files"}
Unsaid     == IF err = "MERGE_ERR" THEN {"read"} ELSE {}

\* The status accounts for every fault that happened, and there is one, unless
\* there was no input at all.
Blamed == /\ faults \subseteq Causes[err] \cup Unsaid
          /\ \/ \E f \in Causes[err] : f \in faults
             \/ err = "FILE_OPEN_ERR" /\ n = 0

\* The faults so far are those the steps taken can survive, or the status
\* accounts for them.
Blame ==
  /\ outFile = "null" => pc = "open_output" \/ "open_output" \in faults
  /\ pc = "open_output" => faults = {}
  /\ pc \in {"open_inputs", "open_next", "check"} => faults \subseteq OpenFaults
  /\ pc = "open_inputs" /\ outFile = "open" => faults = {}
  /\ pc \in {"open_next", "check"} /\ inArr = "live" => n > 0
  /\ pc \in {"open_next", "check"} /\ outFile = "open" /\ inArr = "live" => faults = {}
  /\ pc = "check" => \/ inArr = "live"
                    \/ n = 0 \/ "open_input" \in faults \/ "oom_files" \in faults
  /\ pc \in {"parse", "write"} => n > 0 /\ faults \subseteq {"read"}
  /\ pc \in Leaving /\ err = "ok" => n > 0 /\ faults \subseteq {"read", "write", "close"}
  /\ pc \in Leaving /\ err # "ok" => Blamed
  /\ pc \in Leaving \ {"report"} => logged = err

\* A fault is survived or accounted for by the status.
LEMMA BlameAlways == Steps => []Blame
<1>1. Init => Blame
  BY DEF Init, Blame, Leaving
<1>2. Typed /\ Ownership /\ OutputFate /\ Blame /\ [Next]_vars => Blame'
  <2> SUFFICES ASSUME Typed, Ownership, OutputFate, Blame, [Next]_vars PROVE Blame'
    OBVIOUS
  <2> USE DEF Blame, Leaving, env, mem, Fault, OpenFaults
  <2>0. n \in Nat /\ i \in 1..(n + 1) /\ outFile \in HandleStates
    BY LoaderAssumption DEF Typed, TypeOK
  <2>00. /\ Causes["FILE_OPEN_ERR"] = OpenFaults
         /\ Causes["DESERIALIZE_ERR"] = {"broken", "read", "oom_parse"}
         /\ Causes["MERGE_ERR"] = {"duplicate", "oom_merge"}
         /\ Causes["OO_MEMORY_ERR"] = {"oom_blocks"}
    BY DEF Causes
  <2>1. CASE OpenOutput
    BY <2>0, <2>1 DEF OpenOutput, OutputFate
  <2>2. CASE AllocInputs
    BY <2>0, <2>2 DEF AllocInputs, Typed, SaneInputs
  <2>3. CASE OpenInput
    <3>1. pc = "open_next" /\ inArr = "live"
      BY <2>3 DEF OpenInput, Ownership, WhileOpening, Opening
    <3>2. \/ pc' \in {"open_next", "check"} /\ UNCHANGED <<faults, inArr>>
          \/ /\ pc' = "check" /\ inArr' = "freed"
             /\ faults' = faults \cup {"open_input"}
      BY <2>3, <3>1 DEF OpenInput, Free
    <3>3. UNCHANGED <<n, outFile>>
      BY <2>3 DEF OpenInput
    <3> QED
      BY <3>1, <3>2, <3>3
  <2>4. CASE CheckFiles
    <3>1. outFile \in {"null", "open"}
      BY <2>4 DEF CheckFiles, Ownership, WhileOpening, Opening
    <3>2. CASE FilesMissing
      <4>1. /\ pc = "check" /\ pc' = "report" /\ err' = "FILE_OPEN_ERR"
            /\ UNCHANGED <<n, outFile, faults>>
        BY <2>4, <3>2 DEF CheckFiles
      <4>2. /\ faults \subseteq OpenFaults
            /\ n = 0 \/ \E f \in OpenFaults : f \in faults
        BY <2>0, <3>1, <3>2, <4>1 DEF FilesMissing, HaveInputs
      <4>3. Blamed'
        BY <2>00, <4>1, <4>2 DEF Blamed, Unsaid
      <4> QED
        BY <4>1, <4>3
    <3>3. CASE ~FilesMissing
      <4>1. pc = "check" /\ outFile = "open" /\ inArr = "live" /\ n > 0 /\ faults = {}
        BY <2>0, <2>4, <3>1, <3>3 DEF CheckFiles, FilesMissing, HaveInputs
      <4>2. /\ UNCHANGED <<n, outFile>>
            /\ \/ err' = "OO_MEMORY_ERR" /\ pc' = "report" /\ faults' = {"oom_blocks"}
               \/ pc' = "parse" /\ faults' = faults
        BY <2>4, <3>3, <4>1 DEF CheckFiles
      <4>3. pc' = "report" => Blamed'
        BY <2>00, <4>2 DEF Blamed, Unsaid
      <4> QED
        BY <4>1, <4>2, <4>3
    <3> QED
      BY <3>2, <3>3
  <2>5. CASE ParseInput
    <3>1. /\ pc = "parse" /\ n > 0 /\ faults \subseteq {"read"} /\ outFile = "open"
          /\ UNCHANGED <<n, outFile>>
      BY <2>5 DEF ParseInput, OutputFate
    <3>2. \/ pc' = "parse" /\ faults' \subseteq faults \cup {"read"}
          \/ /\ pc' = "report" /\ err' = "DESERIALIZE_ERR"
             /\ \E f \in {"broken", "read", "oom_parse"} : faults' = faults \cup {f}
      BY <2>5 DEF ParseInput, Following
    <3>3. pc' = "report" => Blamed'
      BY <2>00, <3>1, <3>2 DEF Blamed, Unsaid
    <3> QED
      BY <3>1, <3>2, <3>3
  <2>6. CASE MergeBlocks
    <3>1. /\ pc = "parse" /\ n > 0 /\ faults \subseteq {"read"} /\ outFile = "open"
          /\ UNCHANGED <<n, outFile>>
      BY <2>6 DEF MergeBlocks, Merged, OutputFate
    <3>2. \/ pc' = "write" /\ faults' = faults
          \/ /\ pc' = "report" /\ err' = "MERGE_ERR"
             /\ \E f \in {"duplicate", "oom_merge"} : faults' = faults \cup {f}
      BY <2>6 DEF MergeBlocks, Merged
    <3>3. pc' = "report" => Blamed'
      BY <2>00, <3>1, <3>2 DEF Blamed, Unsaid
    <3> QED
      BY <3>1, <3>2, <3>3
  <2>7. CASE Crash
    BY <2>7 DEF Crash
  <2>8. CASE Serialize
    BY <2>8 DEF Serialize, Blamed, Unsaid
  <2>9. CASE LogError
    BY <2>9 DEF LogError, Blamed, Unsaid
  <2>10. CASE CloseOutput
    BY <2>10 DEF CloseOutput, Close, Blamed, Unsaid
  <2>11. CASE CloseInputs
    BY <2>11 DEF CloseInputs, Blamed, Unsaid
  <2>12. CASE UNCHANGED vars
    BY <2>12 DEF vars, Blamed, Unsaid
  <2> QED
    BY <2>1, <2>2, <2>3, <2>4, <2>5, <2>6, <2>7, <2>8, <2>9, <2>10, <2>11, <2>12
       DEF Next
<1> QED
  BY <1>1, <1>2, TypedAlways, OwnershipAlways, OutputFateAlways, PTL DEF Steps

\* A run that fails stopped at its first failure; fairness is not needed.
LEMMA StatusAlways == Steps => []StatusNamesStage
<1>1. Blame => StatusNamesStage
  BY DEF Blame, Blamed, Unsaid, StatusNamesStage, Leaving
<1> QED
  BY <1>1, BlameAlways, PTL

\* A run that fails stopped at the first stage that did, and its status is that
\* stage's: no failure of another stage is passed over or blamed instead, apart
\* from the reads that failed unseen.
THEOREM StatusesNameStage == Spec => []StatusNamesStage
  BY StatusAlways, PTL DEF Spec, Steps
-----------------------------------------------------------------------------
Inputs == {args[j] : j \in 1..n}

\* The output is not one of the inputs.
Apart == output \notin Inputs

\* What is read so far is what the files hold, unless a read failed.
Faithful ==
  /\ \A p \in Paths : p # output => disk[p] \in {"absent", "config", "broken"}
  /\ Apart => \A j \in 1..n :
       /\ inFile[j] # "null" => args[j] \in Paths /\ disk[args[j]] # "absent"
       /\ faults = {} /\ (pc = "parse" => j < i) /\ pc \notin Opening \cup {"crashed"}
            /\ err \in {"none", "ok"}
            => got[j] = disk[args[j]] /\ disk[args[j]] # "broken"
  /\ err = "ok" /\ faults = {} => disk[output] = "merged"

\* Faithful holds after every step.
LEMMA FaithfulAlways == Steps => []Faithful
<1>1. Init => Faithful
  BY LoaderAssumption DEF Init, Faithful, Opening, Targets
<1>2. Typed /\ Ownership /\ OutputFate /\ Faithful /\ [Next]_vars => Faithful'
  <2> SUFFICES ASSUME Typed, Ownership, OutputFate, Faithful, [Next]_vars
               PROVE Faithful'
    OBVIOUS
  <2> USE DEF Faithful, Apart, Inputs, Opening, env, mem, Fault
  <2>0. /\ n \in Nat /\ i \in 1..(n + 1) /\ disk \in [Targets -> Contents]
        /\ inFile \in [1..n -> HandleStates]
        /\ Dash \notin Paths /\ Paths \subseteq Targets
        /\ got \in [1..n -> Contents \cup {"none"}]
    BY LoaderAssumption DEF Typed, TypeOK, Targets
  <2>1. CASE OpenOutput
    BY <2>0, <2>1 DEF OpenOutput, OutputFate
  <2>2. CASE AllocInputs
    BY <2>0, <2>2 DEF AllocInputs
  <2>3. CASE OpenInput
    BY <2>0, <2>3 DEF OpenInput, Following, Free, Ownership, WhileOpening
  <2>4. CASE CheckFiles
    BY <2>0, <2>4 DEF CheckFiles
  <2>5. CASE ParseInput
    <3>1. /\ pc = "parse" /\ err = "none" /\ i \in 1..n
          /\ inFile[i] = "open"
          /\ UNCHANGED <<n, args, output, disk, inFile>>
      BY <2>0, <2>5 DEF ParseInput, OutputFate, Ownership, WhileMerging, AllOpen
    <3>2. \/ /\ disk[args[i]] # "broken" /\ got' = [got EXCEPT ![i] = disk[args[i]]]
             /\ i' = i + 1 /\ UNCHANGED <<pc, err, faults>>
          \/ "read" \in faults' /\ err' = err
          \/ err' = "DESERIALIZE_ERR"
      BY <2>5 DEF ParseInput, Following
    <3>3. CASE /\ disk[args[i]] # "broken" /\ got' = [got EXCEPT ![i] = disk[args[i]]]
               /\ i' = i + 1 /\ UNCHANGED <<pc, err, faults>>
      <4>1. \A j \in 1..n : j < i' => j < i \/ j = i
        BY <2>0, <3>3
      <4>2. \A j \in 1..n : got'[j] = IF j = i THEN disk[args[i]] ELSE got[j]
        BY <2>0, <3>3
      <4>3. Apart /\ faults = {} =>
              \A j \in 1..n : j < i => got[j] = disk[args[j]] /\ disk[args[j]] # "broken"
        BY <3>1
      <4>4. Apart' /\ faults' = {} =>
              \A j \in 1..n : j < i' => got'[j] = disk[args[j]] /\ disk[args[j]] # "broken"
        BY <3>1, <3>3, <4>1, <4>2, <4>3
      <4> QED
        BY <3>1, <3>3, <4>4
    <3>4. CASE "read" \in faults' /\ err' = err
      BY <3>1, <3>4
    <3>5. CASE err' = "DESERIALIZE_ERR"
      BY <3>1, <3>5
    <3> QED
      BY <3>2, <3>3, <3>4, <3>5
  <2>6. CASE MergeBlocks
    BY <2>0, <2>6 DEF MergeBlocks, Merged, OutputFate
  <2>7. CASE Crash
    BY <2>7 DEF Crash, OutputFate
  <2>8. CASE Serialize
    <3>1. /\ pc = "write" /\ err = "none" /\ err' = "ok"
          /\ output \in Targets
          /\ UNCHANGED <<n, args, output, inFile, got>>
      BY <2>8 DEF Serialize, OutputFate
    <3>2. \/ disk' = [disk EXCEPT ![output] = "merged"] /\ faults' = faults
          \/ disk' = [disk EXCEPT ![output] = "partial"] /\ "write" \in faults'
      BY <2>8 DEF Serialize, SetOutput
    <3>3. \A p \in Paths : p # output => disk'[p] = disk[p]
      BY <2>0, <3>2
    <3>4. Apart => \A j \in 1..n : args[j] # output
      OBVIOUS
    <3>5. disk'[output] = "merged" \/ faults' # {}
      BY <2>0, <3>1, <3>2
    <3>6. faults' = {} => faults = {}
      BY <3>2
    <3>7. \A j \in 1..n : inFile[j] = "open"
      BY <3>1 DEF Ownership, WhileMerging, AllOpen
    <3>8. Apart => \A j \in 1..n : /\ args[j] \in Paths
                                 /\ disk'[args[j]] = disk[args[j]]
      BY <3>3, <3>4, <3>7
    <3> QED
      BY <3>1, <3>3, <3>5, <3>6, <3>7, <3>8
  <2>9. CASE LogError
    BY <2>9 DEF LogError
  <2>10. CASE CloseOutput
    <3>1. /\ pc = "close_output" /\ pc' = "close_inputs"
          /\ UNCHANGED <<n, args, output, inFile, got, i, err>>
      BY <2>10 DEF CloseOutput
    <3>2. \/ UNCHANGED <<disk, faults>>
          \/ disk' = [disk EXCEPT ![output] = "partial"] /\ "close" \in faults'
      BY <2>10 DEF CloseOutput, SetOutput
    <3>3. CASE UNCHANGED <<disk, faults>>
      BY <3>1, <3>3
    <3>4. CASE disk' = [disk EXCEPT ![output] = "partial"] /\ "close" \in faults'
      <4>1. \A p \in Targets : p # output => disk'[p] = disk[p]
        BY <2>0, <3>4
      <4>2. \A p \in Paths : p # output => disk'[p] \in {"absent", "config", "broken"}
        BY <2>0, <4>1
      <4>3. Apart => \A j \in 1..n : args[j] # output
        OBVIOUS
      <4>4. Apart => \A j \in 1..n : inFile[j] # "null" =>
                       args[j] \in Paths /\ disk'[args[j]] = disk[args[j]]
        BY <2>0, <4>1, <4>3
      <4> QED
        BY <3>1, <3>4, <4>2, <4>4
    <3> QED
      BY <3>2, <3>3, <3>4
  <2>11. CASE CloseInputs
    <3>1. /\ pc = "close_inputs" /\ pc' = "exit"
          /\ UNCHANGED <<n, args, output, disk, got, i, err, faults>>
      BY <2>11 DEF CloseInputs
    <3>2. \A j \in 1..n : inFile[j] = "null" => inFile'[j] = "null"
      BY <2>11 DEF CloseInputs, Close
    <3> QED
      BY <3>1, <3>2
  <2>12. CASE UNCHANGED vars
    BY <2>12 DEF vars
  <2> QED
    BY <2>1, <2>2, <2>3, <2>4, <2>5, <2>6, <2>7, <2>8, <2>9, <2>10, <2>11, <2>12
       DEF Next
<1> QED
  BY <1>1, <1>2, TypedAlways, OwnershipAlways, OutputFateAlways, PTL DEF Steps

\* A run that came to 0 is complete; fairness is not needed.
LEMMA CompleteAlways == Steps => []SuccessIsComplete
<1>1. Blame /\ OutputFate /\ Ownership /\ Faithful => SuccessIsComplete
  BY DEF Blame, OutputFate, Ownership, WhileLeaving, Faithful, SuccessIsComplete,
         Leaving, Opening, Apart, Inputs, Abandoned
<1> QED
  BY <1>1, BlameAlways, OutputFateAlways, OwnershipAlways, FaithfulAlways, PTL

\* A run returns 0 only with at least one input and no fault but those of
\* stdio; without these, the output holds the merge of the files as they are.
THEOREM SuccessesComplete == Spec => []SuccessIsComplete
  BY CompleteAlways, PTL DEF Spec, Steps
-----------------------------------------------------------------------------

\* Where main stands before run() is called, and after.
Before == step # "run"
InRun  == step = "run"

\* Before run() its variables are as they were when the program started.
AtRest == Init /\ n = 0

\* The program starts before run(), with the variables of run() at rest.
LEMMA MainStarts == MainInit => Before /\ AtRest
BY DEF MainInit, Before, AtRest

\* The array is large enough for the arguments, which are at most MaxArgs.
CliInv == ArgsFit /\ Len(cli.args) <= MaxArgs

LEMMA CliStarts == MainInit => CliInv
BY LoaderAssumption DEF MainInit, CliInv, ArgsFit, CliTypeOK, NoCli, Names

\* One file name is stored, in an array that grows if it has to.
LEMMA StoreFits ==
  ASSUME CliInv, Len(cli.args) < MaxArgs, NEW x \in Names, cli.allocated, cli.alloc > 0,
         cli' = [cli EXCEPT !.args = Append(Kept, x),
                            !.alloc = IF Full THEN NewAlloc ELSE @]
  PROVE  /\ cli' \in [allocated : BOOLEAN, args : Seq(Names), alloc : Nat,
                      output : Names \cup {Dash}]
         /\ Len(cli'.args) <= cli'.alloc /\ Len(cli'.args) <= MaxArgs
         /\ cli'.allocated /\ cli'.alloc > 0
<1>1. /\ cli.args \in Seq(Names) /\ cli.alloc \in Nat /\ Len(cli.args) <= cli.alloc
      /\ Len(cli.args) \in Nat /\ MaxArgs \in Nat
  BY LoaderAssumption DEF CliInv, ArgsFit, CliTypeOK
<1>2. /\ cli'.args = Append(cli.args, x)
      /\ cli'.alloc = IF Full THEN NewAlloc ELSE cli.alloc
      /\ cli'.allocated = cli.allocated /\ cli'.output = cli.output
      /\ cli' \in [allocated : {cli.allocated}, args : {cli'.args}, alloc : {cli'.alloc},
                   output : {cli.output}]
  BY DEF CliInv, ArgsFit, CliTypeOK, Kept
<1>3. cli'.args \in Seq(Names) /\ Len(cli'.args) = Len(cli.args) + 1
  <2>1. \A s \in Seq(Names) : Append(s, x) \in Seq(Names) /\ Len(Append(s, x)) = Len(s) + 1
    OBVIOUS
  <2> QED BY <1>1, <1>2, <2>1, Zenon
<1>4. cli'.alloc \in Nat /\ Len(cli.args) + 1 <= cli'.alloc
  BY <1>1, <1>2 DEF Full, NewAlloc
<1>5. cli.allocated \in BOOLEAN /\ cli.output \in Names \cup {Dash}
  BY DEF CliInv, ArgsFit, CliTypeOK
<1>6. cli' \in [allocated : BOOLEAN, args : Seq(Names), alloc : Nat,
                output : Names \cup {Dash}]
  BY <1>2, <1>3, <1>4, <1>5
<1>7. Len(cli'.args) <= cli'.alloc /\ Len(cli'.args) <= MaxArgs
  BY <1>1, <1>3, <1>4
<1>8. cli'.alloc > 0
  BY <1>1, <1>4
<1>9. cli'.allocated
  BY <1>2, Zenon
<1> QED BY <1>6, <1>7, <1>8, <1>9

\* The ghost of the command line grows by a word.
LEMMA LineGrows ==
  \A l \in Seq([kind : {"file", "output"}, name : Names \cup {Dash}]),
     k \in {"file", "output"}, x \in Names \cup {Dash} :
    Append(l, Word(k, x)) \in Seq([kind : {"file", "output"}, name : Names \cup {Dash}])
<1> DEFINE W == [kind : {"file", "output"}, name : Names \cup {Dash}]
<1>1. \A k \in {"file", "output"}, x \in Names \cup {Dash} : Word(k, x) \in W
  BY DEF Word
<1>2. \A l \in Seq(W), w \in W : Append(l, w) \in Seq(W)
  <2> HIDE DEF W
  <2> QED OBVIOUS
<1> QED BY <1>1, <1>2

\* Each step of main() keeps the array large enough.
LEMMA CliStep ==
  ASSUME CliInv, [MainNext]_mainVars
  PROVE  CliInv'
<1>0. /\ CliTypeOK /\ Len(cli.args) <= cli.alloc /\ Len(cli.args) <= MaxArgs
      /\ cli.allocated => cli.alloc > 0
      /\ step \in {"parse", "run", "usage"} => cli.allocated
  BY DEF CliInv, ArgsFit
<1>1. CASE Create
  <2>1. step' = "defaults" /\ line' = line
        /\ (cli' = NoCli \/ cli' = [NoCli EXCEPT !.allocated = TRUE, !.alloc = FirstArgs])
    BY <1>1 DEF Create
  <2>2. CASE cli' = NoCli
    BY <1>0, <2>1, <2>2, LoaderAssumption DEF CliInv, ArgsFit, CliTypeOK, NoCli
  <2>3. CASE cli' = [NoCli EXCEPT !.allocated = TRUE, !.alloc = FirstArgs]
    <3>1. cli' = [allocated |-> TRUE, args |-> <<>>, alloc |-> FirstArgs, output |-> Dash]
      BY <2>3 DEF NoCli
    <3>2. /\ cli' \in [allocated : BOOLEAN, args : Seq(Names), alloc : Nat,
                       output : Names \cup {Dash}]
          /\ cli'.args = <<>> /\ cli'.alloc \in Nat /\ cli'.alloc > 0
      BY <3>1, ProgramAssumption
    <3> QED BY <1>0, <2>1, <3>2, LoaderAssumption DEF CliInv, ArgsFit, CliTypeOK
  <2> QED BY <2>1, <2>2, <2>3
<1>2. CASE Defaults
  <2>1. CASE cli.allocated /\ cli' = [cli EXCEPT !.output = Dash] /\ step' = "parse"
    <3>1. /\ cli' \in [allocated : BOOLEAN, args : Seq(Names), alloc : Nat,
                       output : Names \cup {Dash}]
          /\ cli'.args = cli.args /\ cli'.alloc = cli.alloc /\ cli'.allocated
      BY <1>0, <2>1 DEF CliTypeOK
    <3>2. line' = line
      BY <1>2 DEF Defaults
    <3> QED BY <1>0, <2>1, <3>1, <3>2 DEF CliInv, ArgsFit, CliTypeOK
  <2>2. CASE step' = "crashed" /\ cli' = cli /\ line' = line
    BY <1>0, <2>2 DEF CliInv, ArgsFit, CliTypeOK
  <2> QED BY <1>2, <2>1, <2>2 DEF Defaults
<1>3. CASE ParseOutput
  <2>1. PICK x \in Names \cup {Dash} :
          cli' = [cli EXCEPT !.output = x] /\ line' = Append(line, Word("output", x))
    BY <1>3 DEF ParseOutput
  <2>2. step = "parse" /\ step' = "parse"
    BY <1>3 DEF ParseOutput
  <2>3. /\ cli' \in [allocated : BOOLEAN, args : Seq(Names), alloc : Nat,
                     output : Names \cup {Dash}]
        /\ cli'.args = cli.args /\ cli'.alloc = cli.alloc
    BY <1>0, <2>1 DEF CliTypeOK
  <2>4. cli'.allocated = cli.allocated
    BY <1>0, <2>1, Zenon DEF CliTypeOK
  <2>5. line' \in Seq([kind : {"file", "output"}, name : Names \cup {Dash}])
    BY <1>0, <2>1, LineGrows DEF CliTypeOK
  <2> QED BY <1>0, <2>2, <2>3, <2>4, <2>5 DEF CliInv, ArgsFit, CliTypeOK
<1>4. CASE ParseFile
  <2>1. PICK x \in Names :
          /\ cli' = [cli EXCEPT !.args = Append(Kept, x),
                                !.alloc = IF Full THEN NewAlloc ELSE @]
          /\ line' = Append(line, Word("file", x))
    BY <1>4 DEF ParseFile
  <2>2. step = "parse" /\ step' = "parse" /\ Len(cli.args) < MaxArgs
    BY <1>4 DEF ParseFile
  <2>3. /\ cli' \in [allocated : BOOLEAN, args : Seq(Names), alloc : Nat,
                     output : Names \cup {Dash}]
        /\ Len(cli'.args) <= cli'.alloc /\ Len(cli'.args) <= MaxArgs
        /\ cli'.allocated /\ cli'.alloc > 0
    BY <1>0, <2>1, <2>2, StoreFits
  <2>4. line' \in Seq([kind : {"file", "output"}, name : Names \cup {Dash}])
    <3>1. x \in Names \cup {Dash}
      OBVIOUS
    <3> QED BY <1>0, <2>1, <3>1, LineGrows DEF CliTypeOK
  <2> QED BY <2>2, <2>3, <2>4 DEF CliInv, ArgsFit, CliTypeOK
<1>5. ASSUME cli' = cli, line' = line \/ line' = <<>>,
             step' = step \/ (step = "parse" /\ step' \in {"usage", "run"})
      PROVE  CliInv'
  <2>1. line' \in Seq([kind : {"file", "output"}, name : Names \cup {Dash}])
    <3>1. CASE line' = line
      BY <1>0, <3>1 DEF CliTypeOK
    <3>2. CASE line' = <<>>
      BY <3>2
    <3> QED BY <1>5, <3>1, <3>2
  <2> QED BY <1>0, <1>5, <2>1 DEF CliInv, ArgsFit, CliTypeOK
<1>6. CASE NoMemory \/ Usage \/ Run
  BY <1>5, <1>6 DEF NoMemory, Usage, Run
<1>7. CASE Running \/ UNCHANGED mainVars
  BY <1>5, <1>7 DEF Running, mainVars
<1> QED BY <1>1, <1>2, <1>3, <1>4, <1>6, <1>7 DEF MainNext

\* However often the array grows, each file name is stored inside it, and what
\* parse_opt and run() read is there.
THEOREM ArgsAlwaysFit == MainSpec => []ArgsFit
<1>1. CliInv /\ [MainNext]_mainVars => CliInv'
  BY CliStep
<1>2. CliInv => ArgsFit
  BY DEF CliInv
<1> QED BY CliStarts, <1>1, <1>2, PTL DEF MainSpec
-----------------------------------------------------------------------------
\* The words of the command line; Places("file") and Places("output") divide
\* their places.
LineWords == [kind : {"file", "output"}, name : Names \cup {Dash}]

\* Before it is read the command line is empty, and then it is kept.
LineInv == /\ step \in {"create", "defaults"} => line = <<>> /\ cli.args = <<>>
           /\ CommandLineKept

LEMMA PlacesFinite ==
  ASSUME line \in Seq(LineWords)
  PROVE  \A k : /\ IsFiniteSet(Places(k)) /\ Cardinality(Places(k)) \in Nat
                /\ \A j \in Places(k) : j \in 1..Len(line)
<1> TAKE k
<1>1. Len(line) \in Nat /\ Places(k) \in SUBSET (1..Len(line))
  BY DEF Places
<1>2. IsFiniteSet(1..Len(line))
  BY <1>1, FS_Interval
<1> QED BY <1>1, <1>2, FS_Subset, FS_CardinalityType

\* A word more: its place is new, and the others stay where they were.
LEMMA WordAdded ==
  ASSUME line \in Seq(LineWords), NEW w \in LineWords, line' = Append(line, w)
  PROVE  /\ Len(line') = Len(line) + 1 /\ line'[Len(line) + 1] = w
         /\ \A j \in 1..Len(line) : line'[j] = line[j]
         /\ Places(w.kind)' = Places(w.kind) \cup {Len(line) + 1}
         /\ \A k : k # w.kind => Places(k)' = Places(k)
<1>1. /\ Len(line) \in Nat /\ Len(line') = Len(line) + 1
      /\ line'[Len(line) + 1] = w
      /\ \A j \in 1..Len(line) : line'[j] = line[j]
  OBVIOUS
<1>2. \A k : Places(k)' = {j \in 1..(Len(line) + 1) : line'[j].kind = k}
  BY <1>1 DEF Places
<1>3. 1..(Len(line) + 1) = (1..Len(line)) \cup {Len(line) + 1}
  BY <1>1
<1>4. \A k : Places(k)' = Places(k) \cup (IF k = w.kind THEN {Len(line) + 1} ELSE {})
  BY <1>1, <1>2, <1>3 DEF Places
<1> QED BY <1>1, <1>4

LEMMA FileAdded ==
  ASSUME CliInv, LineInv, step = "parse", NEW x \in Names,
         cli'.args = Append(cli.args, x), cli'.output = cli.output,
         line' = Append(line, Word("file", x))
  PROVE  CommandLineKept'
<1> DEFINE F == Places("file")
           new == Len(line) + 1
<1>1. /\ line \in Seq(LineWords) /\ cli.args \in Seq(Names)
      /\ Len(line) \in Nat /\ Len(cli.args) \in Nat
  BY DEF CliInv, ArgsFit, CliTypeOK, LineWords
<1>2. Word("file", x) \in LineWords /\ Word("file", x).kind = "file"
      /\ Word("file", x).name = x
  BY DEF Word, LineWords
<1>3. /\ Len(line') = new /\ line'[new] = Word("file", x)
      /\ \A j \in 1..Len(line) : line'[j] = line[j]
      /\ F' = F \cup {new} /\ Places("output")' = Places("output")
  BY <1>1, <1>2, WordAdded
<1>4. /\ IsFiniteSet(F) /\ Cardinality(F) \in Nat
      /\ \A j \in F \cup Places("output") : j \in 1..Len(line)
  BY <1>1, PlacesFinite
<1>5. new \notin F
  BY <1>1, <1>4
<1>6. Cardinality(F') = Cardinality(F) + 1
  BY <1>3, <1>4, <1>5, FS_AddElement
<1>7. Len(cli.args) = Cardinality(F)
      /\ \A j \in F : cli.args[Cardinality({h \in F : h <= j})] = line[j].name
  BY DEF LineInv, CommandLineKept
<1>8. /\ Len(cli'.args) = Cardinality(F') /\ cli'.args[Cardinality(F')] = x
      /\ \A m \in 1..Cardinality(F) : cli'.args[m] = cli.args[m]
  BY <1>1, <1>6, <1>7
<1>9. ASSUME NEW j \in F'
      PROVE  cli'.args[Cardinality({h \in F' : h <= j})] = line'[j].name
  <2>1. CASE j = new
    <3>1. {h \in F' : h <= j} = F'
      BY <1>1, <1>3, <1>4, <2>1
    <3> QED BY <1>2, <1>3, <1>8, <2>1, <3>1
  <2>2. CASE j \in F
    <3>1. {h \in F' : h <= j} = {h \in F : h <= j}
      BY <1>1, <1>3, <1>4, <2>2
    <3>2. /\ {h \in F : h <= j} \in SUBSET F /\ {h \in F : h <= j} # {}
      BY <1>4, <2>2
    <3>3. Cardinality({h \in F : h <= j}) \in 1..Cardinality(F)
      <4> DEFINE S == {h \in F : h <= j}
      <4> HIDE DEF S
      <4>1. S \in SUBSET F /\ S # {}
        BY <3>2 DEF S
      <4>2. IsFiniteSet(S) /\ Cardinality(S) <= Cardinality(F)
        BY <1>4, <4>1, FS_Subset
      <4>3. Cardinality(S) \in Nat /\ Cardinality(S) # 0
        BY <4>1, <4>2, FS_CardinalityType, FS_EmptySet
      <4> QED BY <1>4, <4>2, <4>3 DEF S
    <3>4. line'[j] = line[j]
      BY <1>3, <1>4, <2>2
    <3> QED BY <1>7, <1>8, <2>2, <3>1, <3>3, <3>4
  <2> QED BY <1>3, <2>1, <2>2
<1>10. /\ Places("output")' = {} => cli'.output = Dash
       /\ \A j \in Places("output")' :
            (\A h \in Places("output")' : h <= j) => cli'.output = line'[j].name
  BY <1>3, <1>4 DEF LineInv, CommandLineKept
<1> QED BY <1>8, <1>9, <1>10 DEF CommandLineKept

LEMMA OptionAdded ==
  ASSUME CliInv, LineInv, step = "parse", NEW x \in Names \cup {Dash},
         cli'.args = cli.args, cli'.output = x,
         line' = Append(line, Word("output", x))
  PROVE  CommandLineKept'
<1> DEFINE F == Places("file")
           O == Places("output")
           new == Len(line) + 1
<1>1. line \in Seq(LineWords) /\ Len(line) \in Nat
  BY DEF CliInv, ArgsFit, CliTypeOK, LineWords
<1>2. Word("output", x) \in LineWords /\ Word("output", x).kind = "output"
      /\ Word("output", x).name = x
  BY DEF Word, LineWords
<1>3. /\ line'[new] = Word("output", x)
      /\ \A j \in 1..Len(line) : line'[j] = line[j]
      /\ O' = O \cup {new} /\ F' = F
  BY <1>1, <1>2, WordAdded
<1>4. \A j \in F \cup O : j \in 1..Len(line)
  BY <1>1, PlacesFinite
<1>5. \A j \in O' : (\A h \in O' : h <= j) => j = new
  BY <1>1, <1>3, <1>4
<1>6. O' # {} /\ cli'.output = line'[new].name
  BY <1>2, <1>3
<1>7. /\ Len(cli'.args) = Cardinality(F')
      /\ \A j \in F' : cli'.args[Cardinality({h \in F' : h <= j})] = line'[j].name
  <2>1. /\ Len(cli.args) = Cardinality(F)
        /\ \A j \in F : cli.args[Cardinality({h \in F : h <= j})] = line[j].name
    BY DEF LineInv, CommandLineKept
  <2> QED BY <1>3, <1>4, <2>1
<1> QED BY <1>5, <1>6, <1>7 DEF CommandLineKept

LEMMA LineStep ==
  ASSUME CliInv, LineInv, [MainNext]_mainVars
  PROVE  LineInv'
<1>0. CliTypeOK
  BY DEF CliInv, ArgsFit
<1>1. CASE Create
  <2>1. step' = "defaults" /\ line' = <<>> /\ cli'.args = <<>>
    <3>1. step' = "defaults" /\ line' = <<>>
          /\ (cli' = NoCli \/ cli' = [NoCli EXCEPT !.allocated = TRUE, !.alloc = FirstArgs])
      BY <1>1 DEF Create, LineInv
    <3>2. NoCli.args = <<>>
      BY DEF NoCli
    <3>3. [NoCli EXCEPT !.allocated = TRUE, !.alloc = FirstArgs].args = <<>>
      BY DEF NoCli
    <3> QED BY <3>1, <3>2, <3>3, Zenon
  <2> QED BY <2>1 DEF LineInv, CommandLineKept
<1>2. CASE Defaults
  <2>1. CASE cli' = [cli EXCEPT !.output = Dash] /\ step' = "parse"
    <3>1. line' = <<>> /\ cli'.args = <<>> /\ cli'.output = Dash
      BY <1>0, <1>2, <2>1 DEF Defaults, LineInv, CliTypeOK
    <3>2. \A k : Places(k)' = {}
      BY <3>1 DEF Places
    <3> QED BY <2>1, <3>1, <3>2, FS_EmptySet DEF LineInv, CommandLineKept
  <2>2. CASE step' = "crashed"
    BY <2>2 DEF LineInv, CommandLineKept
  <2> QED BY <1>2, <2>1, <2>2 DEF Defaults
<1>3. CASE ParseOutput
  <2>1. PICK x \in Names \cup {Dash} :
          cli' = [cli EXCEPT !.output = x] /\ line' = Append(line, Word("output", x))
    BY <1>3 DEF ParseOutput
  <2>2. step = "parse" /\ step' = "parse"
    BY <1>3 DEF ParseOutput
  <2>3. cli'.args = cli.args /\ cli'.output = x
    BY <1>0, <2>1 DEF CliTypeOK
  <2> QED BY <2>1, <2>2, <2>3, OptionAdded DEF LineInv
<1>4. CASE ParseFile
  <2>1. PICK x \in Names :
          /\ cli' = [cli EXCEPT !.args = Append(Kept, x),
                                !.alloc = IF Full THEN NewAlloc ELSE @]
          /\ line' = Append(line, Word("file", x))
    BY <1>4 DEF ParseFile
  <2>2. step = "parse" /\ step' = "parse"
    BY <1>4 DEF ParseFile
  <2>3. cli'.args = Append(cli.args, x) /\ cli'.output = cli.output
    BY <1>0, <2>1 DEF CliTypeOK, Kept
  <2> QED BY <2>1, <2>2, <2>3, FileAdded DEF LineInv
<1>5. CASE NoMemory \/ Usage \/ Run
  BY <1>5 DEF NoMemory, Usage, Run, LineInv, CommandLineKept
<1>6. CASE Running \/ UNCHANGED mainVars
  <2>1. cli' = cli /\ line' = line /\ step' = step
    BY <1>6 DEF Running, mainVars
  <2> QED BY <2>1 DEF LineInv, CommandLineKept, Places
<1> QED BY <1>1, <1>2, <1>3, <1>4, <1>5, <1>6 DEF MainNext

\* What run() is given is the command line: as many arguments as file names,
\* the j-th of them the j-th name however often the array grew, and the output
\* the last -o named, or standard output.
THEOREM CommandLineAlwaysKept == MainSpec => []CommandLineKept
<1>1. MainInit => LineInv
  BY DEF MainInit, LineInv, CommandLineKept, NoCli
<1>2. CliInv /\ [MainNext]_mainVars => CliInv'
  BY CliStep
<1>3. CliInv /\ LineInv /\ [MainNext]_mainVars => LineInv'
  BY LineStep
<1>4. LineInv => CommandLineKept
  BY DEF LineInv
<1> QED BY CliStarts, <1>1, <1>2, <1>3, <1>4, PTL DEF MainSpec
-----------------------------------------------------------------------------
\* Until run() is called its variables rest, and it is called in one of its
\* initial states.
LEMMA StepBefore ==
  ASSUME CliInv, Before, AtRest, [MainNext]_mainVars
  PROVE  (Before' /\ AtRest' /\ UNCHANGED vars) \/ (InRun' /\ Init' /\ JobTarget' = "kept")
<1>1. CASE UNCHANGED vars /\ step' # "run"
  BY <1>1 DEF AtRest, Before, Init, vars, env, mem
<1>2. CASE Run
  <2>1. /\ n' = Len(cli.args) /\ args' = cli.args /\ output' = cli.output
        /\ \E d \in [Paths -> {"absent", "config", "broken"}] :
             disk' = [p \in Targets |-> IF p = Dash THEN "empty" ELSE d[p]]
        /\ inFile' = [k \in 1..n' |-> "null"] /\ blocks' = inFile'
        /\ got' = [k \in 1..n' |-> "none"]
        /\ UNCHANGED <<pc, outFile, inArr, blockArr, merged, i, err, logged, faults>>
    BY <1>2 DEF Run
  <2>2. n' \in 0..MaxArgs /\ args' \in [1..n' -> Paths \cup {Insane}]
        /\ output' \in Paths \cup {Dash, Insane}
    BY <2>1, LoaderAssumption DEF CliInv, ArgsFit, CliTypeOK, Names
  <2>3. Init'
    BY <2>1, <2>2 DEF AtRest, Init
  <2>4. outFile' = "null" /\ step' = "run"
    BY <1>2, <2>1 DEF AtRest, Init, Run
  <2> QED BY <2>3, <2>4 DEF InRun, JobTarget
<1> QED BY <1>1, <1>2 DEF MainNext, Before, mainVars, Create, Defaults, ParseOutput, ParseFile,
                          NoMemory, Usage, Running

\* From then on a step of main() is a step of run().
LEMMA StepInRun ==
  ASSUME InRun, [MainNext]_mainVars
  PROVE  InRun' /\ [Next]_vars
BY DEF InRun, MainNext, Create, Defaults, ParseOutput, ParseFile, NoMemory, Usage, Run, Running,
       mainVars

\* What holds in every initial state of run(), and of each run, holds in every
\* state of the program.
LEMMA RunSafe ==
  MainSpec => [](ReleasedOnce /\ UsesOnlyLive /\ CleanExit
                 /\ StatusNamesStage /\ SuccessIsComplete)
<1> DEFINE P == ReleasedOnce /\ UsesOnlyLive /\ CleanExit
                /\ StatusNamesStage /\ SuccessIsComplete
<1>1. Before /\ AtRest => P
  BY DEF AtRest, Init, ReleasedOnce, UsesOnlyLive, CleanExit, StatusNamesStage,
         SuccessIsComplete
<1>2. CliInv /\ [MainNext]_mainVars => CliInv'
  BY CliStep
<1>3. CliInv /\ Before /\ AtRest /\ [MainNext]_mainVars
        => (Before' /\ AtRest') \/ (InRun' /\ Init')
  BY StepBefore
<1>4. InRun /\ [MainNext]_mainVars => InRun' /\ [Next]_vars
  BY StepInRun
<1>5. Steps => []P
  BY SafeAlways, StatusAlways, CompleteAlways, PTL
<1> HIDE DEF P
<1>6. MainSpec => []P
  BY MainStarts, CliStarts, <1>1, <1>2, <1>3, <1>4, <1>5, PTL DEF MainSpec, Steps
<1> QED BY <1>6 DEF P

\* In the whole program no handle and no allocation is released twice.
THEOREM ProgramReleasesOnce == MainSpec => []ReleasedOnce
BY RunSafe, PTL

\* In the whole program nothing is read that is not there yet or was released.
THEOREM ProgramUsesOnlyLive == MainSpec => []UsesOnlyLive
BY RunSafe, PTL

\* A run that returns has kept nothing it could still reach.
THEOREM ProgramExitsClean == MainSpec => []CleanExit
BY RunSafe, PTL

\* The program returns 0 only for a whole merge, for whatever command line it
\* was called with.
THEOREM ProgramCompletes == MainSpec => []SuccessIsComplete
BY RunSafe, PTL

\* The program that returns an error stopped at the first stage of run() that
\* failed, and returns the status of that stage.
THEOREM ProgramStatusNamesStage == MainSpec => []StatusNamesStage
BY RunSafe, PTL

\* The whole program does to its output what ConfigJob allows: nothing before
\* run() is called, and then what run() does.
THEOREM ProgramImplementsJob == MainSpec => ImplementsJob
<1>1. Before /\ AtRest => Job!Init
  BY DEF AtRest, Init, JobTarget, JobStatus, Job!Init
<1>2. CliInv /\ [MainNext]_mainVars => CliInv'
  BY CliStep
<1>3. CliInv /\ Before /\ AtRest /\ [MainNext]_mainVars
        => /\ (Before' /\ AtRest') \/ (InRun' /\ Init')
           /\ [Job!Next]_(Job!vars)
  <2> SUFFICES ASSUME CliInv, Before, AtRest, [MainNext]_mainVars
               PROVE  /\ (Before' /\ AtRest') \/ (InRun' /\ Init')
                      /\ UNCHANGED Job!vars
    OBVIOUS
  <2>1. CASE Before' /\ AtRest' /\ UNCHANGED vars
    BY <2>1 DEF vars, env, Job!vars, JobTarget, JobStatus
  <2>2. CASE InRun' /\ Init' /\ JobTarget' = "kept"
    BY <2>2 DEF AtRest, Init, Job!vars, JobTarget, JobStatus
  <2> QED BY <2>1, <2>2, StepBefore
<1>4. InRun /\ [MainNext]_mainVars => InRun' /\ [Next]_vars
  BY StepInRun
<1>5. Steps => Job!Init /\ [][Job!Next]_(Job!vars)
  BY JobAlways DEF ImplementsJob, Job!Spec
<1>6. MainSpec => Job!Init /\ [][Job!Next]_(Job!vars)
  BY MainStarts, CliStarts, <1>1, <1>2, <1>3, <1>4, <1>5, PTL DEF MainSpec, Steps
<1> QED BY <1>6 DEF ImplementsJob, Job!Spec
=============================================================================
