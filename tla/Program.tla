------------------------------- MODULE Program -------------------------------
(***************************************************************************)
(* The whole program, main(): cli_create and cli_parse of cli.c, then run()*)
(* with the command line they found, which is Loader.  The environment     *)
(* chooses the command line word by word.  The option -v is left out: it   *)
(* lets more be logged, and start_up_check runs the commands date and uname*)
(* for it (main.c:157-172), on which no variable here depends.             *)
(***************************************************************************)
EXTENDS Loader, Sequences, FiniteSets

CONSTANTS FirstArgs,    \* places for arguments at the start, 16 in the code
          MaxOptions    \* bound: options -o on the command line

ASSUME ProgramAssumption == FirstArgs \in Nat \ {0} /\ MaxOptions \in Nat

VARIABLES step,     \* where main is: "create", "defaults", "parse" and "run",
                    \* or how it ended before: "usage" or "crashed"
          cli,      \* *cli, none if allocated is FALSE
          line      \* ghost: the command line so far

mainVars == <<vars, step, cli, line>>

Names == Paths \cup {Insane}
NoCli == [allocated |-> FALSE, args |-> <<>>, alloc |-> 0, output |-> Dash]

\* What the disk holds matters from run() on, and is chosen there.
MainInit == /\ Init
            /\ n = 0 /\ output = Dash /\ \A p \in Paths : disk[p] = "absent"
            /\ step = "create" /\ cli = NoCli /\ line = <<>>

\* cli_create: NULL if one of its two allocations fails.
Create == /\ step = "create"
          /\ cli' \in {NoCli, [NoCli EXCEPT !.allocated = TRUE, !.alloc = FirstArgs]}
          /\ step' = "defaults"
          /\ UNCHANGED <<vars, line>>

\* cli_parse up to argp_parse; main does not look at what cli_create returned.
Defaults == /\ step = "defaults"
            /\ IF cli.allocated
                 THEN cli' = [cli EXCEPT !.output = Dash] /\ step' = "parse"
                 ELSE step' = "crashed" /\ UNCHANGED cli
            /\ UNCHANGED <<vars, line>>

\* The places of the options -o, or of the file names, on the command line.
Places(kind) == {j \in 1..Len(line) : line[j].kind = kind}
Word(k, x)   == [kind |-> k, name |-> x]

\* parse_opt for -o: the last one counts, and "-" is a name like any other.
ParseOutput ==
  /\ step = "parse" /\ Cardinality(Places("output")) < MaxOptions
  /\ \E x \in Names \cup {Dash} :
       /\ cli' = [cli EXCEPT !.output = x]
       /\ line' = Append(line, Word("output", x))
  /\ UNCHANGED <<vars, step>>

\* Mutated Full: off by one; and Kept: what was stored before is not copied.
FullBeyond == Len(cli.args) > cli.alloc
KeptUnlessFull == IF Len(cli.args) >= cli.alloc THEN <<>> ELSE cli.args

\* All places are taken; realloc keeps what they hold.
Full == Len(cli.args) >= cli.alloc
Kept == cli.args

NewAlloc == IF cli.alloc = 0 THEN FirstArgs ELSE 2 * cli.alloc

\* parse_opt for a file name; when realloc fails argp_usage ends the program.
ParseFile ==
  /\ step = "parse" /\ Len(cli.args) < MaxArgs
  /\ \E x \in Names :
       /\ cli' = [cli EXCEPT !.args = Append(Kept, x),
                             !.alloc = IF Full THEN NewAlloc ELSE @]
       /\ line' = Append(line, Word("file", x))
  /\ UNCHANGED <<vars, step>>

NoMemory == /\ step = "parse" /\ Full
            /\ step' = "usage"
            /\ UNCHANGED <<vars, cli, line>>

\* argp refuses an option, or the user asks for help or the version.
Usage == /\ step = "parse"
         /\ step' = "usage"
         /\ UNCHANGED <<vars, cli, line>>

\* The command line is read to its end, and run(cli) begins.
Run ==
  /\ step = "parse" /\ step' = "run"
  /\ n' = Len(cli.args) /\ args' = cli.args /\ output' = cli.output
  /\ \E d \in [Paths -> {"absent", "config", "broken"}] :
       disk' = [p \in Targets |-> IF p = Dash THEN "empty" ELSE d[p]]
  /\ inFile' = [k \in 1..n' |-> "null"] /\ blocks' = inFile'
  /\ got' = [k \in 1..n' |-> "none"]
  /\ line' = <<>>
  /\ UNCHANGED <<pc, outFile, inArr, blockArr, merged, i, err, logged, faults, cli>>

Running == step = "run" /\ Next /\ UNCHANGED <<step, cli, line>>

MainNext == \/ Create \/ Defaults \/ ParseOutput \/ ParseFile \/ NoMemory \/ Usage
            \/ Run \/ Running

\* The program runs on until it ends; the command line is finite.
MainSpec == MainInit /\ [][MainNext]_mainVars /\ WF_mainVars(MainNext)
-----------------------------------------------------------------------------
CliTypeOK ==
  /\ step \in {"create", "defaults", "parse", "run", "usage", "crashed"}
  /\ cli \in [allocated : BOOLEAN, args : Seq(Names), alloc : Nat,
              output : Names \cup {Dash}]
  /\ line \in Seq([kind : {"file", "output"}, name : Names \cup {Dash}])

\* Every file name was stored inside the array, however often it grew, and
\* the record that run() reads is there.
ArgsFit ==
  /\ CliTypeOK
  /\ Len(cli.args) <= cli.alloc
  /\ cli.allocated => cli.alloc > 0
  /\ step \in {"parse", "run", "usage"} => cli.allocated

\* What run() is given is the command line: the file names in their order,
\* none lost when the array grew, and the last -o or standard output.
CommandLineKept ==
  step = "parse" =>
    /\ Len(cli.args) = Cardinality(Places("file"))
    /\ \A j \in Places("file") :
         cli.args[Cardinality({h \in Places("file") : h <= j})] = line[j].name
    /\ Places("output") = {} => cli.output = Dash
    /\ \A j \in Places("output") :
         (\A h \in Places("output") : h <= j) => cli.output = line[j].name

\* The program ends: before run(), in it, or by a crash.
MainReturns == <>(step \in {"usage", "crashed"} \/ pc \in {"exit", "crashed"})
=============================================================================
