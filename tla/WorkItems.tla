----------------------------- MODULE WorkItems -----------------------------
(***************************************************************************)
(* The parallel phase of the build processor: taskflow's parallel_for runs *)
(* one WorkItemProcessor per item of the compile database on a pool of     *)
(* threads.  A processor parses its item, runs the preprocessor on every   *)
(* source of a compile command and appends its results to shared lists.    *)
(*                                                                         *)
(* Parsing is an input: an item comes with its kind, target and sources.   *)
(* A file that may disappear, or a preprocessor run that may fail, does so *)
(* at any time.                                                            *)
(***************************************************************************)
EXTENDS BuildResults

CONSTANTS
  Cdbs,         \* compile databases: item -> [kind, target, sources], as
                \* parse_work_item makes it of the item
  Linkable,     \* the target names the linker key lets through
  Directories,  \* the targets that are existing directories
  Transient,    \* source files that may no longer exist
  Failing,      \* source files the preprocessor may fail on
  Parallelism   \* -j

Kinds == {"compile", "assemble", "link", "archive", "ignore", "filtered", "unknown"}

IsName(name) == name = [stem |-> name.stem, ext |-> name.ext, dups |-> name.dups]
IsFile(path) == path = [dir |-> path.dir, name |-> path.name] /\ IsName(path.name)

\* Sources are full paths, made by get_full_path_str.
ASSUME WorkItemsAssumption ==
  /\ Parallelism \in Nat \ {0}
  /\ \A db \in Cdbs : \A i \in DOMAIN db :
       /\ db[i].kind \in Kinds
       /\ IsFile(db[i].target)
       /\ db[i].sources \in Seq(ToSet(db[i].sources))
       /\ \A n \in DOMAIN db[i].sources : db[i].sources[n].file.dir # ""

VARIABLES
  cdb,     \* the compile database
  state,   \* of an item: "waiting", "running", "preprocessing" or "over"
  source,  \* the source of an item's command that is next
  options, \* the languages whose scan options the parsed command still has
  bridged  \* the made-up targets of its sources so far

itemVars == <<state, source, options, bridged>>

Items == DOMAIN cdb
Busy == {i \in Items : state[i] \in {"running", "preprocessing"}}
AllOver == \A i \in Items : state[i] = "over"

Command(i) == cdb[i]
Current(i) == Command(i).sources[source[i]]
HasMore(i) == source[i] <= Len(Command(i).sources)
MultiSource(i) == Len(Command(i).sources) > 1

IntoDir(i) == Command(i).target \in Directories

\* The item is not recognised, ignored, filtered by its directory or by its first
\* source, or has no source.
Skipped(i) ==
  \/ Command(i).kind \in {"ignore", "filtered", "unknown"}
  \/ Command(i).sources = <<>>

InitItems ==
  /\ cdb \in Cdbs
  /\ state = [i \in Items |-> "waiting"]
  /\ source = [i \in Items |-> 1]
  /\ options = [i \in Items |-> Languages]
  /\ bridged = [i \in Items |-> <<>>]

InitResults ==
  /\ cc_results = <<>> /\ as_results = <<>> /\ ld_results = <<>>
  /\ temps = {}

-----------------------------------------------------------------------------
\* Mutant of Begin: one thread more than asked for.
BeginMore(i) ==
  /\ state[i] = "waiting" /\ Cardinality(Busy) <= Parallelism
  /\ state' = [state EXCEPT ![i] = IF Skipped(i) THEN "over" ELSE "running"]
  /\ UNCHANGED <<resultVars, source, options, bridged>>

\* A thread of the pool takes an item; one that is skipped is over at once.
Begin(i) ==
  /\ state[i] = "waiting" /\ Cardinality(Busy) < Parallelism
  /\ state' = [state EXCEPT ![i] = IF Skipped(i) THEN "over" ELSE "running"]
  /\ UNCHANGED <<resultVars, source, options, bridged>>

\* Link and archive commands are handled by the same method.
HandledAs(command) == IF command.kind = "archive" THEN "link" ELSE command.kind

Running(i, kind) == state[i] = "running" /\ HandledAs(Command(i)) = kind

\* An assembler result names the first source only.
Assemble(i) ==
  /\ Running(i, "assemble")
  /\ as_results' = Append(as_results, [target |-> Command(i).target,
                                       source |-> Command(i).sources[1].file])
  /\ state' = [state EXCEPT ![i] = "over"]
  /\ UNCHANGED <<cc_results, ld_results, temps, source, options, bridged>>

\* handle_link keeps the last component of the target, and the linker key
\* is matched against it.
HandleLink(target, sources) ==
  ld_results' = IF target.name \in Linkable
                THEN Append(ld_results, [target |-> Basename(target), sources |-> sources])
                ELSE ld_results

\* Of an archive command without a target it is only logged that there is none.
TargetToLink(command) ==
  IF command.target = NoTarget /\ command.kind = "link" THEN File("", "DEFAULT_OUTPUT", "")
  ELSE command.target

LinkTarget(i) == TargetToLink(Command(i))

Link(i) ==
  /\ Running(i, "link")
  /\ HandleLink(LinkTarget(i),
                [n \in DOMAIN Command(i).sources |-> Command(i).sources[n].file])
  /\ state' = [state EXCEPT ![i] = "over"]
  /\ UNCHANGED <<cc_results, as_results, temps, source, options, bridged>>

\* Without -o the target is a fresh path of the output directory.
CompileTarget(i) ==
  IF Command(i).target = NoTarget THEN File("out", i, "tmp") ELSE Command(i).target

\* A source that no longer exists is left out of the command.
SkipMissing(i) ==
  /\ Running(i, "compile") /\ HasMore(i) /\ Current(i).file \in Transient
  /\ source' = [source EXCEPT ![i] = @ + 1]
  /\ UNCHANGED <<resultVars, state, options, bridged>>

\* A source of one language clears the scan options of the other one in the
\* parsed command; then the preprocessor is started on a temporary file.
Preprocess(i) ==
  /\ Running(i, "compile") /\ HasMore(i)
  /\ options' = [options EXCEPT ![i] = @ \cap {Current(i).lang}]
  /\ temps' = temps \cup {<<i, source[i]>>}
  /\ state' = [state EXCEPT ![i] = "preprocessing"]
  /\ UNCHANGED <<cc_results, as_results, ld_results, source, bridged>>

\* A failed run removes its file and gives up the rest of the command.
PreprocessFails(i) ==
  /\ state[i] = "preprocessing"
  /\ Current(i).file \in Failing \cup Transient
  /\ temps' = temps \ {<<i, source[i]>>}
  /\ state' = [state EXCEPT ![i] = "over"]
  /\ UNCHANGED <<cc_results, as_results, ld_results, source, options, bridged>>

\* The target of one source: below a target directory, made up for one of
\* several sources, or the target of the command.
SourceTarget(i) ==
  IF IntoDir(i)
  THEN [dir |-> Command(i).target.name.stem, name |-> [Current(i).file.name EXCEPT !.ext = "o"]]
  ELSE IF MultiSource(i)
  THEN [dir |-> "unique", name |-> Numbered(Name(i, "tmp"), source[i])]
  ELSE CompileTarget(i)

CCResult(i) ==
  [target |-> SourceTarget(i), source |-> Current(i).file, lang |-> Current(i).lang,
   options |-> IF Current(i).lang \in options[i] THEN i ELSE NoOptions,
   file |-> <<i, source[i]>>]

\* Mutant of PreprocessSucceeds: the made-up target is not kept for the link.
PreprocessSucceedsUnbridged(i) ==
  /\ state[i] = "preprocessing"
  /\ cc_results' = Append(cc_results, CCResult(i))
  /\ source' = [source EXCEPT ![i] = @ + 1]
  /\ state' = [state EXCEPT ![i] = "running"]
  /\ UNCHANGED <<as_results, ld_results, temps, options, bridged>>

PreprocessSucceeds(i) ==
  /\ state[i] = "preprocessing"
  /\ cc_results' = Append(cc_results, CCResult(i))
  /\ bridged' = IF MultiSource(i) /\ ~IntoDir(i)
                THEN [bridged EXCEPT ![i] = Append(@, SourceTarget(i))]
                ELSE bridged
  /\ source' = [source EXCEPT ![i] = @ + 1]
  /\ state' = [state EXCEPT ![i] = "running"]
  /\ UNCHANGED <<as_results, ld_results, temps, options>>

\* Mutant of EndCompile: a thread ends only a command that had every source.
EndCompileWhole(i) ==
  /\ Running(i, "compile") /\ ~HasMore(i)
  /\ MultiSource(i) => Len(bridged[i]) = Len(Command(i).sources)
  /\ IF MultiSource(i) THEN HandleLink(CompileTarget(i), bridged[i])
     ELSE UNCHANGED ld_results
  /\ state' = [state EXCEPT ![i] = "over"]
  /\ UNCHANGED <<cc_results, as_results, temps, source, options, bridged>>

\* A pseudo link bridges the target of the command and its sources.
EndCompile(i) ==
  /\ Running(i, "compile") /\ ~HasMore(i)
  /\ IF MultiSource(i) THEN HandleLink(CompileTarget(i), bridged[i])
     ELSE UNCHANGED ld_results
  /\ state' = [state EXCEPT ![i] = "over"]
  /\ UNCHANGED <<cc_results, as_results, temps, source, options, bridged>>

Process(i) ==
  \/ Begin(i) \/ Assemble(i) \/ Link(i)
  \/ SkipMissing(i) \/ Preprocess(i) \/ PreprocessFails(i) \/ PreprocessSucceeds(i)
  \/ EndCompile(i)

NextItems == \E i \in Items : Process(i)

-----------------------------------------------------------------------------
(* Properties.                                                             *)

GaveUp(i) == state[i] = "over" /\ Command(i).kind = "compile" /\ ~Skipped(i) /\ HasMore(i)

\* The results of a command with several sources, none of which failed, are all
\* bridged to the target of the command by one pseudo link, unless the linker key
\* filters it.  (Work-Item-Processor.md:22.)
SourcesBridged ==
  \A i \in Items :
    state[i] = "over" /\ ~GaveUp(i) /\ ~IntoDir(i) /\ CompileTarget(i).name \in Linkable =>
      \A n \in DOMAIN cc_results :
        cc_results[n].file[1] = i /\ MultiSource(i) =>
          \E m \in DOMAIN ld_results :
            /\ ld_results[m].target = Basename(CompileTarget(i))
            /\ cc_results[n].target \in ToSet(ld_results[m].sources)

\* Every source gets the scan options of its command and language.
\* (Work-Item-Processor.md:15: a separate command line by source file format.)
OwnScanOptions ==
  \A n \in DOMAIN cc_results : cc_results[n].options = cc_results[n].file[1]

=============================================================================
