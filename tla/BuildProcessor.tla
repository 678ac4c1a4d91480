--------------------------- MODULE BuildProcessor ---------------------------
(***************************************************************************)
(* BuildProcessor::process: filter command, compile database, profile,     *)
(* then the work items on a pool of threads, a barrier, and the output.    *)
(* The work items' module and the output's share the lists of results.     *)
(***************************************************************************)
EXTENDS WorkItems, OutputGeneration

CONSTANTS
  CdbBroken  \* TRUE: the filter command or the parsing of the database may fail

VARIABLES
  phase,  \* "filters", "load", "profile", "work", "generate" or "returned"
  ec      \* the error code returned, or "none"

inputVars == <<cdb, need_process_link_using_compiler>>
processVars == <<phase, ec, inputVars>>
vars == <<processVars, itemVars, resultVars, outputVars>>

Init ==
  /\ phase = "filters" /\ ec = "none"
  /\ InitItems /\ InitResults /\ InitOutput

\* A step of process that succeeds, or returns an error when it may.
Advance(from, to) ==
  /\ phase = from
  /\ \/ phase' = to /\ UNCHANGED ec
     \/ CdbBroken /\ phase' = "returned" /\ ec' = "EC_ERROR_PARSING_CDB"
  /\ UNCHANGED <<inputVars, itemVars, resultVars, outputVars>>

RunFilterCommand == Advance("filters", "load")
LoadCdb == Advance("load", "profile")

\* Detection, probing and load_actionable make the profile; nothing returns early.
PrepareProfile ==
  /\ phase = "profile" /\ phase' = "work"
  /\ UNCHANGED <<ec, inputVars, itemVars, resultVars, outputVars>>

Work ==
  /\ phase = "work" /\ NextItems
  /\ UNCHANGED <<processVars, outputVars>>

\* Mutant of Join: the pool is not waited for.
JoinNot ==
  /\ phase = "work" /\ phase' = "generate"
  /\ UNCHANGED <<ec, inputVars, itemVars, resultVars, outputVars>>

\* executor.run(taskflow).get()
Join ==
  /\ phase = "work" /\ AllOver
  /\ phase' = "generate"
  /\ UNCHANGED <<ec, inputVars, itemVars, resultVars, outputVars>>

Generate ==
  /\ phase = "generate" /\ NextOutput
  /\ UNCHANGED <<processVars, itemVars>>

Return ==
  /\ phase = "generate" /\ Written
  /\ phase' = "returned"
  /\ UNCHANGED <<ec, inputVars, itemVars, resultVars, outputVars>>

Next ==
  \/ RunFilterCommand \/ LoadCdb \/ PrepareProfile
  \/ Work \/ Join \/ Generate \/ Return

Spec == Init /\ [][Next]_vars

\* Every thread runs on, and every preprocessor ends.
FairSpec == Spec /\ WF_vars(Next)

-----------------------------------------------------------------------------
(* Properties.                                                             *)

TypeOK ==
  /\ phase \in {"filters", "load", "profile", "work", "generate", "returned"}
  /\ ec \in {"none", "EC_ERROR_PARSING_CDB"}
  /\ state \in [Items -> {"waiting", "running", "preprocessing", "over"}]
  /\ source \in [Items -> Nat \ {0}] /\ options \in [Items -> SUBSET Languages]
  /\ Cardinality(Busy) <= Parallelism
  /\ stage \in {"links", "test_ld", "compiles", "copies", "properties", "written"}
  /\ next_result \in Nat \ {0} /\ to_copy \subseteq DOMAIN ld_infos
  /\ \A s \in DOMAIN link_targets : link_targets[s] \subseteq DOMAIN ld_infos

\* The translation units and the link targets (by file name) they are to be in,
\* read off the compile database alone.
ToolPath(i, n) ==
  IF MultiSource(i) /\ ~IntoDir(i) THEN File("", "", "") ELSE
  IF IntoDir(i)
  THEN [dir |-> Command(i).target.name.stem,
        name |-> [Command(i).sources[n].file.name EXCEPT !.ext = "o"]]
  ELSE CompileTarget(i)

ConsumedBy(path) ==
  {i \in Items :
     /\ HandledAs(Command(i)) = "link" /\ ~Skipped(i) /\ LinkTarget(i).name \in Linkable
     /\ \E s \in DOMAIN Command(i).sources :
          LET file == Command(i).sources[s].file
              assembled == {a \in Items : /\ Command(a).kind = "assemble" /\ ~Skipped(a)
                                          /\ Command(a).target = file}
          IN IF assembled = {} THEN file = path
             ELSE \E a \in assembled : Command(a).sources[1].file = path}

ExpectedTargets(i, n) ==
  IF MultiSource(i) /\ ~IntoDir(i)
  THEN {CompileTarget(i).name} \cap Linkable
  ELSE {LinkTarget(j).name : j \in ConsumedBy(ToolPath(i, n))}

\* What the archive holds of one unit: the file names of the link targets.
ArchivedUnder(unit) ==
  {ld_results[m].target.name : m \in
     {m \in DOMAIN ld_results : \E f \in pp_files : f.file = unit /\ f.path[1] = ld_infos[m].dir}}

\* Whatever order the threads take, the archive holds every unit of the build
\* under the link targets it belongs to, and under no others, when no source of
\* its command is lost.
ScheduleIndependent ==
  Written /\ ~need_process_link_using_compiler =>
    \A i \in Items :
      /\ Command(i).kind = "compile" /\ ~Skipped(i)
      /\ \A n \in DOMAIN Command(i).sources : Command(i).sources[n].file \notin Failing \cup Transient
      => \A n \in DOMAIN Command(i).sources :
          ArchivedUnder(<<i, n>>) = ExpectedTargets(i, n)

\* A library that has an object of its own name is listed, where it is used, by
\* the directory that holds the library's own translation units, also among
\* libraries of one file name; of another library only the path is known.
\* (tests/features/duplicated-link-target-name/test.sh:24.)
NamedAfterObject(i) ==
  \E s \in DOMAIN Command(i).sources :
    Command(i).sources[s].file = [LinkTarget(i) EXCEPT !.name.ext = "o"]

LibrariesFound ==
  Written =>
    \A p \in DOMAIN ld_results, i \in Items :
      /\ HandledAs(Command(i)) = "link" /\ NamedAfterObject(i)
      /\ LinkTarget(i) \in ToSet(ld_results[p].sources)
      => \E name \in properties[p].names :
          \A n \in DOMAIN cc_results :
            cc_results[n].target \in {Command(i).sources[s].file : s \in DOMAIN Command(i).sources} =>
              \E f \in pp_files : f.path[1] = name /\ f.file = cc_results[n].file

Lists == INSTANCE ResultLists WITH
  next <- source, closed <- {i \in Items : state[i] = "over"},
  list <- [n \in DOMAIN cc_results |-> cc_results[n].file],
  over <- phase = "generate" \/ Written

\* The parallel phase implements the abstract lists: whatever the threads and the
\* preprocessors do, a translation unit is added in its turn by an item that is
\* still open, and none once the output generation has begun to read the lists.
\* (build-processor.cpp:240-244, work-item-processor.cpp:227-236)
ImplementsResultLists == Lists!Spec

-----------------------------------------------------------------------------
(* What the theorems about the contents of the archive assume of a         *)
(* database.                                                               *)

Commands(db, kind) == {i \in DOMAIN db : HandledAs(db[i]) = kind /\ db[i].sources # <<>>}
SourceFiles(db, i) == {db[i].sources[n].file : n \in DOMAIN db[i].sources}

\* No object is assembled of two sources.
AssembledOnce(db) ==
  \A a, b \in Commands(db, "assemble") :
    db[a].target = db[b].target => db[a].sources[1].file = db[b].sources[1].file

\* The paths that xcalbuild makes up are not used by the build, nor the names it numbers.
MadeUpDirs == {"unique", "out"}
FreshPaths(db) ==
  \A i \in DOMAIN db :
    /\ db[i].target.dir \notin MadeUpDirs /\ IsPlain(db[i].target.name)
    /\ db[i].target \in Directories => db[i].target.name.stem \notin MadeUpDirs
    /\ \A file \in SourceFiles(db, i) : file.dir \notin MadeUpDirs

\* What a command makes, as the other commands know it.
Made(db, i) ==
  IF db[i].kind = "compile" /\ db[i].target \in Directories
  THEN {[dir |-> db[i].target.name.stem, name |-> [file.name EXCEPT !.ext = "o"]] :
          file \in SourceFiles(db, i)}
  ELSE {db[i].target} \ {NoTarget}

MadeOnce(db) ==
  LET makers == UNION {Commands(db, kind) : kind \in {"compile", "assemble", "link"}}
  IN \A i, j \in makers : i # j => Made(db, i) \cap Made(db, j) = {}

\* A link or assembler command uses the path.
Uses(db, path) ==
  {i \in Commands(db, "link") \cup Commands(db, "assemble") : path \in SourceFiles(db, i)}

\* What one command links another one uses at most once, and the linker key lets it through.
LinkedOnce(db) ==
  \A i \in Commands(db, "link") :
    /\ \A j, k \in Uses(db, db[i].target) : j = k
    /\ Uses(db, db[i].target) # {} => db[i].target.name \in Linkable

\* An object of the name of the link target lies beside it.
ObjectsBeside(db) ==
  \A i \in Commands(db, "link") : \A file \in SourceFiles(db, i) :
    LET target == TargetToLink(db[i])
    IN file.name.stem = target.name.stem /\ file.name.ext = "o" /\ IsPlain(file.name) =>
         file.dir = target.dir

\* process returns, and without an error only when the output is written.
Returns == <>(phase = "returned" /\ (ec = "none" => Written))

=============================================================================
