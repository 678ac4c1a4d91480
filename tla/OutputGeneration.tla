-------------------------- MODULE OutputGeneration --------------------------
(***************************************************************************)
(* BuildProcessor::generate_output: from the assembler, link and compile   *)
(* results to the directories of preprocess.tar.gz, the property file of   *)
(* each link target and source_files.json.  One step per link result, per  *)
(* copy of a preprocessed file and per property file, in the code's order. *)
(* The order of the results is the one the worker threads left.            *)
(* Checksum lines follow the files of the archive one by one: left out.    *)
(***************************************************************************)
EXTENDS BuildResults

CONSTANTS
  LinkOptions  \* the values of --process_link_using_compiler

ASSUME OutputAssumption == LinkOptions \subseteq BOOLEAN

VARIABLES
  need_process_link_using_compiler, \* the one of this run
  stage,        \* "links", "test_ld", "compiles", "copies", "properties" or "written"
  next_result,  \* the link result, compile result or link info that is next
  seen,         \* seen_target_filenames: name -> count
  dependency_names, \* path of a link target -> name of its directory
  ld_infos,     \* [dir, dependencies, scan_options], in the order of ld_results
  link_targets, \* path of a link source -> indexes of the link infos
  to_copy,      \* the link infos the current compile result is still to be copied to
  pp_files,     \* [path, file] of the archive: path is <<dir, name, language, number>>
  properties,   \* [dir, dependencies, scan_options] of the property files
  source_files

outputVars == <<stage, next_result, seen, dependency_names, ld_infos, link_targets,
                to_copy, pp_files, properties, source_files>>

TestLd == File("", "test_ld", "")

\* A std::map's insert and operator[].
Put(map, key, value) ==
  [k \in DOMAIN map \cup {key} |-> IF k = key THEN value ELSE map[k]]
Insert(map, key, value) == IF key \in DOMAIN map THEN map ELSE Put(map, key, value)
Get(map, key, default) == IF key \in DOMAIN map THEN map[key] ELSE default

\* as_target_to_source: of two assembler results of one target the later counts.
Assembled == {as_results[n].target : n \in DOMAIN as_results}
AsSource(target) ==
  LET latest == CHOOSE n \in DOMAIN as_results :
                  /\ as_results[n].target = target
                  /\ \A m \in DOMAIN as_results : as_results[m].target = target => m <= n
  IN as_results[latest].source
Actual(path) == IF path \in Assembled THEN AsSource(path) ELSE path

InitOutput ==
  /\ need_process_link_using_compiler \in LinkOptions
  /\ stage = "links" /\ next_result = 1
  /\ seen = <<>> /\ dependency_names = <<>> /\ ld_infos = <<>> /\ link_targets = <<>>
  /\ to_copy = {} /\ pp_files = {} /\ properties = <<>> /\ source_files = {}

-----------------------------------------------------------------------------
(* Link results.                                                           *)

\* A name seen before gets the number of times it was.
Deduplicated(name) == IF name \in DOMAIN seen THEN Numbered(name, seen[name]) ELSE name

Count(name) == seen' = Put(seen, name, Get(seen, name, 0) + 1)

\* Mutant of TargetPath: the target goes by its file name.
TargetPathBase(ld) == ld.target

\* The directory of a target is that of its first object of the same stem.
TargetPath(ld) ==
  LET Same(s) == s.name.ext = "o" /\ IsPlain(s.name) /\ IsPlain(ld.target.name)
                 /\ s.name.stem = ld.target.name.stem
      same == {n \in DOMAIN ld.sources : Same(ld.sources[n])}
  IN IF same = {} THEN ld.target ELSE [ld.target EXCEPT !.dir = ld.sources[Min(same)].dir]

\* Mutant of LinkSources: assembler results are not looked through.
LinkSourcesDirect(ld) == ToSet(ld.sources)

LinkSources(ld) == {Actual(s) : s \in ToSet(ld.sources)}

NewInfo(name, dependencies) ==
  [dir |-> name, dependencies |-> dependencies, scan_options |-> <<>>]

AddLinkTargets(sources, info) ==
  link_targets' = [s \in DOMAIN link_targets \cup sources |->
                     Get(link_targets, s, {}) \cup (IF s \in sources THEN {info} ELSE {})]

AddLink ==
  /\ stage = "links" /\ next_result <= Len(ld_results)
  /\ LET ld == ld_results[next_result]
         name == Deduplicated(ld.target.name)
     IN /\ Count(ld.target.name)
        /\ dependency_names' = Insert(dependency_names, TargetPath(ld), name)
        /\ ld_infos' = Append(ld_infos, NewInfo(name, LinkSources(ld)))
        /\ AddLinkTargets(LinkSources(ld), Len(ld_infos) + 1)
  /\ next_result' = next_result + 1
  /\ UNCHANGED <<resultVars, stage, to_copy, pp_files, properties, source_files>>

EndLinks ==
  /\ stage = "links" /\ next_result > Len(ld_results)
  /\ stage' = IF need_process_link_using_compiler THEN "test_ld" ELSE "compiles"
  /\ next_result' = 1
  /\ UNCHANGED <<resultVars, seen, dependency_names, ld_infos, link_targets, to_copy,
                 pp_files, properties, source_files>>

\* The made-up link target for what no traced link consumes.
AddTestLd ==
  /\ stage = "test_ld"
  /\ LET name == Deduplicated(TestLd.name)
     IN /\ Count(TestLd.name)
        /\ dependency_names' = Insert(dependency_names, TestLd, name)
        /\ ld_infos' = Append(ld_infos, NewInfo(name, {}))
        /\ AddLinkTargets({[TestLd EXCEPT !.name = name]}, Len(ld_infos) + 1)
  /\ stage' = "compiles"
  /\ UNCHANGED <<resultVars, next_result, to_copy, pp_files, properties, source_files>>

-----------------------------------------------------------------------------
(* Compile results.                                                        *)

Compiled == cc_results[next_result]

\* Mutant of DropUnlinked: an unlinked result leaves its file behind.
DropUnlinkedKeepsFile ==
  /\ stage = "compiles" /\ next_result <= Len(cc_results)
  /\ Compiled.target \notin DOMAIN link_targets /\ ~need_process_link_using_compiler
  /\ next_result' = next_result + 1
  /\ UNCHANGED <<cc_results, as_results, ld_results, temps, stage, seen, dependency_names,
                 ld_infos, link_targets, to_copy, pp_files, properties, source_files>>

\* A target that no link consumes is dropped, with its file.
DropUnlinked ==
  /\ stage = "compiles" /\ next_result <= Len(cc_results)
  /\ Compiled.target \notin DOMAIN link_targets /\ ~need_process_link_using_compiler
  /\ temps' = temps \ {Compiled.file}
  /\ next_result' = next_result + 1
  /\ UNCHANGED <<cc_results, as_results, ld_results, stage, seen, dependency_names, ld_infos,
                 link_targets, to_copy, pp_files, properties, source_files>>

\* link_targets[...] makes an empty entry for a key it does not hold.
TakeCompiled ==
  /\ stage = "compiles" /\ next_result <= Len(cc_results)
  /\ Compiled.target \in DOMAIN link_targets \/ need_process_link_using_compiler
  /\ LET key == IF Compiled.target \in DOMAIN link_targets THEN Compiled.target ELSE TestLd
     IN /\ to_copy' = Get(link_targets, key, {})
        /\ link_targets' = Insert(link_targets, key, {})
  /\ source_files' = source_files \cup {Compiled.source}
  /\ stage' = "copies"
  /\ UNCHANGED <<resultVars, next_result, seen, dependency_names, ld_infos, pp_files, properties>>

\* Mutant of FreshNumber: the number is not looked up again.
FreshNumberOnce(dir, cc) ==
  IF \E f \in pp_files : f.path = <<dir, cc.source.name, cc.lang, 0>> THEN 1 ELSE 0

\* ".1", ".2" ... before the extension until no file has the path.
FreshNumber(dir, cc) ==
  LET taken == {n \in 0 .. Cardinality(pp_files) :
                  \E f \in pp_files : f.path = <<dir, cc.source.name, cc.lang, n>>}
  IN Min((0 .. Cardinality(pp_files)) \ taken)

\* Mutant of ScanOptions: the last result of a language counts.
ScanOptionsLast(options, cc) == Put(options, cc.lang, cc.options)

\* The first result of a language sets the scan options of a link target.
ScanOptions(options, cc) == Insert(options, cc.lang, cc.options)

CopyCompiled ==
  /\ stage = "copies"
  /\ \E info \in to_copy :
       LET dir == ld_infos[info].dir
       IN /\ pp_files' = pp_files \cup
               {[path |-> <<dir, Compiled.source.name, Compiled.lang, FreshNumber(dir, Compiled)>>,
                 file |-> Compiled.file]}
          /\ ld_infos' = [ld_infos EXCEPT
               ![info].dependencies = @ \ {Compiled.target},
               ![info].scan_options = ScanOptions(@, Compiled)]
          /\ to_copy' = to_copy \ {info}
  /\ UNCHANGED <<resultVars, stage, next_result, seen, dependency_names, link_targets,
                 properties, source_files>>

EndCompiled ==
  /\ stage = "copies" /\ to_copy = {}
  /\ temps' = temps \ {Compiled.file}
  /\ next_result' = next_result + 1 /\ stage' = "compiles"
  /\ UNCHANGED <<cc_results, as_results, ld_results, seen, dependency_names, ld_infos,
                 link_targets, to_copy, pp_files, properties, source_files>>

EndCompiles ==
  /\ stage = "compiles" /\ next_result > Len(cc_results)
  /\ stage' = "properties" /\ next_result' = 1
  /\ UNCHANGED <<resultVars, seen, dependency_names, ld_infos, link_targets, to_copy,
                 pp_files, properties, source_files>>

-----------------------------------------------------------------------------
(* Property files.                                                         *)

\* std::move leaves the name it lists empty in the map.
Moved == Name("", "")

WriteProperties ==
  /\ stage = "properties" /\ next_result <= Len(ld_infos)
  /\ LET info == ld_infos[next_result]
         known == info.dependencies \cap DOMAIN dependency_names
     IN /\ properties' = Append(properties,
             [dir |-> info.dir, scan_options |-> info.scan_options,
              names |-> {dependency_names[d] : d \in known},
              paths |-> info.dependencies \ known])
        /\ dependency_names' = [d \in DOMAIN dependency_names |->
                                  IF d \in known THEN Moved ELSE dependency_names[d]]
  /\ next_result' = next_result + 1
  /\ UNCHANGED <<resultVars, stage, seen, ld_infos, link_targets, to_copy, pp_files, source_files>>

EndProperties ==
  /\ stage = "properties" /\ next_result > Len(ld_infos)
  /\ stage' = "written"
  /\ UNCHANGED <<resultVars, next_result, seen, dependency_names, ld_infos, link_targets,
                 to_copy, pp_files, properties, source_files>>

NextOutput ==
  \/ AddLink \/ EndLinks \/ AddTestLd
  \/ DropUnlinked \/ TakeCompiled \/ CopyCompiled \/ EndCompiled \/ EndCompiles
  \/ WriteProperties \/ EndProperties

-----------------------------------------------------------------------------
(* Properties.                                                             *)

Written == stage = "written"

FilesDistinct == \A f, g \in pp_files : f.path = g.path => f = g

DirsDistinct ==
  (\A n \in DOMAIN ld_results : IsPlain(ld_results[n].target.name)) =>
    \A m, n \in DOMAIN ld_infos : ld_infos[m].dir = ld_infos[n].dir => m = n

\* No two preprocessed files share a path of the archive, although link targets
\* and sources of the same name meet in it; link targets of one file name have
\* directories of their own, when no target's real name is one that
\* generate_output makes up.  (generate_output, pp_files; Build-Processor.md:40.)
ArchivePathsDistinct == FilesDistinct /\ DirsDistinct

LinkedSourcesArchived ==
  Written =>
    \A n \in DOMAIN cc_results, m \in DOMAIN ld_results :
      cc_results[n].target \in {Actual(s) : s \in ToSet(ld_results[m].sources)} =>
        \E f \in pp_files : f.path[1] = ld_infos[m].dir /\ f.file = cc_results[n].file

UnlinkedProcessed ==
  /\ Written /\ need_process_link_using_compiler
  /\ \A n \in DOMAIN ld_results : ld_results[n].target.name # TestLd.name
  =>
    \A n \in DOMAIN cc_results : \E f \in pp_files : f.file = cc_results[n].file

\* A translation unit reaches the directory of every link target made from it,
\* directly or through the assembler, whichever result arrived first; and with
\* --process_link_using_compiler it is in the archive even if no traced link
\* consumes it, unless a traced link target has the name test_ld.  (IO.md:21.)
UnitsArchived == LinkedSourcesArchived /\ UnlinkedProcessed

CompiledIsNoDependency ==
  Written =>
    \A p \in DOMAIN properties, n \in DOMAIN cc_results :
      cc_results[n].target \notin properties[p].paths

FirstScanOptions ==
  Written =>
    \A m \in DOMAIN ld_results, lang \in Languages :
      LET Into(n) == /\ cc_results[n].lang = lang
                     /\ cc_results[n].target \in {Actual(s) : s \in ToSet(ld_results[m].sources)}
          mine == {n \in DOMAIN cc_results : Into(n)}
      IN Get(properties[m].scan_options, lang, NoOptions)
           = IF mine = {} THEN NoOptions ELSE cc_results[Min(mine)].options

\* What is compiled by the build is not a dependency to be looked up elsewhere, and
\* the scan options of a link target are, per language, those of the first of its
\* compile results, whichever targets the others went to.
\* (Build-Processor.md:54 and 57.)
PropertiesRight == CompiledIsNoDependency /\ FirstScanOptions

\* No temporary file is left in the output directory, whatever failed before.
NoFileLeft == Written => temps = {}

\* A property file names a library by the name of the library's directory.
\* (Build-Processor.md:61: "replacing full path with suffixed names".)
DependenciesNamed ==
  Written => \A p \in DOMAIN properties : Moved \notin properties[p].names

=============================================================================
