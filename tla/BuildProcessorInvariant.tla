----------------------- MODULE BuildProcessorInvariant -----------------------
(***************************************************************************)
(* What holds in every state of BuildProcessor, strong enough for every    *)
(* step to keep it: first of the items and the lists they fill, then of    *)
(* what generate_output has made of the lists so far.                      *)
(***************************************************************************)
EXTENDS BuildProcessor

IsList(s) == s \in Seq(ToSet(s))

ListTypes ==
  /\ IsList(cc_results) /\ IsList(as_results) /\ IsList(ld_results)
  /\ IsList(ld_infos) /\ IsList(properties)
  /\ \A m \in DOMAIN ld_infos :
       ld_infos[m] = [dir |-> ld_infos[m].dir, dependencies |-> ld_infos[m].dependencies,
                      scan_options |-> ld_infos[m].scan_options]
  /\ bridged = [i \in Items |-> bridged[i]]
  /\ \A i \in Items : IsList(bridged[i])
  /\ IsFiniteSet(Busy) /\ IsFiniteSet(pp_files)
  /\ need_process_link_using_compiler \in BOOLEAN

-----------------------------------------------------------------------------
(* The work items.                                                         *)

\* How far an item can be, and what it can have been taken for.
ItemSteps ==
  /\ cdb \in Cdbs
  /\ \A i \in Items :
       /\ state[i] = "waiting" => source[i] = 1
       /\ state[i] \in {"running", "preprocessing"} => ~Skipped(i)
       /\ state[i] = "preprocessing" => Command(i).kind = "compile" /\ HasMore(i)

\* A compile result is made of a source that its item has left behind.
UnitsMade ==
  \A n \in DOMAIN cc_results :
    \E i \in Items : \E k \in 1 .. source[i] - 1 :
      Command(i).kind = "compile" /\ cc_results[n].file = <<i, k>>

\* The made-up targets are kept until the pseudo link is made.
TargetsKept ==
  \A i \in Items : MultiSource(i) /\ ~IntoDir(i) =>
    \A n \in DOMAIN cc_results :
      cc_results[n].file[1] = i => cc_results[n].target \in ToSet(bridged[i])

\* No link or assembler result refers to the place of the made-up test_ld.
SourcesPlaced ==
  /\ \A m \in DOMAIN ld_results : \A s \in ToSet(ld_results[m].sources) : s.dir # ""
  /\ \A n \in DOMAIN as_results : as_results[n].source.dir # ""
  /\ \A i \in Items : \A s \in ToSet(bridged[i]) : s.dir # ""

\* The output generation begins when all items are over.
OutputUntouched ==
  /\ stage = "links" /\ next_result = 1 /\ seen = <<>> /\ ld_infos = <<>>
  /\ link_targets = <<>> /\ pp_files = {}

PhasesApart ==
  /\ phase \in {"filters", "load", "profile", "work"} => OutputUntouched
  /\ phase = "generate" \/ stage # "links" => AllOver

\* Every temporary file has someone left who will remove it.
Pending == {<<i, source[i]>> : i \in {i \in Items : state[i] = "preprocessing"}}

TempsOwned ==
  /\ stage \in {"links", "test_ld"} =>
       temps \subseteq Pending \cup {cc_results[n].file : n \in DOMAIN cc_results}
  /\ stage \in {"compiles", "copies"} =>
       temps \subseteq {cc_results[n].file : n \in next_result .. Len(cc_results)}
  /\ stage \in {"properties", "written"} => temps = {}

ItemsInv ==
  /\ ItemSteps /\ UnitsMade /\ TargetsKept /\ SourcesBridged /\ SourcesPlaced
  /\ PhasesApart /\ TempsOwned

-----------------------------------------------------------------------------
(* The link results.                                                       *)

\* One link info per link result, in their order, and one for test_ld.
InfosNumbered ==
  /\ stage = "links" => Len(ld_infos) = next_result - 1 /\ Len(ld_infos) <= Len(ld_results)
  /\ stage = "test_ld" => next_result = 1 /\ Len(ld_infos) = Len(ld_results)
  /\ stage \notin {"links", "test_ld"} => Len(ld_results) <= Len(ld_infos)

Sources(m) == LinkSources(ld_results[m])

InfosRight ==
  /\ \A m \in DOMAIN ld_infos :
       /\ m \in DOMAIN ld_results =>
            \A s \in Sources(m) : s \in DOMAIN link_targets /\ m \in link_targets[s]
       /\ ld_infos[m].dependencies \subseteq IF m \in DOMAIN ld_results THEN Sources(m) ELSE {}
  /\ \A s \in DOMAIN link_targets : \A m \in link_targets[s] :
       m \in DOMAIN ld_results => s \in Sources(m)

\* A directory is named by a name that was counted, or by one with a number that
\* its count has passed.
DirsCounted ==
  /\ \A name \in DOMAIN seen :
       /\ seen[name] \in Nat \ {0}
       /\ \/ \E m \in DOMAIN ld_results : name = ld_results[m].target.name
          \/ name = TestLd.name /\ stage \notin {"links", "test_ld"}
  /\ \A m \in DOMAIN ld_infos : \E name \in DOMAIN seen :
       \/ ld_infos[m].dir = name
       \/ \E k \in 1 .. seen[name] - 1 : ld_infos[m].dir = Numbered(name, k)
  /\ \A m \in DOMAIN ld_results : IsName(ld_results[m].target.name)

LinksInv == InfosNumbered /\ InfosRight /\ DirsCounted /\ ArchivePathsDistinct

-----------------------------------------------------------------------------
(* The compile results.                                                    *)

AfterCompiles == stage \in {"properties", "written"}
AtCompiles == stage \in {"compiles", "copies"}

\* The link info has got what it is to get of the compile result.
Handled(n, m) ==
  \/ AfterCompiles
  \/ AtCompiles /\ n < next_result
  \/ stage = "copies" /\ n = next_result /\ m \notin to_copy

Consumes(m, n) == cc_results[n].target \in Sources(m)

CopyRight ==
  /\ stage = "copies" => next_result <= Len(cc_results)
  /\ stage # "copies" => to_copy = {}
  /\ \A m \in to_copy : m \in DOMAIN ld_results => Consumes(m, next_result)

UnitsHandled ==
  \A n \in DOMAIN cc_results, m \in DOMAIN ld_results :
    Handled(n, m) /\ Consumes(m, n) =>
      /\ \E f \in pp_files : f.path[1] = ld_infos[m].dir /\ f.file = cc_results[n].file
      /\ cc_results[n].target \notin ld_infos[m].dependencies

\* The scan options are those of the first compile result of the language.
OptionsHandled ==
  /\ stage \in {"links", "test_ld"} => \A m \in DOMAIN ld_infos : ld_infos[m].scan_options = <<>>
  /\ \A m \in DOMAIN ld_results \cap DOMAIN ld_infos, lang \in Languages :
       LET options_of == ld_infos[m].scan_options
           mine == {n \in DOMAIN cc_results :
                      Handled(n, m) /\ Consumes(m, n) /\ cc_results[n].lang = lang}
       IN IF lang \in DOMAIN options_of
          THEN \E n \in mine : /\ options_of[lang] = cc_results[n].options
                               /\ \A k \in mine : n <= k
          ELSE mine = {}

\* With --process_link_using_compiler everything is consumed, by test_ld at least.
NoTestLd ==
  /\ need_process_link_using_compiler
  /\ \A n \in DOMAIN ld_results : ld_results[n].target.name # TestLd.name

AllConsumed ==
  NoTestLd =>
    /\ \A s \in DOMAIN link_targets : link_targets[s] # {}
    /\ stage \notin {"links", "test_ld"} => TestLd \in DOMAIN link_targets
    /\ \A n \in DOMAIN cc_results :
         \/ AfterCompiles
         \/ AtCompiles /\ n < next_result
         \/ stage = "copies" /\ n = next_result /\ to_copy = {}
         => \E f \in pp_files : f.file = cc_results[n].file

CompilesInv == CopyRight /\ UnitsHandled /\ OptionsHandled /\ AllConsumed

-----------------------------------------------------------------------------
(* The property files.                                                     *)

PropertiesInv ==
  /\ stage \notin {"properties", "written"} => properties = <<>>
  /\ stage = "properties" => Len(properties) = next_result - 1 /\ Len(properties) <= Len(ld_infos)
  /\ stage = "written" => Len(properties) = Len(ld_infos)
  /\ \A p \in DOMAIN properties :
       /\ properties[p].paths \subseteq ld_infos[p].dependencies
       /\ properties[p].scan_options = ld_infos[p].scan_options

-----------------------------------------------------------------------------
(* Where the results come from, and that none is missing.                  *)

FilesOf(i) == [n \in DOMAIN Command(i).sources |-> Command(i).sources[n].file]
Lossless(i) == \A file \in ToSet(FilesOf(i)) : file \notin Failing \cup Transient
Is(kind, i) == HandledAs(Command(i)) = kind /\ ~Skipped(i)

\* The made-up target of a source, and the target of any.
MadeUp(i, k) == [dir |-> "unique", name |-> Numbered(Name(i, "tmp"), k)]
UnitTarget(i, k) == IF MultiSource(i) /\ ~IntoDir(i) THEN MadeUp(i, k) ELSE ToolPath(i, k)

UnitsOrigin ==
  \A n \in DOMAIN cc_results : \E i \in Items : \E k \in DOMAIN Command(i).sources :
    cc_results[n].file = <<i, k>> /\ cc_results[n].target = UnitTarget(i, k)

UnitsComplete ==
  \A i \in Items : Is("compile", i) /\ Lossless(i) =>
    /\ \A k \in 1 .. source[i] - 1 : \E n \in DOMAIN cc_results : cc_results[n].file = <<i, k>>
    /\ state[i] = "over" => ~HasMore(i)

AsResult(i) == [target |-> Command(i).target, source |-> Command(i).sources[1].file]

AsOrigin == \A n \in DOMAIN as_results : \E i \in Items :
              Is("assemble", i) /\ as_results[n] = AsResult(i)
AsComplete == \A i \in Items : Is("assemble", i) /\ state[i] = "over" =>
                AsResult(i) \in ToSet(as_results)

MadeUpKept ==
  \A i \in Items : \A s \in ToSet(bridged[i]) :
    \E k \in DOMAIN Command(i).sources : s = MadeUp(i, k)

\* The link result is that of the command, or its pseudo link.
LinkResult(i) == [target |-> Basename(LinkTarget(i)), sources |-> FilesOf(i)]
LinkedBy(ld, i) ==
  \/ Is("link", i) /\ LinkTarget(i).name \in Linkable /\ ld = LinkResult(i)
  \/ /\ Is("compile", i) /\ MultiSource(i) /\ CompileTarget(i).name \in Linkable
     /\ ld.target = Basename(CompileTarget(i))
     /\ \A s \in ToSet(ld.sources) : \E k \in DOMAIN Command(i).sources : s = MadeUp(i, k)

\* No command has two link results.
LinksOrigin ==
  /\ \A m \in DOMAIN ld_results : \E i \in Items : state[i] = "over" /\ LinkedBy(ld_results[m], i)
  /\ \A m, n \in DOMAIN ld_results : m # n =>
       \E i, j \in Items : i # j /\ LinkedBy(ld_results[m], i) /\ LinkedBy(ld_results[n], j)

LinksComplete ==
  \A i \in Items : Is("link", i) /\ state[i] = "over" /\ LinkTarget(i).name \in Linkable =>
    LinkResult(i) \in ToSet(ld_results)

ResultsInv ==
  /\ UnitsOrigin /\ UnitsComplete /\ AsOrigin /\ AsComplete
  /\ MadeUpKept /\ LinksOrigin /\ LinksComplete

-----------------------------------------------------------------------------
(* What the output holds for each link result, and nothing else.           *)

Infos == DOMAIN ld_results \cap DOMAIN ld_infos

CopiesOrigin ==
  ~need_process_link_using_compiler =>
    /\ stage # "test_ld" /\ Len(ld_infos) <= Len(ld_results)
    /\ \A f \in pp_files : \E m \in Infos : \E n \in DOMAIN cc_results :
         Consumes(m, n) /\ f.path[1] = ld_infos[m].dir /\ f.file = cc_results[n].file

\* What is not compiled by the build remains a dependency.
DependenciesKept ==
  \A m \in Infos :
    Sources(m) \ {cc_results[n].target : n \in DOMAIN cc_results} \subseteq ld_infos[m].dependencies

PathOf(m) == TargetPath(ld_results[m])
Alone(m) == \A k \in DOMAIN ld_results : PathOf(k) = PathOf(m) => k = m

\* The name of a link target with a path of its own is in the map until the first
\* property file that lists it.
NamesKept ==
  /\ \A d \in DOMAIN dependency_names :
       \/ d = TestLd /\ stage \notin {"links", "test_ld"}
       \/ \E m \in Infos : d = PathOf(m)
  /\ \A m \in Infos :
       /\ PathOf(m) \in DOMAIN dependency_names
       /\ Alone(m) /\ (\A p \in DOMAIN properties : PathOf(m) \notin ld_infos[p].dependencies) =>
            dependency_names[PathOf(m)] = ld_infos[m].dir

NamesListed ==
  \A p \in DOMAIN properties, m \in Infos :
    /\ Alone(m) /\ PathOf(m) \in ld_infos[p].dependencies
    /\ \A q \in 1 .. p - 1 : PathOf(m) \notin ld_infos[q].dependencies
    => ld_infos[m].dir \in properties[p].names

ContentsInv == CopiesOrigin /\ DependenciesKept /\ NamesKept /\ NamesListed

-----------------------------------------------------------------------------
\* Every part of the invariant, with the types: what the items do to the lists
\* until the barrier, and what generate_output reads off them after it.
\* (build-processor.cpp:240-244 and 286-470, work-item-processor.cpp:130-236)
IInv == TypeOK /\ ListTypes /\ ItemsInv /\ LinksInv /\ CompilesInv /\ PropertiesInv

\* And where each result comes from: whatever order the threads take, the lists and the
\* output made of them hold what the commands of the database ask for, and nothing else.
\* (work-item-processor.cpp:60-110 and 130-236, build-processor.cpp:286-480)
BuildInv == IInv /\ ResultsInv /\ ContentsInv

=============================================================================
