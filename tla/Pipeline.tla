------------------------------ MODULE Pipeline ------------------------------
(***************************************************************************)
(* One run of xcalbuild (xcalbuild/main.cpp) in an output directory that   *)
(* an earlier run may have used: the command line, the toolchain profile,  *)
(* the tracer of the chosen method (tracer/tracer.cpp) and the build       *)
(* processor, which read each other's results from files.  The modules     *)
(* WinTracer and Prober take part with all their steps; the Unix tracers   *)
(* are the outcomes BearTracer has for them, the parallel work phase and   *)
(* the generation of the archive are one step each: BuildProcessor.        *)
(***************************************************************************)
EXTENDS WinTracer, Prober

CONSTANTS
  BuildOrder,     \* the commands of a Unix build, in order: [path, called], the file
                  \* that is executed and the first argument it is given
  DefaultBinaries, \* what unix-tracer looks for without -c
  AutoProfiles,   \* "linux-auto", "windows-auto"
  Profiles,       \* the directories there are under profiles/
  EarlierItems    \* those of the database an earlier run left

Methods == {"dynamic", "static", "windbg"}

ASSUME PipelineAssumption ==
  /\ Executable \in [Processes -> Installed]
  /\ BuildOrder \in Seq(Range(BuildOrder)) /\ EarlierItems \in Seq(Range(EarlierItems))
  /\ AutoProfiles \subseteq Profiles

VARIABLES
  phase,          \* what main is about to do
  method, profile, \* the options of the command line
  ec,             \* the error code main returns
  toolchain_profile, \* the tools loaded for tracing
  detected,       \* the profile detection chose, "-" if it was not asked
  source,         \* which run wrote the database that was loaded
  archive,        \* the result: [by, source, items]
  source_list     \* which run wrote the list of its source files

results  == <<archive, source_list>>
mainVars == <<phase, method, profile, ec, toolchain_profile, detected, source, results>>
toolVars == <<tools, cdb, proberVars>>
vars == <<winVars, toolVars, temporaries, mainVars>>

NoFileYet == [by |-> "nobody", items |-> <<>>]
NoArchive == [by |-> "nobody", source |-> "nobody", items |-> {}]

Init ==
  /\ WinInit /\ ProberInit
  /\ tools = <<>> /\ cdb = <<>> /\ temporaries = {}
  /\ phase = "command" /\ method = "-" /\ profile = "-" /\ ec = "EC_NONE"
  /\ toolchain_profile = <<>> /\ detected = "-" /\ source = "nobody"
  /\ \/ out_file = NoFileYet /\ archive = NoArchive /\ source_list = "nobody"
     \/ /\ out_file = [by |-> "earlier", items |-> EarlierItems]
        /\ archive = [by |-> "earlier", source |-> "earlier", items |-> Range(EarlierItems)]
        /\ source_list = "earlier"

Return(code) == phase' = "returned" /\ ec' = code

\* CommandLine::parse: --help and --version return as errors do.
ParseCommandLine ==
  /\ phase = "command"
  /\ \/ /\ Return("EC_NONE") \/ Return("EC_INCORRECT_COMMAND_LINE")
        /\ UNCHANGED <<method, profile>>
     \/ /\ phase' = "config" /\ method' \in Methods /\ profile' \in Profiles
        /\ UNCHANGED ec
  /\ UNCHANGED <<winVars, toolVars, temporaries, toolchain_profile, detected, source, results>>

ParseConfig ==
  /\ phase = "config"
  /\ \/ phase' = "profile" /\ UNCHANGED ec
     \/ Return("EC_INCORRECT_CONFIG_FILE")
  /\ UNCHANGED <<winVars, toolVars, temporaries, method, profile, toolchain_profile,
                 detected, source, results>>

LoadProfile ==
  /\ phase = "profile"
  /\ LET loaded == Load(profile) IN
     /\ toolchain_profile' = loaded.tools
     /\ IF loaded.ok THEN phase' = "tracer" /\ UNCHANGED ec
        ELSE Return("EC_INCORRECT_TOOLCHAIN_PROFILE")
  /\ UNCHANGED <<winVars, toolVars, temporaries, method, profile, detected, source, results>>

\* The constructor of Tracer: fs::canonical throws for a directory that is gone.
MakeTracer ==
  /\ phase = "tracer"
  /\ \/ phase' = "trace" /\ UNCHANGED ec
     \/ Return("EC_UNKOWN")
  /\ UNCHANGED <<winVars, toolVars, temporaries, method, profile, toolchain_profile,
                 detected, source, results>>

-----------------------------------------------------------------------------
(* Tracer::trace.                                                          *)

Binaries == BinariesToTrace(toolchain_profile)

\* Mutant of Traced: a failed build is processed as far as it got.
TracedAnyway(status) == phase' = "load" /\ UNCHANGED ec

\* What main makes of the status of the tracing process.
Traced(status) ==
  IF status = 0 THEN phase' = "load" /\ UNCHANGED ec ELSE Return("EC_COMPILATION_FAILURE")

\* What a tracer may have got hold of: some of the commands it wants, in order, each
\* as it was called.
Commands(wanted) ==
  LET Growing(n) == {at \in [1 .. n -> wanted] : \A k \in 2 .. n : at[k - 1] < at[k]}
  IN UNION {{[k \in 1 .. n |-> BuildOrder[at[k]].called] : at \in Growing(n)}
            : n \in 0 .. Len(BuildOrder)}

\* Both tracers compare a whole file name, the one of the first argument or the one
\* of the file that is executed.
BearCommands(names)   == Commands({i \in DOMAIN BuildOrder : BuildOrder[i].called.name \in names})
StraceCommands(names) == Commands({i \in DOMAIN BuildOrder : BuildOrder[i].path.name \in names})

\* Mutant of TraceWithBear: a database is opened only if there is none.
TraceWithBearKeep ==
  /\ phase = "trace" /\ method = "dynamic"
  /\ \E status \in ExitStatuses :
       /\ out_file' \in IF out_file.by = "nobody"
                       THEN [by : {"this"}, items : BearCommands(Binaries)] ELSE {out_file}
       /\ Traced(status)
  /\ UNCHANGED <<buildVars, lpc, loopVars, compilers, toolVars, temporaries, method, profile,
                 toolchain_profile, detected, source, results>>

\* unix-tracer: it cannot be started or open the database; or it breaks off; or
\* the database is complete, though it may miss commands, and the status is the
\* one of the build.
TraceWithBear ==
  /\ phase = "trace" /\ method = "dynamic"
  /\ \/ Traced(EXIT_FAILURE) /\ out_file' \in {out_file, [by |-> "broken", items |-> <<>>]}
     \/ /\ \E status \in ExitStatuses : Traced(status)
        /\ out_file' \in [by : {"this"},
                          items : BearCommands(IF Binaries = {} THEN DefaultBinaries ELSE Binaries)]
  /\ UNCHANGED <<buildVars, lpc, loopVars, compilers, toolVars, temporaries, method, profile,
                 toolchain_profile, detected, source, results>>

StraceMissing ==
  /\ phase = "trace" /\ method = "static"
  /\ Return("EC_STRACE_NOT_FOUND")
  /\ UNCHANGED <<winVars, toolVars, temporaries, method, profile, toolchain_profile,
                 detected, source, results>>

Strace ==
  /\ phase = "trace" /\ method = "static"
  /\ temporaries' = temporaries \cup {"strace"} /\ phase' = "strace"
  /\ UNCHANGED <<winVars, toolVars, method, profile, ec, toolchain_profile,
                 detected, source, results>>

\* The end of strace: its output is made into the database, whose file is
\* opened before the array is dumped: a directory that is no UTF-8 throws.
\* That the file could not be opened is not noticed.
StraceEnds ==
  /\ phase = "strace"
  /\ \/ /\ \E status \in ExitStatuses \cup {EXIT_FAILURE} :
             status # 0 /\ Traced(status)
        /\ temporaries' = temporaries \ {"strace"} /\ UNCHANGED out_file
     \/ /\ Traced(0)
        /\ out_file' \in {out_file} \cup [by : {"this"}, items : StraceCommands(Binaries)]
        /\ temporaries' = temporaries \ {"strace"}
     \/ /\ Return("EC_UNKOWN")
        /\ out_file' \in {out_file, [by |-> "broken", items |-> <<>>]}
        /\ UNCHANGED temporaries
  /\ UNCHANGED <<buildVars, lpc, loopVars, compilers, toolVars, method, profile,
                 toolchain_profile, detected, source, results>>

\* trace_with_windbg writes the configuration and starts win-tracer, which may
\* not come to start the build.
TraceWithWindbg ==
  /\ phase = "trace" /\ method = "windbg"
  /\ temporaries' = temporaries \cup {"config"}
  /\ compilers' = Binaries
  /\ lpc' \in {"create", "done"}
  /\ phase' = "windbg"
  /\ UNCHANGED <<buildVars, loopVars, out_file, toolVars, method, profile, ec,
                 toolchain_profile, detected, source, results>>

WindbgEnds ==
  /\ phase = "windbg" /\ lpc = "done"
  /\ temporaries' = temporaries \ {"config"}
  /\ Traced(root_process_exit_status)
  /\ UNCHANGED <<winVars, toolVars, method, profile, toolchain_profile,
                 detected, source, results>>

-----------------------------------------------------------------------------
(* BuildProcessor::process.                                                *)

\* Filter commands and load_cdb.
LoadCdb ==
  /\ phase = "load"
  /\ \/ Return("EC_ERROR_PARSING_CDB") /\ UNCHANGED <<cdb, source>>
     \/ /\ out_file.by \in {"this", "earlier"}
        /\ cdb' = out_file.items
        /\ source' = out_file.by
        /\ phase' = "detect" /\ UNCHANGED ec
  /\ UNCHANGED <<winVars, tools, proberVars, temporaries, method, profile, toolchain_profile,
                 detected, results>>

Names == [i \in DOMAIN cdb |-> cdb[i].name]

\* The profile detected replaces the one the build was traced with; that it
\* could not be loaded is not looked at.
DetectProfile ==
  /\ phase = "detect"
  /\ IF profile \in AutoProfiles
     THEN /\ detected' = Detect(toolchain_profile, Names)
          /\ tools' = Load(detected').tools
     ELSE tools' = toolchain_profile /\ UNCHANGED detected
  /\ ProberStart(tools')
  /\ phase' = "probe"
  /\ UNCHANGED <<winVars, cdb, temporaries, method, profile, ec, toolchain_profile,
                 source, results>>

Probe ==
  /\ phase = "probe"
  /\ \/ (ProbeItem \/ ProbeLanguage) /\ UNCHANGED <<phase, ec>>
     \/ ProbeThrows /\ Return("EC_UNKOWN")
     \/ Probed /\ LoadActionable /\ phase' = "work" /\ UNCHANGED ec
  /\ UNCHANGED <<winVars, tools, cdb, method, profile, toolchain_profile, detected,
                 source, results>>

\* Mutant of Work: the archive is opened before the work items are processed.
WorkAfterOpen ==
  /\ phase = "work"
  /\ \/ phase' = "generate" /\ UNCHANGED archive
     \/ phase' = "aborted" /\ archive' = NoArchive
  /\ UNCHANGED <<winVars, toolVars, temporaries, method, profile, ec, toolchain_profile,
                 detected, source, source_list>>

\* The parallel work phase.  An exception that leaves a task ends the program:
\* no thread of the executor catches it.
Work ==
  /\ phase = "work"
  /\ phase' \in {"generate", "aborted"}
  /\ UNCHANGED <<winVars, toolVars, temporaries, method, profile, ec, toolchain_profile,
                 detected, source, results>>

\* generate_output writes the items of known tools, if the archive opens.  An
\* exception between two of them leaves a part of the archive and no list.  The list
\* of sources comes last: a path that is no UTF-8 makes the dump throw when the
\* archive is complete and the list has been opened.
Generate ==
  /\ phase = "generate"
  /\ \/ /\ \/ archive' = [by |-> "this", source |-> source,
                          items |-> {b \in Range(cdb) : ToolOf(tools, b.name) # NoTool}]
           \/ UNCHANGED archive
        /\ \/ Return("EC_NONE") /\ source_list' \in {source_list, "this"}
           \/ Return("EC_UNKOWN") /\ source_list' \in {source_list, "broken"}
     \/ /\ archive' = [by |-> "broken", source |-> source, items |-> {}]
        /\ Return("EC_UNKOWN") /\ UNCHANGED source_list
  /\ UNCHANGED <<winVars, toolVars, temporaries, method, profile, toolchain_profile,
                 detected, source>>

Main ==
  \/ ParseCommandLine \/ ParseConfig \/ LoadProfile \/ MakeTracer
  \/ TraceWithBear \/ StraceMissing \/ Strace \/ StraceEnds \/ TraceWithWindbg \/ WindbgEnds
  \/ LoadCdb \/ DetectProfile \/ Probe \/ Work \/ Generate

Windbg == WinNext /\ UNCHANGED <<toolVars, temporaries, mainVars>>

Next == Main \/ Windbg

Spec == Init /\ [][Next]_vars

\* The steps of xcalbuild and of win-tracer are made when they can be; the traced
\* build need not go on, its processes need not end, and a wait need not fail.
FairSpec ==
  /\ Spec
  /\ WF_vars(Main)
  /\ WF_vars(Works /\ UNCHANGED <<toolVars, temporaries, mainVars>>)

-----------------------------------------------------------------------------
(* Properties.                                                             *)

TypeOK ==
  /\ WinTypeOK /\ ProberTypeOK
  /\ phase \in {"command", "config", "profile", "tracer", "trace", "strace", "windbg", "load",
                "detect", "probe", "work", "generate", "returned", "aborted"}
  /\ method \in Methods \cup {"-"} /\ profile \in Profiles \cup {"-"}
  /\ out_file.by \in {"nobody", "earlier", "this", "broken"}
  /\ archive.by \in {"nobody", "earlier", "this", "broken"}
  /\ archive.source \in {"nobody", "earlier", "this"}
  /\ source_list \in {"nobody", "earlier", "this", "broken"}

Processed == archive.by = "this"

\* The archive of a run tells of the build of that run: the default Unix tracer
\* never leaves the database of an earlier one to be processed.  The other two
\* do when they cannot write it.  (build-processor.cpp:80, tracer.cpp:179)
ProcessedOwnTrace ==
  Processed /\ archive.source = "earlier" => method \in {"static", "windbg"}

\* On Windows a build that failed, or whose trace was broken off, is not processed:
\* a result made from the trace means the root ended with 0, and every known
\* compiler that ran is in it.  (win-tracer.cpp:453, tracer.cpp:268-276)
WholeTrace ==
  Processed /\ archive.source = "this" /\ method = "windbg" =>
    /\ proc[Root] = "gone" /\ root_process_exit_status = 0
    /\ \A p \in Processes \ Unreadable :
         Ran(p) /\ IsInterestingBinary(Binary(p)) /\ ToolOf(tools, Executable[p].name) # NoTool =>
           Executable[p] \in archive.items

\* The result of an earlier run is replaced in the last step of a run: no error
\* before it and no exception of a work item leaves half a result in its place.
\* An exception of the last step itself may; the run then fails, and it has not
\* written the source list.  (build-processor.cpp:272, opened after everything else
\* that can fail, and 272-502)
ErrorKeepsArchive ==
  [][results' # results =>
       /\ phase' = "returned"
       /\ \/ ec' = "EC_NONE" /\ archive'.by # "broken"
          \/ ec' = "EC_UNKOWN" /\ source_list' # "this"]_vars

\* How a command can be traced for a name and not be known by it: the tracer looks for
\* a whole alias, which may have an extension ("gcc-4.8") whose stem is no alias, or,
\* with strace, for the file that is executed, whatever the command is called.  Of the
\* Windows tracer, which looks for stems, there is no such command.
CalledOtherwise(b) ==
  /\ Stem[b.name] \notin Binaries
  /\ method = "static" \/ (method = "dynamic" /\ b.name \in Binaries)

\* Every command traced for a profile is processed with it: by the profile the user
\* names, unless the command is called otherwise, and by the one detected, if all the
\* commands have an origin in common or the command has this one, as far as the
\* detected profile can be loaded.
\* (toolchain-profile.cpp:124 and 156, build-processor.cpp:132 and 219)
TracedMeansProcessed ==
  Processed /\ archive.source = "this" /\ toolchain_profile # <<>> =>
    \A b \in Range(cdb) \ archive.items :
      \/ CalledOtherwise(b)
      \/ /\ profile \in AutoProfiles
         /\ \/ LoadStops(detected, b.name)
            \/ /\ detected \notin Range(OriginsOf(toolchain_profile, b.name))
               /\ \A origin \in Range(Origins) :
                    OriginCount(toolchain_profile, Names, origin) # Len(cdb)

\* Whatever way a run returns, it leaves no file its tracer or its prober made for
\* themselves, unless an exception ended it; for those of the work items see
\* NoFileLeft.  (tracer.cpp:136, 183 and 214, prober.cpp:126 and 139)
TempFilesRemoved ==
  phase = "returned" /\ ec # "EC_UNKOWN" => temporaries = {}

\* When the build has ended, xcalbuild ends.
RunEnds ==
  \/ phase \in {"load", "detect", "probe", "work", "generate"}
  \/ proc[Root] \in {"ending", "gone"}
  ~> phase \in {"returned", "aborted"}

=============================================================================
