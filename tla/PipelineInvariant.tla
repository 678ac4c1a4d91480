------------------------- MODULE PipelineInvariant -------------------------
(***************************************************************************)
(* What holds in every state of Pipeline, strong enough for every step to  *)
(* keep it: of the processes that win-tracer debugs and of their events,   *)
(* of what the prober has learnt, and of the files of the run.             *)
(***************************************************************************)
EXTENDS Pipeline

IsList(s) == s \in Seq(Range(s))

-----------------------------------------------------------------------------
(* The Windows tracer.                                                     *)

Event ==
  [kind : {"CREATE", "EXCEPTION"}, process : Processes]
    \cup [kind : {"EXIT"}, process : Processes, status : ExitStatuses \cup {EXIT_FAILURE}]

WinTypes ==
  /\ WinTypeOK
  /\ queue \in Seq(Event) /\ event \in Event \cup {NoEvent}
  /\ IsList(array) /\ Logged \subseteq Processes

\* A process that has reported something stands still until it is continued.
StateOf  == [CREATE |-> "reported", EXCEPTION |-> "faulting", EXIT |-> "ending"]
Handling == lpc \in {"handle", "continue"}

EventsMatch ==
  /\ \A i, j \in DOMAIN queue : queue[i].process = queue[j].process => i = j
  /\ \A i \in DOMAIN queue : proc[queue[i].process] = StateOf[queue[i].kind]
  /\ Handling =>
       /\ event \in Event /\ proc[event.process] = StateOf[event.kind]
       /\ \A i \in DOMAIN queue : queue[i].process # event.process

\* Debugging begins with no process and ends with none.
DebuggeesOwned ==
  /\ lpc \in {"off", "create"} =>
       /\ \A p \in Processes : proc[p] = "none"
       /\ array = <<>> /\ process_running
  /\ lpc \in {"off", "create", "done"} => queue = <<>>
  /\ lpc = "done" => \A p \in Processes : proc[p] \in Over \cup {"none"}
  /\ lpc # "done" => \A p \in Processes : proc[p] \notin Cut

\* A process is logged while its first event is handled, and at no other time.
LogMatches ==
  /\ \A p \in Logged : proc[p] \notin {"none", "created", "stillborn"}
  /\ \A i \in DOMAIN queue : queue[i].kind = "CREATE" => queue[i].process \notin Logged
  /\ lpc = "handle" /\ event.kind = "CREATE" => event.process \notin Logged
  /\ lpc = "continue" /\ event.kind = "CREATE" /\ LogCreateProcess(event.process) =>
       event.process \in Logged
  /\ RanMeansLogged

\* The loop is left for the end of the root, whose status only this can make 0.
RootSeen ==
  /\ ~process_running =>
       \/ lpc = "continue" /\ event.kind = "EXIT" /\ event.process = Root
       \/ lpc \in {"write", "done"} /\ proc[Root] = "gone"
  /\ root_process_exit_status = 0 => ~process_running

\* Who waits for a process runs, and is ended with it.
ParentsWait ==
  \A p \in Awaited :
    /\ proc[p] \notin Absent \cup Over => proc[Parent[p]] = "running"
    /\ proc[p] \in Cut => proc[Parent[p]] \in Cut

WinInv == WinTypes /\ EventsMatch /\ DebuggeesOwned /\ LogMatches /\ RootSeen /\ ParentsWait

-----------------------------------------------------------------------------
(* The prober.                                                             *)

ProberTypes ==
  /\ IsList(tools) /\ IsList(toolchain_profile)
  /\ IsList(cdb)
  /\ pending \in Seq(Languages) /\ IsList(runs)
  /\ DOMAIN config \subseteq DOMAIN tools
  /\ config = [t \in DOMAIN config |-> [lang \in Languages |-> config[t][lang]]]
  /\ \A t \in DOMAIN config : \A lang \in Languages : IsList(config[t][lang])

IsFirst(i, t) ==
  /\ ToolOf(tools, cdb[i].name) = t
  /\ \A j \in 1 .. i - 1 : ToolOf(tools, cdb[j].name) # t

\* Its tools are those of the commands behind it, and of the one it is at.
ToolsMet ==
  /\ \A i \in 1 .. item - 1 : ToolOf(tools, cdb[i].name) \in probed \cup {NoTool}
  /\ pending # <<>> =>
       /\ item <= Len(cdb) /\ Tool \in probed /\ IsFirst(item, Tool)
       /\ IsInjective(pending)
       /\ Tool \in DOMAIN config =>
            \A lang \in Range(pending) : config[Tool][lang] = <<>>

AnsweredBy(i, t, lang) ==
  IsFirst(i, t) /\ config[t][lang][1] \in ProbeBinaries(tools[t].tool, cdb[i], lang)

\* A list of options is empty or the answer to the one probe of the first command.
AnsweredOnce ==
  \A t \in DOMAIN config : \A lang \in Languages :
    config[t][lang] # <<>> =>
      /\ t \in probed /\ Len(config[t][lang]) = 1
      /\ \E i \in DOMAIN cdb : AnsweredBy(i, t, lang)

OptionsFromJson ==
  /\ options = [t \in DOMAIN config |-> [lang \in Languages |-> options[t][lang]]]
  /\ \A t \in DOMAIN config : \A lang \in Languages : options[t][lang] \in {<<>>, config[t][lang]}

\* The prober does nothing before its phase, nor load_actionable before its end.
ProberPhases ==
  /\ phase \notin {"probe", "work", "generate", "returned", "aborted"} =>
       item = 1 /\ probed = {} /\ pending = <<>> /\ config = <<>>
  /\ phase = "probe" =>
       /\ DOMAIN config = DOMAIN tools
       /\ \A t \in DOMAIN config : \A lang \in Languages : options[t][lang] = <<>>

ProberInv ==
  /\ ProberTypeOK /\ ProberTypes /\ ToolsMet /\ AnsweredOnce /\ OptionsFromJson /\ ProberPhases

-----------------------------------------------------------------------------
(* The run.                                                                *)

Tracing    == {"command", "config", "profile", "tracer", "trace", "strace"}
Processing == {"load", "detect", "probe", "work", "generate"}

RunTypes ==
  /\ TypeOK
  /\ out_file = [by |-> out_file.by, items |-> out_file.items] /\ IsList(out_file.items)
  /\ archive = [by |-> archive.by, source |-> archive.source, items |-> archive.items]
  /\ lpc # "off" => method = "windbg"

\* The tracer is one that main has started and whose end it has seen.
TracerPhases ==
  /\ phase \in Tracing => lpc = "off" /\ out_file.by \in {"nobody", "earlier"}
  /\ phase = "windbg" => lpc # "off"
  /\ phase # "windbg" => lpc \in {"off", "done"}
  /\ phase \notin {"command", "returned"} => method \in Methods
  /\ phase = "strace" => method = "static"

\* A database of this run holds what its tracer logged.
TraceWritten ==
  method = "windbg" /\ out_file.by = "this" =>
    /\ lpc = "done"
    /\ out_file.items = [i \in DOMAIN array |-> Executable[array[i].process]]

\* The build has succeeded, and its trace has replaced an earlier one.
BuildPassed ==
  /\ method \in Methods
  /\ method = "dynamic" => out_file.by = "this"
  /\ method = "windbg" => lpc = "done" /\ root_process_exit_status = 0

Loaded == source = out_file.by /\ source \in {"earlier", "this"} /\ cdb = out_file.items

MadeOfLoaded == phase = "returned" /\ archive.source = source
                /\ archive.items = {b \in Range(cdb) : ToolOf(tools, b.name) # NoTool}

RunFiles ==
  /\ phase \in Processing \/ Processed => BuildPassed
  /\ phase \in Processing \ {"load"} \/ Processed => Loaded
  /\ Processed => MadeOfLoaded
  /\ phase # "returned" =>
       archive.by \in {"nobody", "earlier"} /\ source_list \in {"nobody", "earlier"}

\* A temporary file has a phase to be removed in.
TempsPhased ==
  /\ phase \in {"command", "config", "profile", "tracer", "trace"} => temporaries = {}
  /\ phase = "strace" => temporaries \subseteq {"strace"}
  /\ phase = "windbg" => temporaries \subseteq {"config"}
  /\ phase \in Processing => temporaries = {}
  /\ TempFilesRemoved

RunInv == RunTypes /\ TracerPhases /\ TraceWritten /\ RunFiles /\ TempsPhased

-----------------------------------------------------------------------------
(* The tools.                                                              *)

\* The profile of the command line has been loaded, and nothing else is traced for.
ProfileLoaded ==
  /\ phase \notin {"command", "returned"} \/ Processed => profile \in Profiles
  /\ phase \in {"tracer", "trace", "strace", "windbg"} \cup Processing \/ Processed =>
       toolchain_profile = Load(profile).tools /\ Load(profile).ok

\* What is logged is wanted, and what is wanted is in the profile.
TracedWanted ==
  /\ lpc # "off" => compilers = Binaries
  /\ \A p \in Logged : IsInterestingBinary(Binary(p))
  /\ out_file.by = "this" /\ Binaries # {} =>
       \A b \in Range(out_file.items) :
         /\ method = "dynamic" => b.name \in Binaries
         /\ method = "windbg" => Stem[b.name] \in Binaries

\* The commands are processed with the profile they were traced for, or the detected one.
ToolsChosen ==
  phase \in {"probe", "work", "generate"} \/ Processed =>
    IF profile \in AutoProfiles
    THEN detected = Detect(toolchain_profile, Names) /\ tools = Load(detected).tools
    ELSE tools = toolchain_profile

ToolsInv == ProfileLoaded /\ TracedWanted /\ ToolsChosen

IInv == WinInv /\ ProberInv /\ RunInv /\ ToolsInv

=============================================================================
