# A TLA+ verification of xcalbuild

xcalbuild runs a native build under a tracer, finds the compile, assemble,
archive and link commands in the trace, preprocesses every translation unit
again and packs the results, sorted by link target, into
`preprocess.tar.gz`. This directory holds TLA+ models of its core, the TLC
configurations that check them, and TLAPS proofs about them. Paths such as
`main.c:178` refer to the sources of the repository, mostly below
`src/src/`; `PROJECT.json` maps every definition to the lines it stands for.

## 1. The system

| Component | Sources | State it keeps | Operations | Status |
|---|---|---|---|---|
| unix-tracer, server | `linux/bear/src/{main,protocol,output}.c` | `child_pid`, `child_status`, signal mask, listening socket, output file | accept loop, message reading, SIGCHLD and SIGINT handlers, set-up and shutdown | modelled: `BearTracer` |
| interposed library (`libtracer-preload`) | `linux/bear/src/{execs,environ}.c`, sending side of `protocol.c` | `already_reported`, the environment | exec and posix_spawn wrappers, `bear_env_insert`, `bear_send_message` | mostly: `ExecReporting`, `BearTracer` |
| `main`, tracer drivers | `xcalbuild/main.cpp`, `tracer/tracer.cpp` | files in the output directory, temporary files | prebuild, Bear, strace or windbg, early returns | modelled: `Pipeline`; of the drivers, not prebuild and macOS |
| win-tracer | `windows/*.cpp` | the JSON array, `process_running`, `root_process_exit_status`, the event in hand | debug event loop, filter, response files, end | mostly: `WinTracer` |
| build processor | `build-processor/*` | `cdb`, three mutex-protected lists of results, the maps of `generate_output` | filters, loading, detection, the parallel phase, output generation | partly: `BuildProcessor`, `OutputGeneration`, `BuildResults`, `ResultLists`, `Pipeline` |
| work item processor | `work-item-processor/*` | the parsed command, temporary files | `process`, `handle_compile`, `handle_link` | modelled: `WorkItems` |
| parser of traced commands | `profile/{option,tool-profile,parsed-work-item}.cpp` | `ParsedWorkItem` | `parse_work_item`, `Option::match`, `get_preprocessing_options` | partly: `ParseWorkItem` |
| toolchain profiles, detection | `profile/{toolchain-profile,validation}.cpp` | profiles, maps of binaries and origins | load, validate, look up, detect | mostly: `ToolchainProfiles` |
| prober | `prober/*`, `tool-profile.cpp` | profile JSON, the profiles probed, temporary files | probe, `apply_action`, `load_actionable` | modelled: `Prober` |
| command line | `xcalbuild/command-line.cpp` | the options | `parse`, `parse_config` | partly: `Pipeline` |
| utilities, profile tester | `utils/*`, `profile/profile-tester.cpp` | none of their own | archive, checksum, paths, logging | not modelled: pure I/O and text |
| taskflow, clang headers, profiles, scripts | vendored code and data | | | external or data |

How they interact. `main` loads a toolchain profile, starts a tracer as a child
process, and waits. unix-tracer forks the build with the interposed library in
`LD_PRELOAD` and its socket in the environment; every exec of the build sends it
one message before it is performed; the server appends the interesting ones to
`compile_commands.json`. The build processor reads that file, lets a pool of
threads run one work item processor per command, and these append their results
to shared lists under a mutex. After the barrier a single thread sorts the
results by link target.

What is hard here:

* The tracer uses neither `poll` nor a self-pipe: `accept` and `read` are
  interrupted by signals whose handlers reset a global, and nothing orders the
  test of `child_pid` and the `accept` that follows it (`main.c:178`).
* Traced processes are not children of the tracer: they may outlive the root of
  the build, die in the middle of a message, or be refused.
* The interposed library keeps a flag across failures, nested calls and forks.
* The order of the results is that of the threads, and output generation gives
  out names and scan options in that order.
* Preprocessor runs fail, sources disappear after their compilation.
* Names clash: link targets in different directories, sources in one target,
  libraries known to their users by a path that is guessed.
* The parts of a run read each other's results from files in a directory that an
  earlier run has used, and not every failure to write one is noticed.
* On Windows the tracer is the debugger of the whole build: whatever ends it ends
  every process of the build that is still there.
* What one compiler answers to the prober holds for all that share its profile.
* A parser that knows only words has to guess which of them are arguments.

`PROJECT.json` lists these as hazards, each at its line, with the properties
that would notice.

## 2. Modules

| Module | Models | Extends |
|---|---|---|
| `TraceLog` | what the tracer promises: a log of told calls, each at most once, until it is ended | |
| `BearTracer` | server, build root, traced processes, signals, socket | |
| `BearTracerProofs`, `ElementLemmas` | proofs; lemmas about the elements of sequences | `BearTracer` |
| `ExecReporting` | exec and spawn wrappers of the processes of a build | |
| `ExecReportingProofs` | proofs | `ExecReporting`, `ElementLemmas` |
| `BuildResults` | file names and the shared lists of results | |
| `WorkItems` | the parallel phase | `BuildResults` |
| `OutputGeneration` | `generate_output` | `BuildResults` |
| `BuildProcessor` | `process`: the phases, composed of the two above | `WorkItems`, `OutputGeneration` |
| `ResultLists` | what the parallel phase promises: a list that grows until a barrier | |
| `BuildProcessorInvariant` | the inductive invariant `BuildInv` of `BuildProcessor`; its first part is `IInv` | `BuildProcessor` |
| `WorkItemsProofs` | proofs that the steps of the items keep it | `BuildProcessorInvariant`, `ElementLemmas` |
| `BuildProcessorProofs` | that the steps of the output do, and its theorems | `WorkItemsProofs` |
| `FileNames` | stem and extension of a file name | |
| `WinTracer` | win-tracer and the build it debugs | `FileNames` |
| `ToolchainProfiles` | loading, look-up, origins and detection of toolchains | `FileNames` |
| `Prober` | the probe of each tool profile | `ToolchainProfiles` |
| `Pipeline` | one run of xcalbuild: `main`, the tracer drivers, loading and detection, composed of `WinTracer` and `Prober` | `WinTracer`, `Prober` |
| `PipelineInvariant` | the inductive invariant `IInv` of `Pipeline`, with `WinTracer` and `Prober` | `Pipeline` |
| `WinTracerProofs`, `PipelineProofs` | proofs about the Windows tracer alone; about the prober and the run | `PipelineInvariant`, `ElementLemmas` |
| `ParseWorkItem` | parsing of one command line and assembly of the preprocessing command | |
| `ParseWorkItemProofs` | proofs | `ParseWorkItem`, `ElementLemmas` |
| `MC*` | values of the constants for TLC | |

Definitions named `Mutant of ...` in comments are plausible mistakes in a
definition. Nothing in the models uses them: they are there to be put in the
place of the definition they belong to, and each makes the property that
`PROJECT.json` pairs it with fail.

### BearTracer

`spc` is the place of the server in `collect_messages` and
`receive_on_unix_socket`, with `accept` split in two (`call`, `accept`) because
a signal between the test of `child_pid` and the sleep behaves differently from
one that wakes the sleeper. `masked`, `pending` and `handling` are the signal
state: while a signal is deliverable the server makes no step of its own
(`CanRun`). `DeliverSIGCHLD` and `Reap` are the handler before and at its
`waitpid`; a signal that arrives in the `accept` or in the `read` ends it with
EINTR, which ends the loop or the program. The build root waits on the sync
pipe, runs, may be stopped and continued, ends with a status or by a signal.
A traced process announces one call each: connect (waits when the backlog of
`listen(s, 0)` is full; Linux lets `Backlog + 1` wait), write its message part
by part, exec, end; it may be refused, receive SIGPIPE, or die. A root that was
killed before it was told to start has closed the pipe, and the write of `NotifyChild`
then ends the server.

The model begins when the server has blocked its signals. Of what can happen between the
fork and then (`main.c:97-141`), a SIGINT before its handler is there ends the server
without an output, as a failure in `OpenOutput` does; one that finds a handler does what it
does after `Unblock`.

Data: a call is a model value, a message is `Parts` pieces, the JSON file is the
sequence `log`. Undefined behaviour is a choice: the uninitialised `status` of
the handler decodes to any status of `Statuses`, or to failure.

Losing a message is possible by design of the code (see findings), so the
safety properties say precisely how much: `NothingDropped` while the server
listens, `LossBound` at the end, `RecordedOnceAndWhole` always.
`ImplementsTraceLog` is the refinement to `TraceLog`. `EndsOrHangs` and
`ClientUnblocked` say that the tracer hangs in exactly four ways, each named and
tied to its line (`LostWakeup`, `SignalStorm`, `EndlessWait`, `EndlessRead`), and
in no fifth. Each of the four is real; the properties would be false without it.

### ExecReporting

A process is its flag `already_reported`, its environment, and the stack `calls` of
wrappers that are being executed, because the C library's `execvp` may call the
interposed `execve`. `Call` is the front of a wrapper up to the real call
(`report_call`, `bear_env_insert`), `Fail` its way back after a failure,
`Exec` and `Spawn` its success. `fork` copies flag and environment.
`EnvInsert` follows `bear_env_insert` to the letter: the removal of a key begins
again behind the first entry and so does not look at the entry that has moved to
the front. Wrappers that behave alike are one value of `Functions`.

### BuildResults, WorkItems, OutputGeneration, BuildProcessor

An item of the compile database is what `parse_work_item` makes of it: kind,
target, sources with languages. Archive commands are handled as link commands are
(`HandledAs`), except that one without a target keeps none (`TargetToLink`). `WorkItems` runs items on `Parallelism` threads;
the preprocessor runs between two steps, so that items interleave and a file may
vanish after its test. `temps` are the temporary files. Threads append whole
results under a mutex, so an append is one step.

`OutputGeneration` takes one step per link result, per copy and per property
file, in the order of the lists; the set of link targets of a source is an
unordered set of pointers, so `CopyCompiled` chooses the next. A file name is a
stem, an extension and the numbers `generate_output` has appended.

The properties of `BuildProcessor` are stated from the database alone:
`ScheduleIndependent` compares what the archive holds, whatever the threads did,
with a reference that follows link and assembler commands of the database;
`LibrariesFound` does this for libraries.

`ImplementsResultLists` is the refinement of the parallel phase to `ResultLists`: an
item is closed when its thread has left it, the barrier is passed when the phase is no
longer the parallel one, and no thread adds anything behind it.

### WinTracer

The build is modelled with its tracer, because the two stop each other. A process is
created by its parent, reports itself (`CREATE_PROCESS_DEBUG_EVENT`) and stands still until
the tracer continues it; while it does, its parent and its siblings run on, remove a
response file, fault or end. `queue` holds the events the system has and the tracer has not
waited for. `lpc` is the place of the tracer in `trace_process`: creating the root, waiting, handling an
event, continuing it, writing the array. `CreateRoot`, `WaitFails`, `OpenFails`, the
exceptions of `LogThrows` and `DumpThrows`, and the
tracer that never starts are its failures. `KillRest` is what Windows does when a
debugger ends. `Unfold` is the loop over the arguments of `log_create_process`; the form of
an argument (`attached`, `space`, `equal`, or plain) is what `CompilerConfig` makes out,
and only for a binary of its file (`Argv`).

`WinImplementsTraceLog` maps the array to the same `TraceLog` that `BearTracer`
implements: told is a process that has reported itself, and the log is complete when
it has been written.

### ToolchainProfiles and Prober

A toolchain is the sequence of its tool profiles, each with its aliases and origins.
`Load` stops at the first that fails validation and keeps those before it, as the
code does; `ToolOf` gives a command to the last tool that has its binary among its
aliases, as assigning `binaries[alias]` in turn does. What it looks up is the stem of the
first argument's file name, whatever its extension is (`toolchain-profile.cpp:127`). `Detect` is
`detect_toolchain_profile`, with the tie broken by the order of the names.

A name is a member of a set, with its stem and its extension as functions (`FileNames`).
Three parts of the program use them, and in three ways: the Unix tracers compare whole names
(`BearCommands`, `StraceCommands`), win-tracer stems (`Binary`), the processor a stem
with whole aliases (`ToolOf`); the prober puts the extension of its binary on an alias
(`ProbeBinaries`).

`ProbeItem` is the loop of `probe_toolchain` up to the macros, `ProbeMacros` a run of the
compiler for one language with its outcome: it fails, asks for nothing, asks for
options, or answers what cannot be split, which throws. `config` is the list in the
profile's JSON and `options` the list the work items see; `load_actionable` copies the one to
the other. What the macros of a compiler ask for is the compiler itself, which is
all `OptionsOfFirstBinary` has to tell apart.

### Pipeline

`phase` is the place of `main`. Files are read and written where the code does: the
compile database (`out_file`), the archive, the source list, each with the run that
wrote it, since the output directory may be new or used. The driver of win-tracer
takes part with all its steps; those of unix-tracer and strace are one step with the
outcomes `BearTracer` has for them: any subset of the wanted commands in their order. A
command of the build has the file it executes and the name it is called by, its first argument:
Bear compares the second, strace the first, and both record the second. The
parallel phase and the output are one step each, `Work` and `Generate`; an
exception in a task of the pool has no handler and aborts the program, one in the output
leaves the archive whole or broken off (`archive.by = "broken"`).

### ParseWorkItem

The model has a command line twice: as elements (an option in one of its forms
with its argument, a file, a response file), and as the words these are written
in. The actions see the words only, one action per branch of the loop over the
words. `ParsedAsMeant` says that the parser has understood the elements, where every
option is written in a form the profile lists. A scan option is passed on for either language, by a name, an argument map
and a format of the profile (`ScanOption`). `LostAsArgument` holds for any line, of the words after the unfolding: sources are lost, and the words left, in no
other way than as the supposed argument of an option.
A word is an alias and a rest; an alias that is a prefix of another one is not
represented. An alias may stand in several options of a profile, as `-E` does in gcc's, and
the first that matches in the order of the profile is processed. A response file has
elements of its own, which stand in the place of the option that names it; a response
file that is empty or gone leaves one empty word there, as splitting an empty text does.

## 3. Runs

| Run | Module, cfg | Shows | Distinct states |
|---|---|---|---|
| `tracer_safe` | `MCBearTracer`, `BearTracerSafe` | 3 calls, one by a process that outlives the root and may die, one not interesting, one SIGINT, job control, failing set-up: invariant, refinement, loss bound | 1,750,000 |
| `tracer_quiet` | `BearTracerQuiet` | 3 calls, none detached, backlog 1, one SIGINT: output completed unless interrupted, order of dependent calls, exit status | 297,000 |
| `tracer_live` | `BearTracerLive` | 2 calls with all faults, liveness | 187,000 |
| `tracer_lost` | `BearTracerLost` | finding: a performed call is missing | |
| `tracer_stopped` | `BearTracerStopped` | finding: exit code of a stopped build | |
| `exec_reporting` | `MCExecReporting`, `ExecReporting` | 2 processes, 3 foreign environments, wrappers nested twice | 405,000 |
| `exec_spawn` | `ExecSpawn` | finding: nothing is told after a posix_spawn | |
| `build_every` | `MCBuildProcessor`, `BuildEvery` | 6 databases, 2 threads, faults, both values of the link option; inductive invariant `BuildInv`, refinement to `ResultLists` | 109,000 |
| `build_shared` | `BuildShared` | finding: a library of two programs | |
| `build_mixed` | `BuildMixed` | finding: scan options of two languages | |
| `parse_lines` | `MCParseWorkItem`, `ParseGcc` | every line of up to 3 of 23 elements, with the response file readable or not | 183,000 |
| `pipeline` | `MCPipeline`, `Pipeline` | whole runs with each of 3 tracers and 4 profiles, in a new or a used directory; a Windows build of 4 processes, every failure of both programs; inductive invariant, refinement to `TraceLog` | 130,000 |

Bounds and why they are enough.

* Three calls are the fewest with which one message is being read, one waits in
  the backlog and one finds it full; the loss bound needs that one more call than
  the backlog holds could be lost. `Parts = 2` has a state within a message.
  One SIGINT reaches every place of the server; a second one before the first is
  handled is merged by the kernel. `Backlog` is 0 in the code; the other value
  shows that nothing depends on 0. The proofs have none of these bounds.
* `tracer_live` has 2 calls because the fairness of each traced process is a
  separate condition; with two, one can block the other.
* Two processes are enough for a parent and a child, which is all the state
  that a call shares; `MaxDepth = 2` is the nesting that real C libraries
  have. Both bounds are gone in the proofs.
* The databases are chosen so that every clash of `generate_output` happens:
  `ToolsCdb` (assembler between compiler and linker, an object in two targets, three sources
  of one name), `FaultsCdb` (failing and vanishing sources in the middle of a
  command, no target), `NamesCdb` (two libraries of one name), `DirCdb` (a
  directory as target, a pseudo link that the linker key filters, unknown items), `MixedCdb` (two languages,
  an archive command without a target), `TestLdCdb` (a link target really called `test_ld`). Two threads already give
  every order of the results.
* A line of three elements has an option before and behind a file; a response
  file brings two more, one of them names another one.
* The Windows build has one process of each kind: a root, a compiler its parent waits for,
  with a response file and a breakpoint; a linker below it whose memory cannot be read; a
  compiler nobody waits for, which may not be opened and has an access violation. Two
  processes run beside the tracer at a time. The profiles have the shape of `linux-auto`: four tools
  of three origins, one of two origins, one toolchain with a broken tool, one without
  tools. One compiler has a name with a dot that is an alias as it stands, and one command is not called by
  the name of the file it executes. The Unix database has two binaries of one tool, one of another and one of
  none, so the first origin wins, loses, or ties depending on which of them the tracer got.

Deadlock is checked in `parse_lines` (a parse that neither goes on nor returns).
In the other runs the system really ends: build and tracer end, `process`
or `main` returns, all processes of the build exit.

Fairness. `BearTracer!FairSpec` lets the scheduler run every runnable process
(weak fairness of the server, of the start of the root and of each traced
process) and the kernel deliver signals. Nothing makes the build start a call,
end, or be interrupted: `EndsOrHangs` begins with the end of the root.
`ClientUnblocked` excludes a root that is stopped and continued for ever, since
each continuation raises SIGCHLD again. `BuildProcessor!FairSpec` is weak
fairness of the next-state relation: threads run on and every preprocessor ends
(the code sets no timeout and waits for it).
`Pipeline!FairSpec` is weak fairness of the steps of xcalbuild and of those of win-tracer that
handle an event (`Works`), not of its failing wait. The traced build need not go on:
`RunEnds` begins with the end of its root, and says that nothing which the root left
behind keeps the run; `FaultsArePassedOn` that the tracer does not keep a process in
its exception. Both fail without the fairness of win-tracer.

## 4. Findings

Violations that TLC shows, each against a line of the repository:

1. `tracer_lost`. The loop tests `child_pid` before it accepts
   (`main.c:178`): a message complete in the backlog when the build ends is
   dropped with the socket.
2. `tracer_stopped`. SIGCHLD is raised when the build is stopped as well;
   `waitpid` with `WNOHANG` returns 0, and the uninitialised status is taken for
   the exit status (`main.c:196`).
3. `exec_spawn`. `posix_spawn` leaves the flag set in a process that lives on
   (`execs.c:192`).
4. `build_shared`. The name of a library is moved out of the map by the first
   property file that lists it (`build-processor.cpp:474`).
5. `build_mixed`. The scan options of the other language are cleared in the
   command instead of the result (`work-item-processor.cpp:120`).

Divergences seen while modelling and not given a run of their own; the
properties concerned are stated with the condition that excludes them:

* A library whose first object has another stem is known by its file name only
  (`work-item-processor.cpp:66`), although `dependency_names` is documented as a
  map "from target full path" (Build-Processor.md:33). `LibrariesFound`.
* A failed source leaves the results before it without their pseudo link
  (`work-item-processor.cpp:168`, Work-Item-Processor.md:22). `SourcesBridged`.
* With a link target really called `test_ld`, what nothing links is not put
  into the made-up target (`build-processor.cpp:386` and `:409`, IO.md:21).
  `UnitsArchived`.
* A generated name is not entered among those seen, so a third target that
  really has that name shares its directory (`build-processor.cpp:316`,
  Build-Processor.md:40). `ArchivePathsDistinct`.
* Only the first response file is unfolded; the sources in a second one are lost
  (`tool-profile.cpp:370`, Profile-Spec.md:298). `ParsedAsMeant` says so.
* "Still return and continue even tracing failed" (`tracer.cpp:273`), but
  `main.cpp:74` stops. `WholeTrace` holds because it does.
* The strace driver and win-tracer do not look whether the database could be opened
  (`tracer.cpp:179`, `win-tracer.cpp:538`): with status 0, the one an earlier run has left is
  then processed. `ProcessedOwnTrace` has the exception.
* The source list is written behind the archive, and a path in it that is no UTF-8
  makes `dump` throw (`build-processor.cpp:502`): the run returns an error with its
  archive in the place of the earlier one. `ErrorKeepsArchive` has the exception.
* An archive that cannot be opened is not noticed (`archive.cpp:36`): the run returns
  `EC_NONE` with the earlier archive in place.
* The example of a compiler configuration lists `equal` and `space` for armlink's `--Via`
  (Tracer.md:96-101), but such an option is compared with the whole word (`compiler-config.cpp:72`):
  `--Via=file` does not match and is recorded as it stands, so `equal` never applies; `--Via file` is unfolded.
  With a configuration that lists `equal` alone, `--Via` is matched without a path, and that ends the
  loop over the arguments (`win-tracer.cpp:391-407`), as does, with `space`, a `--Via` that is the last
  argument. `RanMeansRecorded` is about the arguments up to there.
* "Any command line matching an alias in the list will be handled by this profile"
  (Profile-Spec.md:98-99), and a tool's `aliases` replace the default ones (38-39). The Unix tracers look for the
  alias as it is written, but the processor looks up the command's name without its extension
  (`toolchain-profile.cpp:127`): with an alias such as `gcc-4.8` or `ld.gold`, and no alias `gcc-4`
  or `ld`, the command is traced and then dropped as unknown. So it is when strace finds the
  file that is executed among the aliases (`tracer.cpp:156`) but the command is called by another
  name (`tracer.cpp:172`). `TracedMeansProcessed` excepts just these commands (`CalledOtherwise`).
* The error of loading a detected profile is ignored (`build-processor.cpp:219`): the commands of
  the tools behind the broken one are dropped, and the run succeeds. `TracedMeansProcessed` excepts
  those, and asks for the commands of the tools before it.
* An exception while the output is written leaves a part of an archive in the place of the
  earlier one (`build-processor.cpp:272-502`). The run then returns an error: `ErrorKeepsArchive`.

## 5. Proofs

TLAPS checks every proof to its last leaf. The theorems hold for every value of the
constants that satisfies the named assumption of the module; nine theorems have a hypothesis on the
input besides, described where they are. The assumptions state what
the code makes sure of, and no more:

* `ParseAssumption`: an element has a form and an argument that fit together; the options are those of
  a profile that validation has accepted: no empty alias, no empty prefix, a type the code knows.
* `BearAssumption`, `ExecAssumption`: types; at least one part of a message, one exit
  status, one level of calls. A single environment is a sequence of entries, of any length.
* `WorkItemsAssumption`: there is a thread; an item is what `parse_work_item` returns, with
  full paths (`get_full_path_str`, `utils/path.cpp:21`), so that none has the empty directory
  the model uses for the made-up `test_ld`. `OutputAssumption`: the link option is a flag.
* `WinAssumption`: every process but the root has a parent; a command line and what a response
  file holds are sequences of arguments, of any length; 0 is one of the exit statuses. `ProfileAssumption`: a profile names tools and origins that the
  binaries of xcalbuild know (validation refuses others). `PipelineAssumption`: the items of a
  trace have binaries and called names, an earlier run's as well. `FileNameAssumption`: a name without an extension is
  its own stem, and stem and extension make the name.

### The tracer (`BearTracerProofs`)

`Invariance` proves `Spec => []IInv`. The safety properties are not inductive by
themselves. `NothingDropped`, for instance, is broken by a step that takes a
message from the backlog unless one knows where the server may be when it holds a
connection, and that a call is in one place only. `IInv` adds:

* `Control`: the place of the server determines whether it holds a connection, a
  listening socket and the pipe; before `notify_child` no traced process exists.
* `Messages`: a call is in the backlog at most once, on the connection, or in the
  log, never in two of them; what is being read has been sent, and what is
  appended has been read in full.
* `Losses`: the loss bound from the moment the socket is closed.

Each part has a lemma `Next...`, with one step per action that can disturb it and
a frame lemma for the others. `CloseBoundsLosses` is the heart of `LossBound`:
at the close every missing call is an element of the backlog, whose length is at
most `Backlog + 1`, and a sequence has no more elements than places
(`ElementLemmas!ElementsBound`, from the library's fact about surjections).
From `IInv` follow `TypeCorrect`, `NoneDropped`, `RecordsAreWhole`,
`LossesAreBounded`, `NobodyRefused`. `Implementation` proves the refinement:
`StepAbstract` maps `AppendOutput` of an interesting call to `Record`, the last
`WritePart` to `Issue`, `Exit` and `Finish` to `End`, everything else to a stutter.

Three properties have a hypothesis or an invariant of their own on top of `IInv`:

* `StatusIsReported`, without job control (`~Stops`; finding 2 is what happens with it).
  `EndSeen`: SIGCHLD is pending or handled only when the root is over, and the status is
  that of the root exactly from the step that reaps it, so a signal handled late or twice
  changes nothing.
* `OutputIsKept`, for a `QuietBuild`: no process is detached or killed, nothing stops the
  root, the set-up succeeds. These are the values of `tracer_quiet`; TLC has a
  counterexample without any one of them. The whole of `Quiet` is needed: the output is lost when the
  `read` of the server is broken off, so no signal may find the server in it with a message
  that is not complete. SIGINT does not come, and SIGCHLD comes after the end of the root, which
  waits for its processes, each of which has then told all of its call.
* `OrderIsKept` has no hypothesis and is a property of two states. For one pair of calls it
  is carried by `Ahead`: from the state in which `c` is told and `d` has not connected, either `c` is
  recorded, or the server is over without `d`, or `c` is before `d` in every place where `d` can be.
  That `c` is then connected at all, and not only told, is what `Messages` says.

### The interposed library (`ExecReportingProofs`)

`IInv` is `TypeOK`, `Stacks` (the calls of a process are a sequence), `FlagInv` and
`MissedOnlyAfterSpawn`. `FlagInv` is the reason why `FlagMeansCalling` is kept:
only the outermost wrapper of a process found the flag clear, so only it tells
and only its failure clears it; all inner ones saved the set flag
(`report_state`) and leave it. `Pushed` and `Popped` describe the two operations
on the stack of calls, `CallKeeps` and `FailKeeps` the invariant of one process
through them, and `OneProcess` that a step of one process leaves the others
alone. From the invariant follow `FlagIsRight`, `ToldOnce` and `OnlySpawnHides`.

`TracedStays` is about what `bear_env_insert` computes, for environments of any length. Its
loop is the recursive function in `Without`. `WithoutSteps` finds its value place by place
and `WithoutKeeps` shows by induction that it keeps exactly the entries of other keys, and
none twice that came once. `Inserted` adds the front of the list: the
entry that moves there is not looked at, so what is guaranteed is less than "the key is there once", and
it is only guaranteed for a key that came at most once. That is the condition
`repeated` of `StaysTraced`, and the reason why it is there. `InsertingTraces`
puts two insertions together. The inductive invariant is `EnvsInv`: a
wrapper which inserts nothing (`execvp`, `execlp`) was called with the environment of its own process.

The library states induction with an operator as parameter, which the provers cannot
instantiate. `ElementLemmas` states it for sets (`SetInduction`, from the least element of the rest)
and has `RecursionExists`: for a set of values, a first value and a step function there is
the function they define. Both are proved, from the library's facts about numbers.

### The build processor (`WorkItemsProofs`, `BuildProcessorProofs`)

`BuildInvariantHolds` proves the `BuildInv` of `BuildProcessorInvariant`, which TLC checks in
`build_every`, for any database, number of threads, failing or vanishing files. Its first part, `IInv`,
is inductive by itself (`InvariantHolds`) and says how far everything is:

* `ListTypes` types the lists without naming the type of their elements.
* `ItemsInv`: how far each item can be (`ItemSteps`); where a compile result comes from
  (`UnitsMade`); that the made-up targets of a command are remembered until its pseudo
  link is made (`TargetsKept`); that output generation starts when all items are over
  (`PhasesApart`); and who will remove each temporary file (`TempsOwned`): the running
  preprocessor, or the part of the results that is not copied yet.
* `LinksInv`: one link info per link result, in their order (`InfosNumbered`); the map of
  link targets and the infos say the same (`InfosRight`); a directory is a counted name, or one with a
  number its count has passed (`DirsCounted`), from which `ArchivePathsDistinct` is kept.
* `CompilesInv`: for a compile result that is `Handled`, every link info that consumes it has its file,
  does not list it as a dependency, and has scan options from the first one of its language.
* `PropertiesInv`: a property file agrees with its link info.

The steps fall into three kinds, and so do the proofs: a step of an item changes the lists and no
output; a step of the output changes no item; a step of `process` changes the phase. Each part of
the invariant has its lemma per kind (`Item...`, `Output...`, `Control...`), and each action is first
reduced to what it does to the lists (`AddMoves`, `CopyMoves`, `CompileMoves`).
From `IInv` follow `SourcesAreBridged`, `PathsAreDistinct`, `NoFileIsLeft`, `UnitsAreArchived`,
`PropertiesAreRight`, `TypesHold`. `ListsAreImplemented` is the refinement to `ResultLists`:
a result added is `Deliver`, a source left out `Skip`, an item that is over `Close`,
the join of the threads `Barrier`.

The other two parts of `BuildInv` say where everything comes from:

* `ResultsInv`, about the lists. Each result is that of a command of the database (`UnitsOrigin`,
  `AsOrigin`, `LinksOrigin`), and two link results are those of two commands; what is bridged is a
  made-up target of that command (`MadeUpKept`). None is missing: of an item that is over and lost no
  source, every result is there (`UnitsComplete`, `AsComplete`, `LinksComplete`).
* `ContentsInv`, about the output. A file of the archive is that of a unit which the link of its
  directory consumes (`CopiesOrigin`); an object the build does not compile stays a dependency
  (`DependenciesKept`); the directory of a link target with a path of its own is in the map of names
  until the first property file that lists it (`NamesKept`), which then has it (`NamesListed`).

From `BuildInv` follow the two properties about what the archive holds in the end. They are false of some
databases, so each has hypotheses on the database, named in `BuildProcessor` and as weak as the
code lets them be. TLC evaluates them for the six databases of `build_every` (`DatabaseAssumption`).

* `OrderDoesNotMatter` (`ScheduleIndependent`): with `FreshPaths` and `AssembledOnce`. `FreshPaths`: the
  build uses none of the paths and numbered names that xcalbuild makes up for commands with
  several sources; the code would take one for the other. `AssembledOnce`: no object is assembled of two
  sources. Of two such results the later counts, and which one is later depends on the threads.
* `LibrariesAreFound` (`LibrariesFound`): with `FreshPaths`, `MadeOnce` (no two commands make one file; the
  name of the later one would replace the other), `LinkedOnce` (what one command links, one other
  command uses; the second user finds the name moved away, which is the finding of `build_shared`) and
  `ObjectsBeside` (an object named as the target lies beside it: `TargetPath` takes the directory of
  the first such object for that of the target, `build-processor.cpp:321-334`).

Two chains of lemmas carry them. `BridgedExpected` and `LinkedExpected` connect a unit with the commands
that ask for it, through made-up targets or assembler results, in both directions. `UsedByOne` shows
that a library is a source of one link result only, which is then the first property file to list it.

### The Windows tracer, the prober and the run (`WinTracerProofs`, `PipelineProofs`)

`InvariantHolds` proves the `IInv` of `PipelineInvariant`, which the run `pipeline` checks, for
any processes, profiles and databases.

* `WinInv` is about the debug loop. `EventsMatch`: a process has at most one event that is
  not continued, and stands still in the state that event is about. `LogMatches`:
  a process is logged while its first event is handled, hence before it runs
  (`RanIsLogged`). `RootSeen`: only the root's end leaves the loop, and only it
  makes the status 0. `ParentsWait`: the parent of an awaited process stands still with it, and is
  ended with it (`OnlyDetachedAreKilled`). `DebuggeesOwned` bounds all this to the time the tracer runs.
* `ArgsInv` is about what is logged of a command (`RanIsRecorded`). Its hypothesis is a build
  whose compilers have their response files to themselves, `OwnResponseFiles`: a file that
  another command overwrites or removes, or that nobody writes, cannot be read, and the code then leaves
  its arguments out. TLC evaluates it for the build of `pipeline` (`BuildAssumption`). `FilesThere`: the
  file of a process that stands still for its first event has not been removed. `UnfoldSteps` finds the value
  of the recursive function in `Unfold` place by place from the end of the line, two places at a
  time since an option may take the next argument; `UnfoldMeans` shows by induction
  that it is what the line means up to the option that ends the loop.
* `ProberInv` is about the prober. `ToolsMet`: the tools probed are those of the commands so far,
  and the languages still pending have no answer yet. `AnsweredOnce`: an option list is empty or
  the one answer of the tool's first binary. `OptionsFromJson` and `ProberPhases` carry this
  to the options that work items see (`OptionsAreOfFirstBinary`).
* `RunInv` is about the files. `TracerPhases` and `TraceWritten`: a database of this run holds what its tracer
  logged; `RunFiles`: what is processed was loaded, after a build that passed (`OwnTraceProcessed`,
  `WholeTraceProcessed`); `TempsPhased`: each temporary file has a phase to be removed in (`TempFilesAreRemoved`).
* `ToolsInv` is about the profiles (`TracedIsProcessed`). `ProfileLoaded`: the profile of the command
  line is the one traced for. `TracedWanted`: what a tracer logs has the name of
  a binary of it, its stem or its whole name, unless it is called otherwise.
  `ToolsChosen`: the commands are processed with it, or with the detected one if it is an automatic profile.
  `OriginOfAll` counts: an origin counted as often as there are commands is named by each, if no command names
  it twice. Hence the hypothesis `OriginsCover`, on the automatic profiles: an origin is named
  once, and the toolchain it names has the aliases of the tool, or the command would be dropped from the result.
  `NamesBinaries`: a profile with tools is for some binary; without one the default Unix tracer would look for
  compilers of its own choice. All profiles in the repository satisfy both, and TLC evaluates them for
  those of `pipeline` (`OriginsAssumption`).

`WinTracerProofs` proves `WinInv` of the steps of the tracer and its build, with nothing of the run.
`PipelineProofs` adds the prober and `main`. `ErrorKeepsEarlierArchive` is an action property,
from the only two steps that touch the result and what the last of them leaves on each way out; `WinTracerImplementsTraceLog` the refinement to `TraceLog`,
in whole runs: a first event reported is `Issue`, its handling `Record`, the end `End`.

### The parser (`ParseWorkItemProofs`)

`NoSourceLost` has no hypothesis on the profile or the line. Its invariant `WordInv` is about the words:
every word before the iterator that looks like a source is in the list of sources, or behind
an option that takes the next word (`SourcesAccounted`), and the iterator is behind what has been
parsed (`Progress`). `MatchTakes` is what an option can do to the iterator.

`ParsedMeans` says that the parser understands a line. The words do not show where an element
begins, so the invariant, `MeaningInv`, has the elements in it: between any two steps of the parser there is a
number `j` such that the iterator stands before the first word of element `j + 1`, and sources, kept
options, target and language are those the first `j` elements mean (`Simulates`). Each action then moves
from `j` to `j + 1`: `FirstMatcher` finds that the option the loop takes is the one meant (`OptionOf`), or
none if the profile knows none, and `SourcesNext`, `OptionsNext`, `TargetNext`, `LanguageNext` what one more element adds to the
meaning. The unfolding is apart: the first word at which the response option matches is the first word
of the first response element, and putting the words of the file there is putting its elements there
(`UnfoldMeans`).

The meaning is defined with concatenations of sequences of sequences, with the members of a set of places in
their order, and with least and greatest places. There is a lemma for what each of them is for a longer
sequence or a bigger set (`Flatten...`, `Words...`, `InOrder...`, `MinIs`, `MaxIs`), by
`RecursionExists` where the library's operator is a recursive function.

The hypotheses are about the profile, and named in `ParseWorkItem`. TLC evaluates them for that of the
run (`GccAssumption`).

* `Sound`: where two options share an alias the first is no obstacle to the second (`Orderly`); there is one response
  option at most, with an alias of its own (`OneResponseOption`); a command is not ignored from the
  start; an empty word is no file. Without `Orderly` an option can hide another, without
  the second part a response file may be unfolded by one option and parsed as another. All profiles in the
  repository satisfy it but that of `ar`, which has the empty extension among those of its targets, so that an empty word
  can be its target.
* `OutputStands`, for `OneOutputOnly`: there is an output option with an argument, and no option of another
  type and nothing that is added uses its aliases. All profiles satisfy it but that of `ar`, which has no
  output option and whose commands are never preprocessed.

### Only model-checked

Liveness, out of the prover's reach: `EndsOrHangs`, `ClientUnblocked`, `Returns`, `RunEnds`,
`FaultsArePassedOn`.

## 6. Not modelled, and why

* The text of the JSON output and its escaping, log messages, checksums, the
  archive format, text substitution, conversion of paths: conversions without control.
* Several threads in a process of `ExecReporting`. They share `already_reported` without
  synchronisation, but a process that spawns has lost it with its first posix_spawn
  (finding 3), and what calls exec is in practice the only thread of a forked child.
  Response files, which change the message and not its sending.
* Prebuild and the macOS branch of the tracer drivers, the usage text of the command
  line. A profile entry of the wrong JSON type (`aliases`, `origin`) makes the code
  throw; the profiles of `ToolchainProfiles` fail validation instead.
* In `WinTracer`: how the memory of a process is read, beyond that it may fail.
* In `BuildProcessor`, detection and probing are one step that ends the run or goes on (`PrepareProfile`);
  what they do is in `Pipeline` (`DetectProfile`, `Probe`) and `Prober`, where in turn `Work` and `Generate` stand
  for the parallel phase and the output. The text
  of the filter files is left out: a filtered item is an input.
* An exception inside a task of the pool ends the program (`Work` of `Pipeline`), not
  one thread of it: taskflow has no handler around a task.
* In `ParseWorkItem`: aliases that are prefixes of each other, `optionPrefix`
  left out of a profile, the pre-filled scan options.
* The profile tester, a test runner for profiles around the parser that `ParseWorkItem` models.

Seen in the parts that are left out, for whoever models them: `read_resp_file` never closes
its descriptor (`execs.c:357`); white and black lists look at the first source of
a command (`work-item-processor.cpp:306`); an exception while a result is copied is
caught there and skips the removal of its temporary file (`build-processor.cpp:460`), which in `CopyCompiled`
always succeeds.

## 7. Plan

What is left: response files in `ExecReporting`, with the descriptors they use up.
