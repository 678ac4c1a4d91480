----------------------------- MODULE WinTracer ------------------------------
(***************************************************************************)
(* The Windows tracer (windows/win-tracer.cpp): it starts the build as a   *)
(* debuggee and records every process of it from its debug event, in the   *)
(* order the system queues them.  The reporting process stands still until *)
(* the tracer continues it; its parent and its siblings do not.            *)
(*                                                                         *)
(* A process is a model value; its command line is a sequence of           *)
(* arguments, each with the form CompilerConfig makes out for it.  The     *)
(* processes, and when they end, fault or remove a response file, are the  *)
(* traced build; debugging is modelled as the Windows API documents it.    *)
(***************************************************************************)
EXTENDS Integers, Sequences, FiniteSets, Functions, FileNames

CONSTANTS
  Processes,      \* the processes of the build
  Root,           \* the one the tracer creates
  Parent,         \* who creates each of the others
  Awaited,        \* the processes whose parent waits for their end
  Executable,     \* the binary of each one: [dir, name]
  Arguments,      \* its command line: a sequence of [form, text]
  ResponseFile,   \* the file its parent writes for it, removed after its end
  NoFile,         \* the parent writes none
  Content,        \* the arguments a response file holds
  Protected,      \* processes OpenProcess may refuse to open
  Unreadable,     \* processes whose parameter block cannot be read
  Raises,         \* the exception of each process that raises one
  WaitMayFail,    \* TRUE: WaitForDebugEvent may fail
  ExitStatuses    \* exit statuses of the root

Forms == {"plain", "attached", "space", "equal"}

ASSUME WinAssumption ==
  /\ Root \in Processes
  /\ Parent \in [Processes \ {Root} -> Processes]
  /\ Awaited \subseteq Processes \ {Root}
  /\ Protected \subseteq Processes /\ Unreadable \subseteq Processes
  /\ DOMAIN Raises \subseteq Processes /\ DOMAIN ResponseFile = Processes
  /\ Range(Raises) \subseteq {"EXCEPTION_BREAKPOINT", "EXCEPTION_ACCESS_VIOLATION"}
  /\ \A p \in Processes :
       /\ Arguments[p] \in Seq(Range(Arguments[p]))
       /\ \A i \in DOMAIN Arguments[p] : Arguments[p][i].form \in Forms
  /\ \A file \in DOMAIN Content : Content[file] \in Seq(Range(Content[file]))
  /\ WaitMayFail \in BOOLEAN
  /\ 0 \in ExitStatuses /\ ExitStatuses \subseteq Nat

VARIABLES
  proc,            \* where each process is
  raised,          \* the processes that have raised their exception
  files,           \* the response files there are
  queue,           \* debug events not yet waited for
  lpc,             \* where the tracer is: "off" until it is started
  event,           \* the debug event being handled
  continue_status, \* what ContinueDebugEvent will say of it
  process_running, \* the loop condition
  root_process_exit_status,
  compilers,       \* the binaries of the configuration file
  array,           \* the processes logged: a sequence of [process, arguments]
  out_file         \* the compile database: who wrote it, the binaries of its commands

buildVars  == <<proc, raised, files, queue>>
loopVars   == <<event, continue_status, process_running, root_process_exit_status, array>>
winVars    == <<buildVars, lpc, loopVars, compilers, out_file>>

EXIT_FAILURE == 1

\* _splitpath_s leaves the extension off.
Binary(p) == Stem[Executable[p].name]

NoEvent == [kind |-> "none", process |-> Root]

Absent   == {"none", "stillborn"}
Over     == {"gone", "killed", "held", "stillborn"}
Ran(p)   == proc[p] \in {"running", "faulting", "ending", "gone", "killed"}
Logged   == {array[i].process : i \in DOMAIN array}

WinInit ==
  /\ proc = [p \in Processes |-> "none"] /\ raised = {} /\ files = {} /\ queue = <<>>
  /\ lpc = "off" /\ event = NoEvent /\ continue_status = "DBG_CONTINUE"
  /\ process_running = TRUE /\ root_process_exit_status = EXIT_FAILURE
  /\ compilers = {} /\ array = <<>>

-----------------------------------------------------------------------------
(* The traced build.                                                       *)

\* A parent that waits does nothing else before its child is over.
Waits(p) == \E q \in Awaited : Parent[q] = p /\ proc[q] \notin Absent \cup Over

Runs(p) == proc[p] = "running" /\ ~Waits(p)

\* CreateProcess: the parent has written the child's response file before.
Spawn(p) ==
  /\ p # Root /\ proc[p] = "none" /\ Runs(Parent[p])
  /\ proc' = [proc EXCEPT ![p] = "created"]
  /\ files' = files \cup ({ResponseFile[p]} \ {NoFile})
  /\ UNCHANGED <<raised, queue, lpc, loopVars, compilers, out_file>>

\* The first thread of a new process reports it and is held.
Report(p) ==
  /\ proc[p] = "created"
  /\ proc' = [proc EXCEPT ![p] = "reported"]
  /\ queue' = Append(queue, [kind |-> "CREATE", process |-> p])
  /\ UNCHANGED <<raised, files, lpc, loopVars, compilers, out_file>>

\* The parent removes the response file of a child it has waited for.
RemoveFile(p) ==
  /\ p \in Awaited /\ proc[p] = "gone" /\ ResponseFile[p] \in files
  /\ Runs(Parent[p])
  /\ files' = files \ {ResponseFile[p]}
  /\ UNCHANGED <<proc, raised, queue, lpc, loopVars, compilers, out_file>>

Fault(p) ==
  /\ p \in DOMAIN Raises \ raised /\ Runs(p)
  /\ raised' = raised \cup {p}
  /\ proc' = [proc EXCEPT ![p] = "faulting"]
  /\ queue' = Append(queue, [kind |-> "EXCEPTION", process |-> p])
  /\ UNCHANGED <<files, lpc, loopVars, compilers, out_file>>

End(p, status) ==
  /\ Runs(p)
  /\ proc' = [proc EXCEPT ![p] = "ending"]
  /\ queue' = Append(queue, [kind |-> "EXIT", process |-> p, status |-> status])
  /\ UNCHANGED <<raised, files, lpc, loopVars, compilers, out_file>>

Build ==
  \E p \in Processes :
    \/ Spawn(p) \/ Report(p) \/ RemoveFile(p) \/ Fault(p)
    \/ \E status \in IF p = Root THEN ExitStatuses ELSE {0} : End(p, status)

-----------------------------------------------------------------------------
(* The tracer.                                                             *)

\* The end of the debugger ends every process it still debugs.
KillRest ==
  proc' = [p \in Processes |->
             CASE proc[p] = "created"  -> "stillborn"
               [] proc[p] = "reported" -> "held"
               [] proc[p] \in {"running", "faulting", "ending"} -> "killed"
               [] OTHER -> proc[p]]

\* CreateProcessW and ResumeThread; without a process nothing is written.
CreateRoot ==
  /\ lpc = "create"
  /\ \/ proc' = [proc EXCEPT ![Root] = "created"] /\ lpc' = "wait"
     \/ lpc' = "done" /\ UNCHANGED proc
  /\ UNCHANGED <<raised, files, queue, loopVars, compilers, out_file>>

\* Mutant of WaitForDebugEvent: a new process runs on as soon as it is seen.
WaitAndContinue ==
  /\ lpc = "wait" /\ queue # <<>>
  /\ event' = Head(queue) /\ queue' = Tail(queue)
  /\ continue_status' = "DBG_CONTINUE"
  /\ proc' = IF event'.kind = "CREATE" THEN [proc EXCEPT ![event'.process] = "running"] ELSE proc
  /\ lpc' = "handle"
  /\ UNCHANGED <<raised, files, process_running, root_process_exit_status,
                 array, compilers, out_file>>

WaitForDebugEvent ==
  /\ lpc = "wait" /\ queue # <<>>
  /\ event' = Head(queue) /\ queue' = Tail(queue)
  /\ continue_status' = "DBG_CONTINUE"
  /\ lpc' = "handle"
  /\ UNCHANGED <<proc, raised, files, process_running, root_process_exit_status,
                 array, compilers, out_file>>

WaitFails ==
  /\ lpc = "wait" /\ WaitMayFail
  /\ lpc' = "write"
  /\ UNCHANGED <<buildVars, loopVars, compilers, out_file>>

\* args_from_response_file: what the file holds, or NULL if it cannot be read.
ArgsFromResponseFile(path) ==
  IF path \in files /\ path \in DOMAIN Content THEN Content[path] ELSE <<>>

\* CompilerConfig::is_response_file_arg knows the options of its binaries only.
Argv(p) ==
  IF Binary(p) \in compilers THEN Arguments[p]
  ELSE [i \in DOMAIN Arguments[p] |-> [Arguments[p][i] EXCEPT !.form = "plain"]]

\* The loop of log_create_process over argv: a response file gives its
\* arguments in its place, and an option that names none ends the loop.
Unfold(p) ==
  LET args == Argv(p)
      from[i \in 1 .. Len(args) + 2] ==
        IF i > Len(args) THEN <<>>
        ELSE CASE args[i].form = "plain" -> <<args[i].text>> \o from[i + 1]
               [] args[i].form = "attached" ->
                    ArgsFromResponseFile(args[i].text) \o from[i + 1]
               [] args[i].form = "space" /\ i < Len(args) ->
                    ArgsFromResponseFile(args[i + 1].text) \o from[i + 2]
               [] OTHER -> <<>>
  IN from[1]

\* CompilerConfig::is_interesting_binary: without binaries, everything is.
IsInterestingBinary(name) == compilers = {} \/ name \in compilers

LogCreateProcess(p) == p \notin Unreadable /\ IsInterestingBinary(Binary(p))

\* Mutant of HandleCreate: the newest process comes first.
HandleCreateFirst ==
  /\ lpc = "handle" /\ event.kind = "CREATE"
  /\ array' = IF LogCreateProcess(event.process)
              THEN <<[process |-> event.process,
                      arguments |-> Unfold(event.process)]>> \o array
              ELSE array
  /\ lpc' = "continue"
  /\ UNCHANGED <<buildVars, event, continue_status, process_running,
                 root_process_exit_status, compilers, out_file>>

HandleCreate ==
  /\ lpc = "handle" /\ event.kind = "CREATE"
  /\ array' = IF LogCreateProcess(event.process)
              THEN Append(array, [process |-> event.process,
                                  arguments |-> Unfold(event.process)])
              ELSE array
  /\ lpc' = "continue"
  /\ UNCHANGED <<buildVars, event, continue_status, process_running,
                 root_process_exit_status, compilers, out_file>>

\* OpenProcess returns NULL: out of the loop, the event is not continued.
OpenFails ==
  /\ lpc = "handle" /\ event.kind = "CREATE" /\ event.process \in Protected
  /\ lpc' = "write"
  /\ UNCHANGED <<buildVars, loopVars, compilers, out_file>>

\* Mutant of HandleExit: the end of any process ends the loop.
HandleExitOfAny ==
  /\ lpc = "handle" /\ event.kind = "EXIT"
  /\ process_running' = FALSE /\ root_process_exit_status' = event.status
  /\ lpc' = "continue"
  /\ UNCHANGED <<buildVars, event, continue_status, array, compilers, out_file>>

\* Mutant of HandleExit: the loop waits for every process it has seen.
HandleExitOfLast ==
  /\ lpc = "handle" /\ event.kind = "EXIT"
  /\ process_running' = (\E p \in Processes \ {event.process} : proc[p] \notin Absent \cup Over)
  /\ IF event.process = Root THEN root_process_exit_status' = event.status
     ELSE UNCHANGED root_process_exit_status
  /\ lpc' = "continue"
  /\ UNCHANGED <<buildVars, event, continue_status, array, compilers, out_file>>

HandleExit ==
  /\ lpc = "handle" /\ event.kind = "EXIT"
  /\ IF event.process = Root
     THEN process_running' = FALSE /\ root_process_exit_status' = event.status
     ELSE UNCHANGED <<process_running, root_process_exit_status>>
  /\ lpc' = "continue"
  /\ UNCHANGED <<buildVars, event, continue_status, array, compilers, out_file>>

\* Mutant of HandleException: every exception is taken for handled.
HandleExceptionItself ==
  /\ lpc = "handle" /\ event.kind = "EXCEPTION"
  /\ lpc' = "continue"
  /\ UNCHANGED <<buildVars, loopVars, compilers, out_file>>

HandleException ==
  /\ lpc = "handle" /\ event.kind = "EXCEPTION"
  /\ continue_status' = IF Raises[event.process] = "EXCEPTION_BREAKPOINT"
                        THEN "DBG_CONTINUE" ELSE "DBG_EXCEPTION_NOT_HANDLED"
  /\ lpc' = "continue"
  /\ UNCHANGED <<buildVars, event, process_running, root_process_exit_status,
                 array, compilers, out_file>>

\* What the system does with the process of a continued exception: one the
\* debugger passed on reaches the handler of the process or ends it; one it
\* swallowed runs the same instruction again, which only a breakpoint gets over.
ContinueException(p) ==
  IF continue_status = "DBG_CONTINUE"
  THEN IF Raises[p] = "EXCEPTION_BREAKPOINT"
       THEN proc' = [proc EXCEPT ![p] = "running"] /\ UNCHANGED queue
       ELSE queue' = Append(queue, event) /\ UNCHANGED proc
  ELSE \/ proc' = [proc EXCEPT ![p] = "running"] /\ UNCHANGED queue
       \/ /\ proc' = [proc EXCEPT ![p] = "ending"]
          /\ queue' = Append(queue, [kind |-> "EXIT", process |-> p, status |-> EXIT_FAILURE])

ContinueDebugEvent ==
  /\ lpc = "continue"
  /\ LET p == event.process IN
     CASE event.kind = "CREATE" -> proc' = [proc EXCEPT ![p] = "running"] /\ UNCHANGED queue
       [] event.kind = "EXIT"   -> proc' = [proc EXCEPT ![p] = "gone"] /\ UNCHANGED queue
       [] OTHER                 -> ContinueException(p)
  /\ lpc' = IF process_running THEN "wait" ELSE "write"
  /\ UNCHANGED <<raised, files, loopVars, compilers, out_file>>

\* The array is written, unless the file cannot be opened, which nobody asks;
\* with the tracer end the processes it debugs.
WriteOutput ==
  /\ lpc = "write" /\ lpc' = "done"
  /\ KillRest /\ queue' = <<>>
  /\ \/ out_file' = [by |-> "this", items |-> [i \in DOMAIN array |-> Executable[array[i].process]]]
     \/ UNCHANGED out_file
  /\ UNCHANGED <<raised, files, loopVars, compilers>>

\* An exception that nothing in win-tracer catches ends it, and what it debugs,
\* with a status of its own.
Dies ==
  /\ lpc' = "done" /\ root_process_exit_status' = EXIT_FAILURE
  /\ KillRest /\ queue' = <<>>
  /\ UNCHANGED <<raised, files, event, continue_status, process_running, array, compilers>>

\* An argument that weakly_canonical cannot deal with.
LogThrows ==
  /\ lpc = "handle" /\ event.kind = "CREATE"
  /\ LogCreateProcess(event.process) /\ Arguments[event.process] # <<>>
  /\ Dies /\ UNCHANGED out_file

\* An argument that is no UTF-8 afterwards: the dump throws, the file is open.
DumpThrows ==
  /\ lpc = "write" /\ array # <<>>
  /\ Dies /\ out_file' \in {out_file, [by |-> "broken", items |-> <<>>]}

Works ==
  \/ CreateRoot \/ WaitForDebugEvent
  \/ HandleCreate \/ OpenFails \/ HandleExit \/ HandleException
  \/ ContinueDebugEvent \/ WriteOutput

Tracer == Works \/ WaitFails \/ LogThrows \/ DumpThrows

WinNext == Tracer \/ Build

-----------------------------------------------------------------------------
(* Properties.                                                             *)

RanMeansLogged ==
  \A p \in Processes :
    Ran(p) /\ p \notin Unreadable /\ IsInterestingBinary(Binary(p)) => p \in Logged

\* What an entry is to hold: the arguments up to an option that names no file,
\* each response file replaced by what it holds.
IsOperand(args, k) == k > 1 /\ args[k - 1].form = "space"

Reached(args) == {k \in DOMAIN args : \A j \in 1 .. k : args[j].form # "equal"}

Meant(args) ==
  UNION {IF args[k].form = "plain" /\ ~IsOperand(args, k) THEN {args[k].text}
         ELSE IF args[k].form = "attached" \/ IsOperand(args, k)
         THEN Range(Content[args[k].text]) ELSE {} : k \in Reached(args)}

ArgumentsKept ==
  \A i \in DOMAIN array :
    LET p == array[i].process IN
    Binary(p) \in compilers => Range(array[i].arguments) = Meant(Arguments[p])

\* A build whose compilers have their response files to themselves: a file name follows
\* its option, and whoever starts a command writes the file that it names, for it alone.
OwnResponseFiles ==
  \A p \in Processes :
    /\ \A k \in DOMAIN Arguments[p] :
         IsOperand(Arguments[p], k) => Arguments[p][k].form = "plain"
    /\ \A k \in Reached(Arguments[p]) :
         Arguments[p][k].form = "attached" \/ IsOperand(Arguments[p], k) =>
           /\ p # Root /\ ResponseFile[p] \in DOMAIN Content \ {NoFile}
           /\ Arguments[p][k].text = ResponseFile[p]
    /\ ResponseFile[p] # NoFile => \A q \in Processes \ {p} : ResponseFile[q] # ResponseFile[p]

\* Nothing that ran a single instruction of its own is missing from the array if
\* it is a compiler that could be inspected, nor any of its arguments, those of a
\* response file that lives no longer than the command included: a process is
\* logged before it is continued, however short it lives.
\* (win-tracer.cpp:509 before 534)
RanMeansRecorded == RanMeansLogged /\ ArgumentsKept

\* The tracer sees the build to its end: when its loop was not broken off, the
\* processes its end kills are those nobody waited for, and their children.
\* (win-tracer.cpp:517, the loop condition is the root's end, not any other's)
Cut == {"killed", "held", "stillborn"}

OnlyDetachedKilled ==
  lpc = "done" /\ ~process_running =>
    \A p \in Processes :
      proc[p] \in Cut => p # Root /\ (p \in Awaited => proc[Parent[p]] \in Cut)

\* The tracer never keeps a process from handling, or dying of, its exception.
\* (win-tracer.cpp:528, "Avoids infinite loops of exceptions being thrown")
FaultsArePassedOn ==
  \A p \in Processes : proc[p] = "faulting" ~> proc[p] # "faulting"

\* The Windows tracer keeps the promise of the Unix one: each process at most
\* once, only after it reported itself, in one growing log that ends once.
WinLog == INSTANCE TraceLog WITH
  Calls <- Processes, Recordable <- Processes,
  issued <- {p \in Processes : proc[p] \notin {"none", "created", "stillborn"}},
  log    <- [i \in DOMAIN array |-> array[i].process],
  status <- IF lpc # "done" THEN "recording"
            ELSE IF out_file.by = "this" THEN "complete" ELSE "broken"

WinImplementsTraceLog == WinLog!Spec

WinTypeOK ==
  /\ proc \in [Processes -> {"none", "created", "reported", "running", "faulting",
                             "ending", "gone", "killed", "held", "stillborn"}]
  /\ raised \subseteq DOMAIN Raises
  /\ files \subseteq Range(ResponseFile) \ {NoFile}
  /\ lpc \in {"off", "create", "wait", "handle", "continue", "write", "done"}
  /\ continue_status \in {"DBG_CONTINUE", "DBG_EXCEPTION_NOT_HANDLED"}
  /\ process_running \in BOOLEAN
  /\ root_process_exit_status \in ExitStatuses \cup {EXIT_FAILURE}
  /\ \A i \in DOMAIN queue : queue[i].kind \in {"CREATE", "EXCEPTION", "EXIT"}
  /\ IsInjective([i \in DOMAIN array |-> array[i].process])

=============================================================================
