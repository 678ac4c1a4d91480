----------------------------- MODULE BearTracer -----------------------------
(***************************************************************************)
(* The dynamic tracer: the unix-tracer server (linux/bear/src/main.c,      *)
(* protocol.c, output.c), the root process of the traced build that it     *)
(* forks, and the traced processes, each of which announces one exec call  *)
(* over the unix socket before it performs it (execs.c, protocol.c).       *)
(*                                                                         *)
(* Data is abstracted: a call is a model value, its message is a number of *)
(* Parts that are written and read one by one, the JSON file is the        *)
(* sequence of the calls it records.  Control is kept: the signal mask,    *)
(* the two handlers, the system calls they interrupt, the listen backlog.  *)
(***************************************************************************)
EXTENDS Integers, Sequences, FiniteSets, Functions

CONSTANTS
  Calls,          \* the exec calls of the traced build
  Known,          \* the calls of a compiler named by -c
  Debug,          \* -d: record every call
  Detached,       \* the calls made by processes the build root does not wait for
  Killable,       \* the calls whose process may die at any point (crash, OOM)
  NoCall,         \* no connection is being read
  Parts,          \* pieces a message is written and read in
  Backlog,        \* the backlog argument of listen()
  Statuses,       \* exit statuses of the build root
  MaxInterrupts,  \* bound on the number of SIGINTs of a run
  Stops,          \* TRUE: job control may stop and continue the build root
  SetupFails      \* TRUE: a system call of the set-up may fail

ASSUME BearAssumption ==
  /\ Known \subseteq Calls
  /\ Detached \subseteq Calls
  /\ Killable \subseteq Calls
  /\ NoCall \notin Calls
  /\ Parts \in Nat \ {0}
  /\ Backlog \in Nat
  /\ Statuses \subseteq 0 .. 255
  /\ Statuses # {}
  /\ MaxInterrupts \in Nat
  /\ Debug \in BOOLEAN /\ Stops \in BOOLEAN /\ SetupFails \in BOOLEAN

VARIABLES
  spc,          \* where the server is
  masked,       \* all signals are blocked in the server
  pending,      \* signals sent to the server and not yet delivered
  handling,     \* the server is in the SIGCHLD handler, before its waitpid
  child_pid,    \* the global the handler resets: 0 or non-zero (1)
  child_status, \* the global the server returns
  pipe,         \* the sync pipe: "open", "ready" or "closed"
  socket,       \* the listening socket: "none", "listening" or "closed"
  backlog,      \* connections made and not yet accepted
  conn,         \* the accepted connection
  got,          \* parts of its message read so far
  log,          \* the calls written to the output file
  file,         \* the output file: "none", "open" ("[") or "complete" ("]")
  root,         \* the build root process
  wstatus,      \* how it ended
  cpc,          \* where the traced process of a call is
  sent,         \* parts of a call's message written so far
  interrupts    \* SIGINTs so far

serverVars == <<spc, masked, child_pid, child_status, conn, got, log, file>>
signalVars == <<pending, handling, interrupts>>
rootVars   == <<root, wstatus>>
clientVars == <<cpc, sent>>
vars == <<serverVars, signalVars, pipe, socket, backlog, rootVars, clientVars>>

EXIT_FAILURE == 1
Signaled     == -1

\* The calls the output file is to hold: output.c, bear_append_json_output.
Recordable == IF Debug THEN Calls ELSE Known

\* Mutant of Capacity: listen with a larger backlog.
CapacityLarger == Backlog + 2

\* listen(s, Backlog) lets Backlog + 1 connections wait on Linux.
Capacity == Backlog + 1

Recorded    == Range(log)
Queued      == Range(backlog)
Connected   == Queued \cup {conn}
Interrupted == interrupts > 0
Terminated  == spc \in {"done", "failed"}

\* What WIFEXITED and WEXITSTATUS make of the status of the build root.
Decode(status) == IF status = Signaled THEN EXIT_FAILURE ELSE status

\* After the fork and mask_all_signals.  A signal between the two ends the tracer
\* as a failure in OpenOutput does, or is handled as one after Unblock is.
Init ==
  /\ spc = "open" /\ masked = TRUE
  /\ pending = {} /\ handling = FALSE /\ interrupts = 0
  /\ child_pid = 1 /\ child_status = EXIT_FAILURE
  /\ pipe = "open" /\ socket = "none" /\ backlog = <<>>
  /\ conn = NoCall /\ got = 0 /\ log = <<>> /\ file = "none"
  /\ root = "waiting" /\ wstatus = Signaled
  /\ cpc = [c \in Calls |-> "idle"] /\ sent = [c \in Calls |-> 0]

-----------------------------------------------------------------------------
(* The server.  A signal that is not blocked runs its handler before the   *)
(* server's next instruction, and only returns to it when it is over.      *)

CanRun == ~handling /\ (masked \/ pending = {})

ServerAt(pc) == spc = pc /\ CanRun

\* exit() of the server: the kernel closes its descriptors.
Exit ==
  /\ spc' = "failed"
  /\ pipe' = IF pipe = "open" THEN "closed" ELSE pipe
  /\ socket' = IF socket = "listening" THEN "closed" ELSE socket
  /\ backlog' = <<>>
  /\ conn' = NoCall /\ got' = 0

\* bear_open_json_output, and the unlink of a socket left by an earlier run.
OpenOutput ==
  /\ ServerAt("open")
  /\ \/ /\ file' = "open" /\ spc' = "bind"
        /\ UNCHANGED <<pipe, socket, backlog, conn, got>>
     \/ SetupFails /\ Exit /\ file' \in {"none", "open"}
  /\ UNCHANGED <<masked, child_pid, child_status, log, signalVars, rootVars, clientVars>>

\* bear_create_unix_socket: socket, bind and listen.
CreateSocket ==
  /\ ServerAt("bind")
  /\ \/ /\ socket' = "listening" /\ spc' = "unblock"
        /\ UNCHANGED <<pipe, backlog, conn, got>>
     \/ SetupFails /\ Exit
  /\ UNCHANGED <<masked, child_pid, child_status, log, file, signalVars, rootVars, clientVars>>

Unblock ==
  /\ ServerAt("unblock")
  /\ masked' = FALSE /\ spc' = "notify"
  /\ UNCHANGED <<child_pid, child_status, conn, got, log, file, signalVars,
                 pipe, socket, backlog, rootVars, clientVars>>

\* notify_child: a root that was killed has closed the pipe's only read end.
NotifyChild ==
  /\ ServerAt("notify")
  /\ \/ /\ root = "waiting" /\ pipe' = "ready" /\ spc' = "check"
        /\ UNCHANGED <<socket, backlog, conn, got>>
     \/ (SetupFails \/ root # "waiting") /\ Exit
  /\ UNCHANGED <<masked, child_pid, child_status, log, file, signalVars, rootVars, clientVars>>

\* The loop condition reads child_pid; accept is called only afterwards.
CheckChild ==
  /\ ServerAt("check")
  /\ spc' = IF child_pid = 0 THEN "leave" ELSE "call"
  /\ UNCHANGED <<masked, child_pid, child_status, conn, got, log, file, signalVars,
                 pipe, socket, backlog, rootVars, clientVars>>

\* Mutant of TakeConnection: the latest connection is served first.
TakeLatestConnection ==
  /\ conn' = backlog[Len(backlog)] /\ got' = 0
  /\ backlog' = SubSeq(backlog, 1, Len(backlog) - 1)
  /\ spc' = "read"

TakeConnection ==
  /\ conn' = Head(backlog) /\ backlog' = Tail(backlog) /\ got' = 0
  /\ spc' = "read"

\* accept returns a waiting connection at once, or sleeps.
CallAccept ==
  /\ ServerAt("call")
  /\ \/ backlog # <<>> /\ TakeConnection
     \/ /\ backlog = <<>> /\ spc' = "accept"
        /\ UNCHANGED <<conn, got, backlog>>
  /\ UNCHANGED <<masked, child_pid, child_status, log, file, signalVars,
                 pipe, socket, rootVars, clientVars>>

WakeAccept ==
  /\ ServerAt("accept")
  /\ backlog # <<>> /\ TakeConnection
  /\ UNCHANGED <<masked, child_pid, child_status, log, file, signalVars,
                 pipe, socket, rootVars, clientVars>>

\* Mutant of ReadPart: a short read ends the message (socket_read without loop).
ReadPartShort ==
  /\ ServerAt("read")
  /\ got < sent[conn]
  /\ got' = got + 1
  /\ spc' = "mask"
  /\ UNCHANGED <<masked, child_pid, child_status, conn, log, file, signalVars,
                 pipe, socket, backlog, rootVars, clientVars>>

\* bear_read_message with the signals unblocked.  At the end of a broken-off
\* message socket_read keeps calling read, which returns 0: no step.
ReadPart ==
  /\ ServerAt("read")
  /\ got < sent[conn]
  /\ got' = got + 1
  /\ spc' = IF got' = Parts THEN "mask" ELSE "read"
  /\ UNCHANGED <<masked, child_pid, child_status, conn, log, file, signalVars,
                 pipe, socket, backlog, rootVars, clientVars>>

MaskForAppend ==
  /\ ServerAt("mask")
  /\ masked' = TRUE /\ spc' = "append"
  /\ UNCHANGED <<child_pid, child_status, conn, got, log, file, signalVars,
                 pipe, socket, backlog, rootVars, clientVars>>

\* Mutant of AppendOutput: the loop condition is tested once more before it.
AppendOutputWhileChild ==
  /\ ServerAt("append")
  /\ log' = IF conn \in Recordable /\ child_pid # 0 THEN Append(log, conn) ELSE log
  /\ conn' = NoCall /\ got' = 0
  /\ spc' = "unmask"
  /\ UNCHANGED <<masked, child_pid, child_status, file, signalVars,
                 pipe, socket, backlog, rootVars, clientVars>>

\* bear_append_json_output and bear_free_message.
AppendOutput ==
  /\ ServerAt("append")
  /\ log' = IF conn \in Recordable THEN Append(log, conn) ELSE log
  /\ conn' = NoCall /\ got' = 0
  /\ spc' = "unmask"
  /\ UNCHANGED <<masked, child_pid, child_status, file, signalVars,
                 pipe, socket, backlog, rootVars, clientVars>>

UnmaskAfterAppend ==
  /\ ServerAt("unmask")
  /\ masked' = FALSE /\ spc' = "check"
  /\ UNCHANGED <<child_pid, child_status, conn, got, log, file, signalVars,
                 pipe, socket, backlog, rootVars, clientVars>>

MaskAtEnd ==
  /\ ServerAt("leave")
  /\ masked' = TRUE /\ spc' = "close"
  /\ UNCHANGED <<child_pid, child_status, conn, got, log, file, signalVars,
                 pipe, socket, backlog, rootVars, clientVars>>

\* close(s): the connections still in the backlog are reset.
CloseSocket ==
  /\ ServerAt("close")
  /\ socket' = "closed" /\ backlog' = <<>> /\ spc' = "finish"
  /\ UNCHANGED <<masked, child_pid, child_status, conn, got, log, file, signalVars,
                 pipe, rootVars, clientVars>>

\* bear_close_json_output, unlink, rmdir and the return of main.
Finish ==
  /\ ServerAt("finish")
  /\ file' = "complete" /\ spc' = "done"
  /\ UNCHANGED <<masked, child_pid, child_status, conn, got, log, signalVars,
                 pipe, socket, backlog, rootVars, clientVars>>

-----------------------------------------------------------------------------
(* Signal delivery.  The handlers are installed without SA_RESTART.        *)

Deliverable(sig) == ~masked /\ ~Terminated /\ sig \in pending

\* What a handler does to the system call it interrupts.  A sleeping accept
\* fails, which ends the loop.  A sleeping read fails, which ends the server;
\* a handler that runs between two reads, or with data at hand, does no harm.
Interrupt ==
  \/ /\ spc = "accept" /\ spc' = "leave"
     /\ UNCHANGED <<pipe, socket, backlog, conn, got>>
  \/ spc = "read" /\ got = sent[conn] /\ Exit
  \/ spc # "accept" /\ UNCHANGED <<spc, pipe, socket, backlog, conn, got>>

DeliverSIGCHLD ==
  /\ Deliverable("SIGCHLD") /\ ~handling
  /\ pending' = pending \ {"SIGCHLD"}
  /\ Interrupt
  /\ handling' = (spc' # "failed")
  /\ UNCHANGED <<masked, child_pid, child_status, log, file, interrupts, rootVars, clientVars>>

\* Mutant of Reap: the handler forgets the status of the child.
ReapWithoutStatus ==
  /\ handling /\ root = "zombie" /\ root' = "reaped"
  /\ child_pid' = 0
  /\ handling' = FALSE
  /\ UNCHANGED <<spc, masked, child_status, conn, got, log, file, pending, interrupts,
                 pipe, socket, backlog, wstatus, clientVars>>

\* Mutant of Reap: the handler forgets to reset child_pid.
ReapWithoutReset ==
  /\ handling /\ root = "zombie" /\ root' = "reaped"
  /\ child_status' = Decode(wstatus)
  /\ handling' = FALSE
  /\ UNCHANGED <<spc, masked, child_pid, conn, got, log, file, pending, interrupts,
                 pipe, socket, backlog, wstatus, clientVars>>

\* waitpid(WAIT_ANY, &status, WNOHANG).  For a child that has not ended it
\* returns 0 and leaves status uninitialised: any status.  Without a child it
\* returns -1 for ever: no step.
Reap ==
  /\ handling
  /\ \/ /\ root = "zombie" /\ root' = "reaped"
        /\ child_status' = Decode(wstatus)
     \/ /\ root \in {"running", "stopped"} /\ UNCHANGED root
        /\ child_status' \in Statuses \cup {EXIT_FAILURE}
  /\ child_pid' = 0
  /\ handling' = FALSE
  /\ UNCHANGED <<spc, masked, conn, got, log, file, pending, interrupts,
                 pipe, socket, backlog, wstatus, clientVars>>

\* kill(child_pid, SIGINT): with child_pid = 0 it goes to the process group
\* of the server, the server included, and is pending again at once.
DeliverSIGINT ==
  /\ Deliverable("SIGINT")
  /\ pending' = IF child_pid = 0 THEN pending ELSE pending \ {"SIGINT"}
  /\ \/ handling /\ UNCHANGED <<spc, pipe, socket, backlog, conn, got>>
     \/ ~handling /\ Interrupt
  /\ UNCHANGED <<masked, child_pid, child_status, log, file, handling, interrupts,
                 rootVars, clientVars>>

-----------------------------------------------------------------------------
(* The build root and the traced processes.                                *)

Alive(c) == cpc[c] \in {"connect", "write", "exec"}

\* Mutant of RootStart: the child does not wait for its parent.
RootStartAtOnce ==
  /\ root = "waiting"
  /\ root' = "running"
  /\ UNCHANGED <<serverVars, signalVars, pipe, socket, backlog, wstatus, clientVars>>

\* wait_for_parent returns on data and on end of file; then execvp.
RootStart ==
  /\ root = "waiting" /\ pipe # "open"
  /\ root' = "running"
  /\ UNCHANGED <<serverVars, signalVars, pipe, socket, backlog, wstatus, clientVars>>

\* The root ends by itself once the processes it waits for have ended.
RootExit(status) ==
  /\ root = "running"
  /\ \A c \in Calls \ Detached : ~Alive(c)
  /\ root' = "zombie" /\ wstatus' = status
  /\ pending' = pending \cup {"SIGCHLD"}
  /\ UNCHANGED <<serverVars, handling, interrupts, pipe, socket, backlog, clientVars>>

\* The root dies of the SIGINT of the terminal, or of the one the tracer sends.
RootKilled ==
  /\ root \in {"waiting", "running"} /\ Interrupted
  /\ root' = "zombie" /\ wstatus' = Signaled
  /\ pending' = pending \cup {"SIGCHLD"}
  /\ UNCHANGED <<serverVars, handling, interrupts, pipe, socket, backlog, clientVars>>

\* Stopping and continuing a child raise SIGCHLD too (no SA_NOCLDSTOP).
RootStopOrContinue ==
  /\ Stops
  /\ \/ root = "running" /\ root' = "stopped"
     \/ root = "stopped" /\ root' = "running"
  /\ pending' = pending \cup {"SIGCHLD"}
  /\ UNCHANGED <<serverVars, handling, interrupts, pipe, socket, backlog, wstatus, clientVars>>

\* SIGINT from the terminal reaches the server and every traced process.
UserInterrupt ==
  /\ interrupts < MaxInterrupts
  /\ interrupts' = interrupts + 1
  /\ pending' = pending \cup {"SIGINT"}
  /\ UNCHANGED <<serverVars, handling, pipe, socket, backlog, rootVars, clientVars>>

\* A process of the build calls exec: report_call builds the message.
StartCall(c) ==
  /\ cpc[c] = "idle"
  /\ \/ root = "running"
     \/ c \in Detached /\ \E d \in Detached : cpc[d] = "exec"
  /\ cpc' = [cpc EXCEPT ![c] = "connect"]
  /\ UNCHANGED <<serverVars, signalVars, pipe, socket, backlog, rootVars, sent>>

\* bear_send_message: connect blocks while the backlog is full ...
Connect(c) ==
  /\ cpc[c] = "connect"
  /\ socket = "listening" /\ Len(backlog) < Capacity
  /\ backlog' = Append(backlog, c)
  /\ cpc' = [cpc EXCEPT ![c] = "write"]
  /\ UNCHANGED <<serverVars, signalVars, pipe, socket, rootVars, sent>>

\* ... and exits the traced process, before its exec, when nobody listens.
ConnectRefused(c) ==
  /\ cpc[c] = "connect" /\ socket # "listening"
  /\ cpc' = [cpc EXCEPT ![c] = "refused"]
  /\ UNCHANGED <<serverVars, signalVars, pipe, socket, backlog, rootVars, sent>>

\* Mutant of WritePart: a short write is not continued (socket_write without loop).
WritePartShort(c) ==
  /\ cpc[c] = "write" /\ c \in Connected
  /\ sent' = [sent EXCEPT ![c] = @ + 1]
  /\ cpc' = [cpc EXCEPT ![c] = "exec"]
  /\ UNCHANGED <<serverVars, signalVars, pipe, socket, backlog, rootVars>>

\* bear_write_message; after the last part the connection is closed and the
\* real exec replaces the process.
WritePart(c) ==
  /\ cpc[c] = "write" /\ c \in Connected
  /\ sent' = [sent EXCEPT ![c] = @ + 1]
  /\ cpc' = [cpc EXCEPT ![c] = IF sent'[c] = Parts THEN "exec" ELSE "write"]
  /\ UNCHANGED <<serverVars, signalVars, pipe, socket, backlog, rootVars>>

\* The server has dropped the connection: SIGPIPE ends the process or, when
\* it is ignored, the write errors are and the exec goes on.
WriteBroken(c) ==
  /\ cpc[c] = "write" /\ c \notin Connected
  /\ \E next \in {"killed", "exec"} : cpc' = [cpc EXCEPT ![c] = next]
  /\ UNCHANGED <<serverVars, signalVars, pipe, socket, backlog, rootVars, sent>>

EndCall(c) ==
  /\ cpc[c] = "exec"
  /\ cpc' = [cpc EXCEPT ![c] = "ended"]
  /\ UNCHANGED <<serverVars, signalVars, pipe, socket, backlog, rootVars, sent>>

Die(c) ==
  /\ Alive(c) /\ (c \in Killable \/ Interrupted)
  /\ cpc' = [cpc EXCEPT ![c] = "killed"]
  /\ UNCHANGED <<serverVars, signalVars, pipe, socket, backlog, rootVars, sent>>

-----------------------------------------------------------------------------
Server ==
  \/ OpenOutput \/ CreateSocket \/ Unblock \/ NotifyChild \/ CheckChild
  \/ CallAccept \/ WakeAccept \/ ReadPart \/ MaskForAppend \/ AppendOutput
  \/ UnmaskAfterAppend \/ MaskAtEnd \/ CloseSocket \/ Finish

Signals == DeliverSIGCHLD \/ Reap \/ DeliverSIGINT

Client(c) == Connect(c) \/ ConnectRefused(c) \/ WritePart(c) \/ WriteBroken(c) \/ EndCall(c)

Next ==
  \/ Server
  \/ Signals
  \/ RootStart \/ RootKilled \/ RootStopOrContinue \/ UserInterrupt
  \/ \E status \in Statuses : RootExit(status)
  \/ \E c \in Calls : StartCall(c) \/ Client(c) \/ Die(c)

Spec == Init /\ [][Next]_vars

\* The scheduler runs every runnable process; the kernel delivers signals.
\* Nothing makes the build start a call, end or be interrupted.
FairSpec ==
  /\ Spec
  /\ WF_vars(Server) /\ WF_vars(Signals) /\ WF_vars(RootStart)
  /\ \A c \in Calls : WF_vars(Client(c))

-----------------------------------------------------------------------------
(* Properties.                                                             *)

TypeOK ==
  /\ spc \in {"open", "bind", "unblock", "notify", "check", "call", "accept", "read",
              "mask", "append", "unmask", "leave", "close", "finish", "done", "failed"}
  /\ masked \in BOOLEAN /\ handling \in BOOLEAN
  /\ pending \subseteq {"SIGCHLD", "SIGINT"}
  /\ child_pid \in {0, 1} /\ child_status \in Statuses \cup {EXIT_FAILURE}
  /\ pipe \in {"open", "ready", "closed"}
  /\ socket \in {"none", "listening", "closed"}
  /\ backlog \in Seq(Calls) /\ conn \in Calls \cup {NoCall} /\ got \in 0 .. Parts
  /\ log \in Seq(Calls) /\ file \in {"none", "open", "complete"}
  /\ root \in {"waiting", "running", "stopped", "zombie", "reaped"}
  /\ wstatus \in Statuses \cup {Signaled}
  /\ cpc \in [Calls -> {"idle", "connect", "write", "exec", "ended", "refused", "killed"}]
  /\ sent \in [Calls -> 0 .. Parts]
  /\ interrupts \in 0 .. MaxInterrupts

Told(c) == sent[c] = Parts

Missing == {c \in Recordable : Told(c) /\ c \notin Recorded}

\* While the server receives, no interesting call that was told in full can
\* get lost: it is waiting in the backlog, being read, or in the output.
\* (main.c, receive_on_unix_socket: every accepted message is appended.)
NothingDropped ==
  socket = "listening" =>
    \A c \in Recordable : Told(c) => c \in Connected \cup Recorded

\* A record stands for one whole message: no call is in the output twice, none
\* is there that is not asked for, that was cut short, or that is still in use.
\* (protocol.c, socket_read; output.c, bear_append_json_output.)
RecordedOnceAndWhole ==
  /\ IsInjective(log)
  /\ \A c \in Recorded : c \in Recordable /\ Told(c) /\ c \notin Connected

\* When the tracer has ended, the calls told in full that are missing from the
\* output are at most those the listen backlog could hold, one for listen(s, 0):
\* a message that was accepted is never lost.
LossBound ==
  spc = "done" =>
    Cardinality(Missing) <= Backlog + 1

\* The tracer never makes a command of the build fail while it is recording: a
\* connect is refused only after the server has left its loop or has failed.
\* (main.c: the child waits for "ready", written after bind and listen.)
NoRefusalWhileRecording ==
  (\E c \in Calls : cpc[c] = "refused") => spc \in {"finish", "done", "failed"}

\* The exit code of the tracer is the one of the build it has seen the end of,
\* and a failure if it left before the build ended, as long as the build is
\* not stopped.  (main.c, handler and the return of main.)
StatusReported ==
  spc = "done" =>
    child_status = IF root = "reaped" THEN Decode(wstatus) ELSE EXIT_FAILURE

\* The SIGCHLD handler never breaks the server off in the middle of a message, so
\* the output gets its closing bracket, when every traced process is waited for,
\* none is killed and nobody interrupts.  (protocol.c, read_string exits on EINTR.)
OutputSurvives == ~Interrupted => spc # "failed"

\* A call told before another one's process could connect is recorded before
\* it: the database keeps the order of the build's dependent steps.
OrderKept ==
  \A c, d \in Recordable :
    [](  Told(c) /\ cpc[d] \in {"idle", "connect"}
      => [](d \in Recorded => c \in Recorded))

\* The handler ran after the loop had read child_pid and before accept slept:
\* nothing will wake the server any more.  (main.c:178)
LostWakeup == spc = "accept" /\ child_pid = 0 /\ backlog = <<>>

\* SIGINT after child_pid was reset: kill(0, SIGINT) keeps raising it.  (main.c:202)
SignalStorm == Interrupted /\ ~masked /\ child_pid = 0 /\ "SIGINT" \in pending

\* The handler waits, with WNOHANG, for a child there no longer is.  (main.c:196)
EndlessWait == handling /\ root = "reaped"

\* The traced process died within its message: read returns 0.  (protocol.c:22)
EndlessRead == spc = "read" /\ got = sent[conn] /\ cpc[conn] # "write"

Hung == LostWakeup \/ SignalStorm \/ EndlessWait \/ EndlessRead

\* When the build has ended the tracer ends as well, unless it is for ever in one
\* of these four states: there is no fifth way to hang.
EndsOrHangs == root = "zombie" ~> (Terminated \/ []Hung)

\* No traced process is blocked for ever in connect, or in its message, by a
\* tracer that is not in one of these four states, unless the build is stopped
\* and continued without end.
StopsEnd == ~[]<><<RootStopOrContinue>>_vars

ClientUnblocked ==
  StopsEnd =>
    \A c \in Calls : cpc[c] \in {"connect", "write"} ~>
                     (cpc[c] \notin {"connect", "write"} \/ []Hung)

\* What tracer.test.cpp:103 counts: when tracer and build have ended, every
\* interesting call whose exec was performed is in the output.
AllCallsRecorded ==
  spc = "done" /\ root = "reaped" =>
    \A c \in Recordable : cpc[c] \in {"exec", "ended"} => c \in Recorded

\* What result_code/run.sh.in:15 tests: the exit code of the tracer is the exit
\* code of the build.
ExitCodeCaptured ==
  spc = "done" /\ ~Interrupted => root = "reaped" /\ child_status = Decode(wstatus)

\* The inductive invariant.  Control ties the server's place to the descriptors
\* it holds and to the sync pipe; Messages says where a call can be at a time.
BeforeNotify == {"open", "bind", "unblock", "notify"}
Receiving == {"unblock", "notify", "check", "call", "accept", "read",
              "mask", "append", "unmask", "leave", "close"}

Control ==
  /\ conn # NoCall <=> spc \in {"read", "mask", "append"}
  /\ socket = "listening" <=> spc \in Receiving
  /\ socket = "none" => spc \in {"open", "bind", "failed"}
  /\ pipe = "open" <=> spc \in BeforeNotify
  /\ pipe = "open" => root \notin {"running", "stopped"} /\ \A c \in Calls : cpc[c] = "idle"
  /\ file = "complete" <=> spc = "done"
  /\ socket # "listening" => backlog = <<>>
  /\ Len(backlog) <= Capacity

Messages ==
  /\ IsInjective(backlog) /\ IsInjective(log)
  /\ conn \notin Queued \cup Recorded
  /\ Queued \cap Recorded = {}
  /\ conn # NoCall => got <= sent[conn]
  /\ spc \in {"mask", "append"} => got = Parts
  /\ \A c \in Calls :
       /\ cpc[c] = "write" => sent[c] < Parts
       /\ c \in Connected \cup Recorded => cpc[c] \notin {"idle", "connect"}
       /\ cpc[c] \in {"idle", "connect"} => sent[c] = 0
       /\ c \in Recorded => c \in Recordable /\ Told(c)

Losses ==
  spc \in {"finish", "done"} => Cardinality(Missing) <= Backlog + 1

\* The reasons why the properties above hold, in one inductive statement.
IInv ==
  TypeOK /\ Control /\ Messages /\ NothingDropped /\ Losses /\ NoRefusalWhileRecording

\* The server implements the abstract log.
LogStatus ==
  CASE file = "complete" -> "complete"
    [] spc = "failed"    -> "broken"
    [] OTHER             -> "recording"

Abstract == INSTANCE TraceLog WITH
  issued <- {c \in Calls : Told(c)}, status <- LogStatus

\* Every step of the tracer and of the build is a step of the abstract log or
\* leaves it alone: what is recorded was issued, and is never taken back.
ImplementsTraceLog == Abstract!Spec

=============================================================================
