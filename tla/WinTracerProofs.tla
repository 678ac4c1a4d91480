--------------------------- MODULE WinTracerProofs ---------------------------
(* Machine-checked proofs about the Windows tracer, for every build it traces. *)
EXTENDS PipelineInvariant, ElementLemmas

-----------------------------------------------------------------------------
\* What an event is.
LEMMA EventKinds ==
  /\ \A e \in Event : /\ e.kind \in {"CREATE", "EXCEPTION", "EXIT"} /\ e.process \in Processes
                      /\ e.kind = "EXIT" => e.status \in ExitStatuses \cup {EXIT_FAILURE}
  /\ \A p \in Processes :
       /\ [kind |-> "CREATE", process |-> p] \in Event
       /\ [kind |-> "EXCEPTION", process |-> p] \in Event
       /\ \A s \in ExitStatuses \cup {EXIT_FAILURE} :
            [kind |-> "EXIT", process |-> p, status |-> s] \in Event
  /\ StateOf["CREATE"] = "reported" /\ StateOf["EXCEPTION"] = "faulting"
  /\ StateOf["EXIT"] = "ending"
  /\ NoEvent.kind = "none" /\ NoEvent.process = Root
BY DEF Event, StateOf, NoEvent

\* The queue after an event has been added.
LEMMA QueueGrows ==
  ASSUME WinInv, NEW e \in Event, queue' = Append(queue, e)
  PROVE  /\ queue' \in Seq(Event) /\ Len(queue) \in Nat
         /\ DOMAIN queue = 1 .. Len(queue) /\ DOMAIN queue' = 1 .. Len(queue) + 1
         /\ \A i \in DOMAIN queue : queue'[i] = queue[i]
         /\ queue'[Len(queue) + 1] = e
         /\ \A i \in DOMAIN queue' : \/ i \in DOMAIN queue /\ queue'[i] = queue[i]
                                     \/ i = Len(queue) + 1 /\ queue'[i] = e
BY DEF WinInv, WinTypes

\* The queue after the first event has been taken.
LEMMA QueueShrinks ==
  ASSUME WinInv, queue # <<>>, queue' = Tail(queue)
  PROVE  /\ queue' \in Seq(Event) /\ Head(queue) \in Event /\ Head(queue) = queue[1]
         /\ 1 \in DOMAIN queue
         /\ \A i \in DOMAIN queue' : i \in Nat /\ i + 1 \in DOMAIN queue /\ i # 0 /\ queue'[i] = queue[i + 1]
<1>1. queue \in Seq(Event)
  BY DEF WinInv, WinTypes
<1>2. /\ Len(queue) \in Nat \ {0} /\ DOMAIN queue = 1 .. Len(queue)
      /\ queue' \in Seq(Event) /\ Len(queue') = Len(queue) - 1 /\ DOMAIN queue' = 1 .. Len(queue')
      /\ \A i \in 1 .. Len(queue) - 1 : queue'[i] = queue[i + 1]
      /\ Head(queue) = queue[1]
  BY <1>1, HeadTailProperties, EmptySeq
<1> QED  BY <1>1, <1>2

\* A process that reports, faults or ends puts its event into the queue.
Raised(e) ==
  /\ queue' = Append(queue, e) /\ proc' = [proc EXCEPT ![e.process] = StateOf[e.kind]]
  /\ \/ e.kind = "CREATE" /\ proc[e.process] = "created"
     \/ e.kind # "CREATE" /\ Runs(e.process)
  /\ e.kind = "EXIT" => e.status \in ExitStatuses
  /\ raised' \subseteq DOMAIN Raises /\ files' = files

\* The steps of the traced build.
LEMMA BuildMoves ==
  ASSUME WinInv, Build
  PROVE  /\ UNCHANGED <<lpc, loopVars, compilers, out_file>>
         /\ \/ \E e \in Event : Raised(e)
            \/ \E p \in Processes : Spawn(p)
            \/ \E p \in Processes : RemoveFile(p)
<1> PICK p \in Processes :
       \/ Spawn(p) \/ Report(p) \/ RemoveFile(p) \/ Fault(p)
       \/ \E status \in IF p = Root THEN ExitStatuses ELSE {0} : End(p, status)
  BY DEF Build
<1>1. ASSUME Report(p) PROVE Raised([kind |-> "CREATE", process |-> p])
  BY <1>1, EventKinds DEF Report, Raised, WinInv, WinTypes, WinTypeOK
<1>2. ASSUME Fault(p) PROVE Raised([kind |-> "EXCEPTION", process |-> p])
  BY <1>2, EventKinds DEF Fault, Raised, WinInv, WinTypes, WinTypeOK
<1>3. ASSUME NEW status \in ExitStatuses, End(p, status)
      PROVE  Raised([kind |-> "EXIT", process |-> p, status |-> status])
  BY <1>3, EventKinds DEF End, Raised, WinInv, WinTypes, WinTypeOK
<1>4. 0 \in ExitStatuses
  BY WinAssumption
<1> QED  BY <1>1, <1>2, <1>3, <1>4, EventKinds DEF Spawn, Report, RemoveFile, Fault, End

\* What is left of the processes when the tracer ends.
LEMMA KillMoves ==
  ASSUME WinInv, KillRest
  PROVE  /\ DOMAIN proc' = Processes
         /\ \A p \in Processes :
              /\ proc[p] = "created" => proc'[p] = "stillborn"
              /\ proc[p] = "reported" => proc'[p] = "held"
              /\ proc[p] \in {"running", "faulting", "ending"} => proc'[p] = "killed"
              /\ proc[p] \notin {"created", "reported", "running", "faulting", "ending"} =>
                   proc'[p] = proc[p]
BY DEF KillRest

\* The last step of the tracer.
Ends ==
  /\ KillRest /\ queue' = <<>> /\ lpc' = "done" /\ lpc \in {"handle", "write"}
  /\ root_process_exit_status' \in {root_process_exit_status, EXIT_FAILURE}
  /\ UNCHANGED <<raised, files, event, continue_status, process_running, array, compilers>>
  /\ lpc = "handle" => event.kind = "CREATE"

\* The three ways in which the tracer ends after its loop.
LEMMA EndMoves ==
  ASSUME WriteOutput \/ LogThrows \/ DumpThrows
  PROVE  Ends
BY DEF WriteOutput, LogThrows, DumpThrows, Dies, Ends, loopVars

\* What the system makes of the process whose event has been handled.
Continues(kind, to) ==
  event.kind = kind /\ proc' = [proc EXCEPT ![event.process] = to] /\ UNCHANGED queue

Dead == [kind |-> "EXIT", process |-> event.process, status |-> EXIT_FAILURE]

\* What continuing an event does to the process it is about and to the queue.
LEMMA ContinueMoves ==
  ASSUME WinInv, ContinueDebugEvent
  PROVE  /\ lpc = "continue" /\ lpc' = IF process_running THEN "wait" ELSE "write"
         /\ event \in Event
         /\ UNCHANGED <<raised, files, event, continue_status, process_running,
                        root_process_exit_status, array, compilers, out_file>>
         /\ \/ Continues("CREATE", "running") \/ Continues("EXCEPTION", "running")
            \/ Continues("EXIT", "gone")
            \/ event.kind = "EXCEPTION" /\ queue' = Append(queue, event) /\ UNCHANGED proc
            \/ /\ event.kind = "EXCEPTION" /\ queue' = Append(queue, Dead)
               /\ proc' = [proc EXCEPT ![event.process] = "ending"]
<1>1. event \in Event /\ lpc = "continue"
  BY DEF ContinueDebugEvent, WinInv, EventsMatch, Handling
<1>2. /\ lpc' = IF process_running THEN "wait" ELSE "write"
      /\ UNCHANGED <<raised, files, event, continue_status, process_running,
                     root_process_exit_status, array, compilers, out_file>>
  BY DEF ContinueDebugEvent, loopVars
<1>3. event.kind \in {"CREATE", "EXCEPTION", "EXIT"}
  BY <1>1, EventKinds
<1>4. CASE event.kind = "CREATE"
  BY <1>1, <1>2, <1>4 DEF ContinueDebugEvent, Continues
<1>5. CASE event.kind = "EXIT"
  BY <1>1, <1>2, <1>5 DEF ContinueDebugEvent, Continues
<1>6. CASE event.kind = "EXCEPTION"
  BY <1>1, <1>2, <1>6 DEF ContinueDebugEvent, ContinueException, Continues, Dead
<1> QED  BY <1>3, <1>4, <1>5, <1>6

-----------------------------------------------------------------------------
\* The array after a process may have been logged.
LEMMA ArrayMoves ==
  ASSUME WinInv, HandleCreate
  PROVE  /\ lpc = "handle" /\ lpc' = "continue" /\ event \in Event /\ event.kind = "CREATE"
         /\ UNCHANGED <<buildVars, event, continue_status, process_running,
                        root_process_exit_status, compilers, out_file>>
         /\ IsList(array') /\ IsInjective([i \in DOMAIN array' |-> array'[i].process])
         /\ Logged' = Logged \cup (IF LogCreateProcess(event.process) THEN {event.process} ELSE {})
         /\ array' = array \/ /\ DOMAIN array' = DOMAIN array \cup {Len(array) + 1}
                              /\ \A i \in DOMAIN array : array'[i] = array[i]
                              /\ array'[Len(array) + 1].process = event.process
                              /\ DOMAIN array = 1 .. Len(array) /\ Len(array) \in Nat
<1> DEFINE e == [process |-> event.process, arguments |-> Unfold(event.process)]
<1>1. /\ lpc = "handle" /\ lpc' = "continue" /\ event.kind = "CREATE"
      /\ array' = IF LogCreateProcess(event.process) THEN Append(array, e) ELSE array
      /\ UNCHANGED <<buildVars, event, continue_status, process_running,
                     root_process_exit_status, compilers, out_file>>
  BY DEF HandleCreate
<1>2. event \in Event /\ event.process \notin Logged
  BY <1>1 DEF WinInv, EventsMatch, Handling, LogMatches
<1>3. IsList(array) /\ \A i, j \in DOMAIN array : array[i].process = array[j].process => i = j
  BY DEF WinInv, WinTypes, WinTypeOK, IsInjective
<1>4. e.process = event.process
  OBVIOUS
<1>5. CASE ~LogCreateProcess(event.process)
  <2>1. array' = array
    BY <1>1, <1>5
  <2> QED  BY <1>1, <1>2, <1>3, <1>5, <2>1 DEF Logged, IsInjective
<1>6. CASE LogCreateProcess(event.process)
  <2>1. array' = Append(array, e)
    BY <1>1, <1>6
  <2> HIDE DEF e
  <2>2. /\ Len(array) \in Nat /\ DOMAIN array = 1 .. Len(array)
        /\ IsList(array') /\ DOMAIN array' = 1 .. Len(array) + 1
        /\ \A i \in 1 .. Len(array) : array'[i] = array[i]
        /\ array'[Len(array) + 1] = e
    BY <1>3, <2>1, AppendAny DEF IsList
  <2>3. DOMAIN array' = DOMAIN array \cup {Len(array) + 1}
    BY <2>2
  <2>4. \A i \in DOMAIN array : array'[i].process # event.process
    BY <1>2, <2>2 DEF Logged
  <2>5. \A i, j \in DOMAIN array' : array'[i].process = array'[j].process => i = j
    <3> SUFFICES ASSUME NEW i \in DOMAIN array', NEW j \in DOMAIN array',
                        array'[i].process = array'[j].process
                 PROVE  i = j
      OBVIOUS
    <3>1. CASE i \in DOMAIN array /\ j \in DOMAIN array
      <4>1. array'[i] = array[i] /\ array'[j] = array[j]
        BY <3>1, <2>2
      <4> QED  BY <3>1, <4>1, <1>3
    <3>2. CASE i = Len(array) + 1 \/ j = Len(array) + 1
      BY <3>2, <2>2, <2>3, <2>4, <1>4
    <3> QED  BY <2>3, <3>1, <3>2
  <2>6. Logged' = Logged \cup {event.process}
    <3>1. Logged' \subseteq Logged \cup {event.process}
      BY <1>4, <2>2, <2>3 DEF Logged
    <3>2. Logged \cup {event.process} \subseteq Logged'
      BY <1>4, <2>2, <2>3 DEF Logged
    <3> QED  BY <3>1, <3>2
  <2> QED  BY <1>1, <1>2, <1>4, <1>6, <2>2, <2>3, <2>5, <2>6 DEF IsInjective
<1> QED  BY <1>5, <1>6

\* The steps of the tracer and the build, the ones that end it taken together.
LEMMA StepKinds ==
  ASSUME WinNext
  PROVE  \/ Build \/ CreateRoot \/ WaitForDebugEvent \/ WaitFails \/ OpenFails
         \/ HandleCreate \/ HandleExit \/ HandleException \/ ContinueDebugEvent \/ Ends
BY EndMoves DEF WinNext, Tracer, Works

-----------------------------------------------------------------------------
(* Each part of the invariant is kept.                                     *)

\* Every step keeps the types.
LEMMA StepWinTypes == ASSUME WinInv, WinNext PROVE WinTypes'
<1> DEFINE States == {"none", "created", "reported", "running", "faulting",
                      "ending", "gone", "killed", "held", "stillborn"}
<1>1. /\ proc \in [Processes -> States] /\ raised \subseteq DOMAIN Raises
      /\ files \subseteq Range(ResponseFile) \ {NoFile}
      /\ continue_status \in {"DBG_CONTINUE", "DBG_EXCEPTION_NOT_HANDLED"}
      /\ process_running \in BOOLEAN
      /\ root_process_exit_status \in ExitStatuses \cup {EXIT_FAILURE}
      /\ IsInjective([i \in DOMAIN array |-> array[i].process])
      /\ queue \in Seq(Event) /\ event \in Event \cup {NoEvent}
      /\ IsList(array) /\ Logged \subseteq Processes
  BY DEF WinInv, WinTypes, WinTypeOK
<1>2. ASSUME queue' \in Seq(Event)
      PROVE  \A i \in DOMAIN queue' : queue'[i].kind \in {"CREATE", "EXCEPTION", "EXIT"}
  BY <1>2, EventKinds
<1>3. \A s \in {"reported", "faulting", "ending", "running", "gone"} : \A p \in Processes :
        [proc EXCEPT ![p] = s] \in [Processes -> States]
  BY <1>1
<1>4. SUFFICES /\ proc' \in [Processes -> States] /\ raised' \subseteq DOMAIN Raises
               /\ files' \subseteq Range(ResponseFile) \ {NoFile}
               /\ lpc' \in {"off", "create", "wait", "handle", "continue", "write", "done"}
               /\ continue_status' \in {"DBG_CONTINUE", "DBG_EXCEPTION_NOT_HANDLED"}
               /\ process_running' \in BOOLEAN
               /\ root_process_exit_status' \in ExitStatuses \cup {EXIT_FAILURE}
               /\ IsInjective([i \in DOMAIN array' |-> array'[i].process])
               /\ queue' \in Seq(Event) /\ event' \in Event \cup {NoEvent}
               /\ IsList(array') /\ Logged' \subseteq Processes
  BY <1>2, <1>4 DEF WinTypes, WinTypeOK
<1>5. lpc \in {"off", "create", "wait", "handle", "continue", "write", "done"}
  BY DEF WinInv, WinTypes, WinTypeOK
<1> HIDE DEF States
<1>6. ASSUME array' = array PROVE /\ IsList(array') /\ Logged' \subseteq Processes
                                  /\ IsInjective([i \in DOMAIN array' |-> array'[i].process])
  BY <1>1, <1>6 DEF Logged
<1>7. CASE Build
  <2>1. UNCHANGED <<lpc, loopVars>>
    BY <1>7, BuildMoves
  <2>2. ASSUME NEW e \in Event, Raised(e)
        PROVE  /\ proc' \in [Processes -> States] /\ queue' \in Seq(Event)
               /\ raised' \subseteq DOMAIN Raises /\ files' = files
    BY <1>1, <1>3, <2>2, QueueGrows, EventKinds DEF Raised
  <2>3. ASSUME NEW p \in Processes, Spawn(p)
        PROVE  /\ proc' \in [Processes -> States] /\ queue' \in Seq(Event)
               /\ raised' \subseteq DOMAIN Raises /\ files' \subseteq Range(ResponseFile) \ {NoFile}
    <3>1. ResponseFile[p] \in Range(ResponseFile)
      BY WinAssumption DEF Range
    <3> QED  BY <1>1, <2>3, <3>1 DEF Spawn, States
  <2>4. ASSUME NEW p \in Processes, RemoveFile(p)
        PROVE  /\ proc' \in [Processes -> States] /\ queue' \in Seq(Event)
               /\ raised' \subseteq DOMAIN Raises /\ files' \subseteq Range(ResponseFile) \ {NoFile}
    BY <1>1, <2>4 DEF RemoveFile
  <2> QED  BY <1>1, <1>5, <1>6, <1>7, <2>1, <2>2, <2>3, <2>4, BuildMoves DEF loopVars
<1>8. CASE CreateRoot
  BY <1>1, <1>6, <1>8, WinAssumption DEF CreateRoot, loopVars, States
<1>9. CASE WaitForDebugEvent
  BY <1>1, <1>6, <1>9, QueueShrinks DEF WaitForDebugEvent
<1>10. CASE WaitFails \/ OpenFails
  BY <1>1, <1>6, <1>10 DEF WaitFails, OpenFails, loopVars, buildVars
<1>11. CASE HandleCreate
  <2>1. event.process \in Processes
    BY <1>11, ArrayMoves, EventKinds
  <2> QED  BY <1>1, <1>11, <2>1, ArrayMoves DEF buildVars
<1>12. CASE HandleExit
  <2>1. event \in Event /\ event.kind = "EXIT"
    BY <1>12 DEF HandleExit, WinInv, EventsMatch, Handling
  <2>2. event.status \in ExitStatuses \cup {EXIT_FAILURE}
    BY <2>1, EventKinds
  <2> QED  BY <1>1, <1>6, <1>12, <2>2 DEF HandleExit, buildVars
<1>13. CASE HandleException
  BY <1>1, <1>6, <1>13 DEF HandleException, buildVars
<1>14. CASE ContinueDebugEvent
  <2>1. Dead \in Event
    BY <1>14, ContinueMoves, EventKinds DEF Dead
  <2> QED  BY <1>1, <1>3, <1>6, <1>14, <2>1, ContinueMoves, EventKinds, QueueGrows DEF Continues
<1>15. CASE Ends
  <2>1. proc' \in [Processes -> States]
    BY <1>1, <1>15 DEF Ends, KillRest, States
  <2> QED  BY <1>1, <1>6, <1>15, <2>1 DEF Ends, EXIT_FAILURE
<1> QED  BY <1>7, <1>8, <1>9, <1>10, <1>11, <1>12, <1>13, <1>14, <1>15, StepKinds

\* A process with an event to handle is in no other's event.
LEMMA StepEventsMatch == ASSUME WinInv, WinNext PROVE EventsMatch'
<1>1. /\ proc \in [Processes -> {"none", "created", "reported", "running", "faulting",
                                 "ending", "gone", "killed", "held", "stillborn"}]
      /\ queue \in Seq(Event) /\ event \in Event \cup {NoEvent}
      /\ \A i \in DOMAIN queue : queue[i] \in Event
  BY DEF WinInv, WinTypes, WinTypeOK
<1>2. /\ \A i, j \in DOMAIN queue : queue[i].process = queue[j].process => i = j
      /\ \A i \in DOMAIN queue : proc[queue[i].process] = StateOf[queue[i].kind]
      /\ Handling =>
           /\ event \in Event /\ proc[event.process] = StateOf[event.kind]
           /\ \A i \in DOMAIN queue : queue[i].process # event.process
  BY DEF WinInv, EventsMatch
<1>3. \A e \in Event : StateOf[e.kind] \in {"reported", "faulting", "ending"}
  BY EventKinds
<1>4. ASSUME NEW e \in Event, queue' = Append(queue, e),
             \A i \in DOMAIN queue : queue[i].process # e.process,
             proc' = [proc EXCEPT ![e.process] = StateOf[e.kind]]
      PROVE  /\ \A i, j \in DOMAIN queue' : queue'[i].process = queue'[j].process => i = j
             /\ \A i \in DOMAIN queue' : proc'[queue'[i].process] = StateOf[queue'[i].kind]
  <2>1. e.process \in Processes
    BY EventKinds
  <2>2. \A i \in DOMAIN queue' : \/ i \in DOMAIN queue /\ queue'[i] = queue[i]
                                 \/ i = Len(queue) + 1 /\ queue'[i] = e
    BY <1>4, QueueGrows
  <2>3. \A i, j \in DOMAIN queue' : queue'[i].process = queue'[j].process => i = j
    BY <1>2, <1>4, <2>2
  <2>4. proc'[e.process] = StateOf[e.kind]
    BY <1>1, <1>4, <2>1
  <2>5. \A i \in DOMAIN queue : proc'[queue[i].process] = proc[queue[i].process]
    BY <1>1, <1>4, EventKinds
  <2> QED  BY <1>2, <2>2, <2>3, <2>4, <2>5
<1>5. CASE Build
  <2>1. UNCHANGED <<lpc, event>>
    BY <1>5, BuildMoves DEF loopVars
  <2>2. ASSUME NEW e \in Event, Raised(e) PROVE EventsMatch'
    <3>1. proc[e.process] \in {"created", "running"}
      BY <2>2 DEF Raised, Runs
    <3>2. /\ \A i \in DOMAIN queue : queue[i].process # e.process
          /\ Handling => event.process # e.process
      BY <1>1, <1>2, <1>3, <3>1
    <3>3. /\ \A i, j \in DOMAIN queue' : queue'[i].process = queue'[j].process => i = j
          /\ \A i \in DOMAIN queue' : proc'[queue'[i].process] = StateOf[queue'[i].kind]
      BY <1>4, <2>2, <3>2 DEF Raised
    <3>4. Handling => /\ proc'[event.process] = proc[event.process]
                      /\ \A i \in DOMAIN queue' : queue'[i].process # event.process
      <4>1. \A i \in DOMAIN queue' : queue'[i] = e \/ (i \in DOMAIN queue /\ queue'[i] = queue[i])
        BY <2>2, QueueGrows DEF Raised
      <4> QED  BY <1>1, <1>2, <2>2, <3>2, <4>1, EventKinds DEF Raised
    <3> QED  BY <1>2, <2>1, <3>3, <3>4 DEF EventsMatch, Handling
  <2>3. ASSUME NEW p \in Processes, Spawn(p) PROVE EventsMatch'
    <3>1. proc[p] = "none" /\ proc' = [proc EXCEPT ![p] = "created"] /\ queue' = queue
      BY <2>3 DEF Spawn
    <3> QED  BY <1>1, <1>2, <1>3, <2>1, <3>1, EventKinds DEF EventsMatch, Handling
  <2>4. ASSUME NEW p \in Processes, RemoveFile(p) PROVE EventsMatch'
    BY <1>2, <2>1, <2>4 DEF EventsMatch, Handling, RemoveFile
  <2> QED  BY <1>5, <2>2, <2>3, <2>4, BuildMoves
<1>6. CASE CreateRoot
  <2>1. queue = <<>> /\ queue' = queue
    BY <1>6 DEF CreateRoot, WinInv, DebuggeesOwned
  <2> QED  BY <1>6, <2>1, EmptySeq DEF CreateRoot, EventsMatch, Handling
<1>7. CASE WaitForDebugEvent
  <2>1. /\ queue # <<>> /\ queue' = Tail(queue) /\ event' = Head(queue) /\ proc' = proc
    BY <1>7 DEF WaitForDebugEvent
  <2>2. /\ event' = queue[1] /\ event' \in Event /\ 1 \in DOMAIN queue
        /\ \A i \in DOMAIN queue' : i \in Nat /\ i + 1 \in DOMAIN queue /\ i # 0 /\ queue'[i] = queue[i + 1]
    BY <2>1, QueueShrinks
  <2>3. \A i, j \in DOMAIN queue' : queue'[i].process = queue'[j].process => i = j
    <3> SUFFICES ASSUME NEW i \in DOMAIN queue', NEW j \in DOMAIN queue',
                        queue'[i].process = queue'[j].process PROVE i = j
      OBVIOUS
    <3>1. i + 1 = j + 1
      BY <1>2, <2>2
    <3> QED  BY <2>2, <3>1
  <2>4. \A i \in DOMAIN queue' : queue'[i].process # event'.process
    <3> SUFFICES ASSUME NEW i \in DOMAIN queue', queue[i + 1].process = queue[1].process PROVE FALSE
      BY <2>2
    <3>1. i + 1 = 1
      BY <1>2, <2>2
    <3> QED  BY <2>2, <3>1
  <2> QED  BY <1>2, <2>1, <2>2, <2>3, <2>4 DEF EventsMatch, Handling
<1>8. CASE WaitFails \/ OpenFails
  BY <1>2, <1>8 DEF WaitFails, OpenFails, loopVars, buildVars, EventsMatch, Handling
<1>9. CASE HandleCreate \/ HandleExit \/ HandleException
  BY <1>2, <1>9 DEF HandleCreate, HandleExit, HandleException, buildVars, EventsMatch, Handling
<1>10. CASE ContinueDebugEvent
  <2>1. Handling /\ event.process \in Processes /\ ~Handling'
    BY <1>10, ContinueMoves, EventKinds DEF Handling
  <2>2. ASSUME queue' = queue, NEW to, proc' = [proc EXCEPT ![event.process] = to]
        PROVE  EventsMatch'
    <3>1. \A i \in DOMAIN queue : queue[i].process # event.process /\ queue[i].process \in Processes
      BY <1>1, <1>2, <2>1, EventKinds
    <3>2. \A i \in DOMAIN queue : proc'[queue[i].process] = proc[queue[i].process]
      BY <1>1, <2>2, <3>1
    <3> QED  BY <1>2, <2>1, <2>2, <3>2 DEF EventsMatch
  <2>3. ASSUME NEW e \in Event, e.process = event.process, queue' = Append(queue, e),
               proc' = [proc EXCEPT ![e.process] = StateOf[e.kind]]
        PROVE  EventsMatch'
    <3>1. \A i \in DOMAIN queue : queue[i].process # e.process
      BY <1>2, <2>1, <2>3
    <3> QED  BY <1>4, <2>1, <2>3, <3>1 DEF EventsMatch
  <2>4. CASE event.kind = "EXCEPTION" /\ queue' = Append(queue, event) /\ UNCHANGED proc
    <3>1. proc' = [proc EXCEPT ![event.process] = StateOf[event.kind]]
      BY <1>1, <1>2, <2>1, <2>4
    <3> QED  BY <1>2, <2>1, <2>3, <2>4, <3>1
  <2>5. CASE /\ event.kind = "EXCEPTION" /\ queue' = Append(queue, Dead)
             /\ proc' = [proc EXCEPT ![event.process] = "ending"]
    <3>1. Dead \in Event /\ Dead.process = event.process /\ StateOf[Dead.kind] = "ending"
      BY <2>1, EventKinds DEF Dead
    <3> QED  BY <2>3, <2>5, <3>1
  <2> QED  BY <1>10, <2>2, <2>4, <2>5, ContinueMoves DEF Continues
<1>11. CASE Ends
  BY <1>11, EmptySeq DEF Ends, EventsMatch, Handling
<1> QED  BY <1>5, <1>6, <1>7, <1>8, <1>9, <1>10, <1>11, StepKinds

\* What a step of the build or the system does to the processes: none begins in
\* the tracer's absence, and only the end of the tracer cuts one off.
LEMMA StepDebuggeesOwned == ASSUME WinInv, WinNext PROVE DebuggeesOwned'
<1>1. /\ proc \in [Processes -> {"none", "created", "reported", "running", "faulting",
                                 "ending", "gone", "killed", "held", "stillborn"}]
      /\ Root \in Processes
  BY WinAssumption DEF WinInv, WinTypes, WinTypeOK
<1>2. /\ lpc \in {"off", "create"} =>
           (\A p \in Processes : proc[p] = "none") /\ array = <<>> /\ process_running
      /\ lpc \in {"off", "create", "done"} => queue = <<>>
      /\ lpc = "done" => \A p \in Processes : proc[p] \in Over \cup {"none"}
      /\ lpc # "done" => \A p \in Processes : proc[p] \notin Cut
  BY DEF WinInv, DebuggeesOwned
<1>3. CASE Build
  <2>1. UNCHANGED <<lpc, array>>
    BY <1>3, BuildMoves DEF loopVars
  <2>2. ASSUME NEW e \in Event, Raised(e)
        PROVE  /\ lpc \notin {"off", "create", "done"}
               /\ \A p \in Processes : proc[p] \notin Cut => proc'[p] \notin Cut
    <3>1. e.process \in Processes /\ proc[e.process] \in {"created", "running"}
      BY <2>2, EventKinds DEF Raised, Runs
    <3>2. \A p \in Processes : proc'[p] = IF p = e.process THEN StateOf[e.kind] ELSE proc[p]
      BY <1>1, <2>2, <3>1 DEF Raised
    <3>3. StateOf[e.kind] \notin Cut
      BY EventKinds DEF Cut
    <3> QED  BY <1>2, <3>1, <3>2, <3>3 DEF Over
  <2>3. ASSUME NEW p \in Processes, Spawn(p)
        PROVE  /\ lpc \notin {"off", "create", "done"}
               /\ \A q \in Processes : proc[q] \notin Cut => proc'[q] \notin Cut
    <3>1. Parent[p] \in Processes /\ proc[Parent[p]] = "running"
      BY <2>3, WinAssumption DEF Spawn, Runs
    <3>2. \A q \in Processes : proc'[q] = IF q = p THEN "created" ELSE proc[q]
      BY <1>1, <2>3 DEF Spawn
    <3> QED  BY <1>2, <3>1, <3>2 DEF Over, Cut
  <2>4. ASSUME NEW p \in Processes, RemoveFile(p)
        PROVE  proc' = proc /\ queue' = queue
    BY <2>4 DEF RemoveFile
  <2> QED  BY <1>2, <1>3, <2>1, <2>2, <2>3, <2>4, BuildMoves DEF DebuggeesOwned, loopVars
<1>4. CASE CreateRoot
  <2>1. lpc = "create" /\ queue' = queue
    BY <1>4 DEF CreateRoot
  <2>2. CASE proc' = [proc EXCEPT ![Root] = "created"] /\ lpc' = "wait"
    <3>1. \A p \in Processes : proc'[p] \in {"none", "created"}
      BY <1>1, <1>2, <2>1, <2>2
    <3> QED  BY <2>2, <3>1 DEF DebuggeesOwned, Cut
  <2>3. CASE lpc' = "done" /\ UNCHANGED proc
    BY <1>2, <2>1, <2>3 DEF DebuggeesOwned
  <2> QED  BY <1>4, <2>2, <2>3 DEF CreateRoot
<1>5. CASE WaitForDebugEvent \/ WaitFails \/ OpenFails \/ HandleCreate \/ HandleExit \/ HandleException
  BY <1>2, <1>5 DEF WaitForDebugEvent, WaitFails, OpenFails, HandleCreate, HandleExit, HandleException,
                    buildVars, DebuggeesOwned
<1>6. CASE ContinueDebugEvent
  <2>1. event.process \in Processes /\ lpc = "continue" /\ lpc' \in {"wait", "write"}
    BY <1>6, ContinueMoves, EventKinds
  <2>2. \A p \in Processes : proc'[p] = proc[p] \/ proc'[p] \in {"running", "gone", "ending"}
    BY <1>1, <1>6, <2>1, ContinueMoves DEF Continues
  <2> QED  BY <1>2, <2>1, <2>2 DEF DebuggeesOwned, Cut
<1>7. CASE Ends
  <2>1. \A p \in Processes : proc'[p] \in Over \cup {"none"}
    BY <1>1, <1>7, KillMoves DEF Ends, Over
  <2> QED  BY <1>7, <2>1 DEF Ends, DebuggeesOwned
<1> QED  BY <1>3, <1>4, <1>5, <1>6, <1>7, StepKinds

\* The loop is left for the end of the root and for nothing else.
LEMMA StepRootSeen == ASSUME WinInv, WinNext PROVE RootSeen'
<1>1. /\ ~process_running =>
           \/ lpc = "continue" /\ event.kind = "EXIT" /\ event.process = Root
           \/ lpc \in {"write", "done"} /\ proc[Root] = "gone"
      /\ root_process_exit_status = 0 => ~process_running
      /\ process_running \in BOOLEAN /\ Root \in Processes
      /\ proc \in [Processes -> {"none", "created", "reported", "running", "faulting",
                                 "ending", "gone", "killed", "held", "stillborn"}]
      /\ ~process_running => lpc \notin {"off", "create"}
  BY WinAssumption DEF WinInv, RootSeen, WinTypes, WinTypeOK, DebuggeesOwned
<1>2. CASE Build
  <2>1. UNCHANGED <<lpc, event, process_running, root_process_exit_status>>
    BY <1>2, BuildMoves DEF loopVars
  <2>2. ASSUME NEW e \in Event, Raised(e) PROVE proc[Root] = "gone" => proc'[Root] = "gone"
    BY <1>1, <2>2, EventKinds DEF Raised, Runs
  <2>3. ASSUME NEW p \in Processes, Spawn(p) PROVE proc[Root] = "gone" => proc'[Root] = "gone"
    BY <1>1, <2>3 DEF Spawn
  <2>4. ASSUME NEW p \in Processes, RemoveFile(p) PROVE proc' = proc
    BY <2>4 DEF RemoveFile
  <2> QED  BY <1>1, <1>2, <2>1, <2>2, <2>3, <2>4, BuildMoves DEF RootSeen
<1>3. CASE CreateRoot \/ WaitForDebugEvent \/ WaitFails \/ OpenFails
  BY <1>1, <1>3 DEF CreateRoot, WaitForDebugEvent, WaitFails, OpenFails, loopVars, RootSeen
<1>4. CASE HandleCreate \/ HandleException
  BY <1>1, <1>4 DEF HandleCreate, HandleException, RootSeen
<1>5. CASE HandleExit
  BY <1>1, <1>5 DEF HandleExit, RootSeen
<1>6. CASE ContinueDebugEvent
  <2>1. /\ lpc = "continue" /\ (~process_running => lpc' = "write")
        /\ UNCHANGED <<process_running, root_process_exit_status>>
    BY <1>6, ContinueMoves
  <2>2. ~process_running => proc'[Root] = "gone"
    BY <1>1, <1>6, <2>1, ContinueMoves DEF Continues
  <2> QED  BY <1>1, <2>1, <2>2 DEF RootSeen
<1>7. CASE Ends
  BY <1>1, <1>7, KillMoves DEF Ends, RootSeen, EXIT_FAILURE
<1> QED  BY <1>2, <1>3, <1>4, <1>5, <1>6, <1>7, StepKinds

\* A parent that waits for a child neither ends nor faults before it.
LEMMA StepParentsWait == ASSUME WinInv, WinNext PROVE ParentsWait'
<1>1. /\ proc \in [Processes -> {"none", "created", "reported", "running", "faulting",
                                 "ending", "gone", "killed", "held", "stillborn"}]
      /\ Root \in Processes
      /\ \A p \in Awaited : p \in Processes /\ p # Root /\ Parent[p] \in Processes
  BY WinAssumption DEF WinInv, WinTypes, WinTypeOK
<1>2. \A p \in Awaited :
        /\ proc[p] \notin Absent \cup Over => proc[Parent[p]] = "running"
        /\ proc[p] \in Cut => proc[Parent[p]] \in Cut
  BY DEF WinInv, ParentsWait
<1>3. /\ lpc # "done" => \A p \in Processes : proc[p] \notin Cut
      /\ lpc \in {"create"} => \A p \in Processes : proc[p] = "none"
  BY DEF WinInv, DebuggeesOwned
<1>4. ASSUME NEW p \in Processes, NEW to, proc' = [proc EXCEPT ![p] = to], to \notin Cut,
             proc[p] \notin Cut \cup Over,
             proc[p] \in Absent => (p \in Awaited => proc[Parent[p]] = "running"),
             proc[p] = "running" => to # "running" /\ ~Waits(p)
      PROVE  ParentsWait'
  <2>1. \A q \in Processes : proc'[q] = IF q = p THEN to ELSE proc[q]
    BY <1>1, <1>4
  <2>2. SUFFICES ASSUME NEW q \in Awaited
                 PROVE  /\ proc'[q] \notin Absent \cup Over => proc'[Parent[q]] = "running"
                        /\ proc'[q] \in Cut => proc'[Parent[q]] \in Cut
    BY DEF ParentsWait
  <2>3. CASE q = p
    <3>1. Parent[p] # p => proc'[Parent[p]] = proc[Parent[p]]
      BY <1>1, <2>1, <2>3
    <3>2. proc'[p] \notin Absent \cup Over => proc[Parent[p]] = "running"
      BY <1>2, <1>4, <2>3
    <3>3. proc[Parent[p]] = "running" => Parent[p] # p
      <4> SUFFICES ASSUME Parent[p] = p, proc[p] = "running" PROVE FALSE
        OBVIOUS
      <4>1. Waits(p)
        BY <2>3 DEF Waits, Absent, Over
      <4> QED  BY <4>1, <1>4
    <3> QED  BY <1>4, <2>1, <2>3, <3>1, <3>2, <3>3
  <2>4. CASE q # p
    <3>1. proc'[q] = proc[q]
      BY <1>1, <2>1, <2>4
    <3>2. CASE Parent[q] # p
      BY <1>1, <1>2, <2>1, <3>1, <3>2
    <3>3. CASE Parent[q] = p
      <4>1. proc[q] \in Absent \cup Over
        <5> SUFFICES ASSUME proc[q] \notin Absent \cup Over PROVE FALSE
          OBVIOUS
        <5>1. proc[p] = "running" /\ Waits(p)
          BY <1>2, <3>3 DEF Waits
        <5> QED  BY <5>1, <1>4
      <4>2. proc[q] \notin Cut
        BY <1>2, <1>4, <3>3
      <4> QED  BY <3>1, <4>1, <4>2
    <3> QED  BY <3>2, <3>3
  <2> QED  BY <2>3, <2>4
<1>5. ASSUME proc' = proc PROVE ParentsWait'
  BY <1>2, <1>5 DEF ParentsWait
<1>6. CASE Build
  <2>1. ASSUME NEW e \in Event, Raised(e) PROVE ParentsWait'
    <3>1. e.process \in Processes /\ StateOf[e.kind] \in {"reported", "faulting", "ending"}
      BY EventKinds
    <3>2. proc[e.process] = "created" \/ (proc[e.process] = "running" /\ ~Waits(e.process))
      BY <2>1 DEF Raised, Runs
    <3> QED  BY <1>4, <2>1, <3>1, <3>2 DEF Raised, Cut, Over, Absent
  <2>2. ASSUME NEW p \in Processes, Spawn(p) PROVE ParentsWait'
    <3>1. proc[p] = "none" /\ proc' = [proc EXCEPT ![p] = "created"] /\ proc[Parent[p]] = "running"
      BY <2>2 DEF Spawn, Runs
    <3> QED  BY <1>4, <3>1 DEF Cut, Over, Absent
  <2>3. ASSUME NEW p \in Processes, RemoveFile(p) PROVE ParentsWait'
    BY <1>5, <2>3 DEF RemoveFile
  <2> QED  BY <1>6, <2>1, <2>2, <2>3, BuildMoves
<1>7. CASE CreateRoot
  <2>1. CASE proc' = [proc EXCEPT ![Root] = "created"]
    BY <1>1, <1>3, <1>4, <1>7, <2>1 DEF CreateRoot, Cut, Over, Absent
  <2> QED  BY <1>5, <1>7, <2>1 DEF CreateRoot
<1>8. CASE WaitForDebugEvent \/ WaitFails \/ OpenFails \/ HandleCreate \/ HandleExit \/ HandleException
  BY <1>5, <1>8 DEF WaitForDebugEvent, WaitFails, OpenFails, HandleCreate, HandleExit, HandleException,
                    buildVars
<1>9. CASE ContinueDebugEvent
  <2>1. /\ event \in Event /\ event.process \in Processes
        /\ proc[event.process] = StateOf[event.kind]
        /\ StateOf[event.kind] \in {"reported", "faulting", "ending"}
    BY <1>9, ContinueMoves, EventKinds DEF WinInv, EventsMatch, Handling
  <2>2. ASSUME NEW to \in {"running", "gone", "ending"}, proc' = [proc EXCEPT ![event.process] = to]
        PROVE  ParentsWait'
    BY <1>4, <2>1, <2>2 DEF Cut, Over, Absent
  <2> QED  BY <1>5, <1>9, <2>2, ContinueMoves DEF Continues
<1>10. CASE Ends
  <2>1. lpc # "done"
    BY <1>10 DEF Ends
  <2>2. SUFFICES ASSUME NEW p \in Awaited
                 PROVE  /\ proc'[p] \in Over \cup {"none"}
                        /\ proc'[p] \in Cut => proc'[Parent[p]] \in Cut
    BY DEF ParentsWait, Absent
  <2>3. proc'[p] \in Over \cup {"none"} /\ (proc'[p] \in Cut => proc[p] \notin Absent \cup Over)
    BY <1>1, <1>3, <1>10, <2>1, KillMoves DEF Ends, Over, Cut, Absent
  <2>4. proc[Parent[p]] = "running" => proc'[Parent[p]] \in Cut
    BY <1>1, <1>10, KillMoves DEF Ends, Cut
  <2> QED  BY <1>2, <2>3, <2>4
<1> QED  BY <1>6, <1>7, <1>8, <1>9, <1>10, StepKinds

\* A process that has run is logged, one that waits to be is not.
LEMMA StepLogMatches == ASSUME WinInv, WinNext PROVE LogMatches'
<1>1. /\ proc \in [Processes -> {"none", "created", "reported", "running", "faulting",
                                 "ending", "gone", "killed", "held", "stillborn"}]
      /\ Logged \subseteq Processes /\ Root \in Processes
      /\ \A i \in DOMAIN queue : queue[i] \in Event
  BY WinAssumption DEF WinInv, WinTypes, WinTypeOK
<1>2. /\ \A p \in Logged : proc[p] \notin {"none", "created", "stillborn"}
      /\ \A i \in DOMAIN queue : queue[i].kind = "CREATE" => queue[i].process \notin Logged
      /\ lpc = "handle" /\ event.kind = "CREATE" => event.process \notin Logged
      /\ lpc = "continue" /\ event.kind = "CREATE" /\ LogCreateProcess(event.process) =>
           event.process \in Logged
  BY DEF WinInv, LogMatches
<1> DEFINE Wanted(p) == p \notin Unreadable /\ IsInterestingBinary(Binary(p))
<1>3. \A p \in Processes : Ran(p) /\ Wanted(p) => p \in Logged
  BY DEF WinInv, LogMatches, RanMeansLogged
<1>4. ASSUME UNCHANGED <<array, compilers>>
      PROVE  /\ Logged' = Logged
             /\ \A p : Wanted(p)' = Wanted(p) /\ LogCreateProcess(p)' = LogCreateProcess(p)
  BY <1>4 DEF Logged, IsInterestingBinary, LogCreateProcess
<1>5. \A p : LogCreateProcess(p) = Wanted(p)
  BY DEF LogCreateProcess
<1> HIDE DEF Wanted
<1>6. ASSUME \A p \in Processes : Ran(p)' /\ Wanted(p)' => p \in Logged'
      PROVE  RanMeansLogged'
  BY <1>6 DEF RanMeansLogged, Wanted
\* A step that moves processes and queues no creation keeps what is logged.
<1>7. ASSUME UNCHANGED <<array, compilers>>,
             \A p \in Processes : Ran(p)' => Ran(p) \/ (Wanted(p) => p \in Logged),
             \A p \in Processes : proc[p] \notin {"none", "created", "stillborn"} =>
                                    proc'[p] \notin {"none", "created", "stillborn"},
             \A i \in DOMAIN queue' : queue'[i].kind = "CREATE" => queue'[i].process \notin Logged,
             lpc' = "handle" /\ event'.kind = "CREATE" => event'.process \notin Logged,
             lpc' = "continue" /\ event'.kind = "CREATE" =>
               lpc = "continue" /\ event' = event
      PROVE  LogMatches'
  <2>1. Logged' = Logged /\ \A p : Wanted(p)' = Wanted(p) /\ LogCreateProcess(p)' = LogCreateProcess(p)
    BY <1>4, <1>7
  <2>2. RanMeansLogged'
    BY <1>3, <1>6, <1>7, <2>1
  <2> QED  BY <1>1, <1>2, <1>7, <2>1, <2>2 DEF LogMatches
<1>8. CASE Build
  <2>1. UNCHANGED <<lpc, event, array, compilers>>
    BY <1>8, BuildMoves DEF loopVars
  <2>2. ASSUME NEW e \in Event, Raised(e) PROVE LogMatches'
    <3>1. e.process \in Processes /\ proc[e.process] \in {"created", "running"}
      BY <2>2, EventKinds DEF Raised, Runs
    <3>2. /\ \A p \in Processes : proc'[p] = IF p = e.process THEN StateOf[e.kind] ELSE proc[p]
          /\ e.kind = "CREATE" => proc[e.process] = "created"
          /\ e.kind # "CREATE" => proc[e.process] = "running"
      BY <1>1, <2>2, <3>1 DEF Raised, Runs
    <3>3. e.kind = "CREATE" => e.process \notin Logged
      BY <1>2, <3>2
    <3>4. \A i \in DOMAIN queue' : queue'[i].kind = "CREATE" => queue'[i].process \notin Logged
      BY <1>2, <2>2, <3>3, QueueGrows DEF Raised
    <3>5. \A p \in Processes : Ran(p)' => Ran(p)
      BY <3>2, EventKinds DEF Ran
    <3> QED  BY <1>2, <1>7, <2>1, <3>2, <3>4, <3>5, EventKinds
  <2>3. ASSUME NEW p \in Processes, Spawn(p) PROVE LogMatches'
    <3>1. /\ \A q \in Processes : proc'[q] = IF q = p THEN "created" ELSE proc[q]
          /\ proc[p] = "none" /\ queue' = queue
      BY <1>1, <2>3 DEF Spawn
    <3>2. \A q \in Processes : Ran(q)' => Ran(q)
      BY <3>1 DEF Ran
    <3> QED  BY <1>2, <1>7, <2>1, <3>1, <3>2
  <2>4. ASSUME NEW p \in Processes, RemoveFile(p) PROVE LogMatches'
    <3>1. proc' = proc /\ queue' = queue
      BY <2>4 DEF RemoveFile
    <3> QED  BY <1>2, <1>7, <2>1, <3>1 DEF Ran
  <2> QED  BY <1>8, <2>2, <2>3, <2>4, BuildMoves
<1>9. CASE CreateRoot
  <2>1. /\ \A p \in Processes : proc[p] = "none" /\ proc'[p] \in {"none", "created"}
        /\ UNCHANGED <<queue, event, array, compilers>> /\ lpc' \in {"wait", "done"} /\ array = <<>>
    BY <1>1, <1>9 DEF CreateRoot, loopVars, WinInv, DebuggeesOwned
  <2>2. \A p \in Processes : ~Ran(p)'
    BY <2>1 DEF Ran
  <2> QED  BY <1>2, <1>7, <2>1, <2>2
<1>10. CASE WaitForDebugEvent
  <2>1. /\ queue # <<>> /\ queue' = Tail(queue) /\ event' = Head(queue) /\ lpc' = "handle"
        /\ UNCHANGED <<proc, array, compilers>>
    BY <1>10 DEF WaitForDebugEvent
  <2>2. /\ event' = queue[1] /\ 1 \in DOMAIN queue
        /\ \A i \in DOMAIN queue' : i + 1 \in DOMAIN queue /\ queue'[i] = queue[i + 1]
    BY <2>1, QueueShrinks
  <2> QED  BY <1>2, <1>7, <2>1, <2>2 DEF Ran
<1>11. CASE WaitFails \/ OpenFails \/ HandleExit \/ HandleException
  <2>1. /\ UNCHANGED <<proc, queue, event, array, compilers>> /\ lpc' \in {"write", "continue"}
        /\ lpc' = "continue" => event.kind # "CREATE"
    BY <1>11 DEF WaitFails, OpenFails, HandleExit, HandleException, buildVars, loopVars
  <2> QED  BY <1>2, <1>7, <2>1 DEF Ran
<1>12. CASE HandleCreate
  <2>1. /\ lpc = "handle" /\ lpc' = "continue" /\ event \in Event /\ event.kind = "CREATE"
        /\ UNCHANGED <<proc, queue, event, compilers>>
        /\ Logged' = Logged \cup (IF LogCreateProcess(event.process) THEN {event.process} ELSE {})
    BY <1>12, ArrayMoves DEF buildVars
  <2>2. \A p : Wanted(p)' = Wanted(p) /\ LogCreateProcess(p)' = LogCreateProcess(p)
    BY <2>1 DEF Wanted, IsInterestingBinary, LogCreateProcess
  <2>3. /\ proc[event.process] = "reported"
        /\ \A i \in DOMAIN queue : queue[i].process # event.process
    BY <2>1, EventKinds DEF WinInv, EventsMatch, Handling
  <2>4. RanMeansLogged'
    BY <1>3, <1>6, <2>1, <2>2 DEF Ran
  <2>5. \A p \in Logged' : proc'[p] \notin {"none", "created", "stillborn"}
    BY <1>2, <2>1, <2>3
  <2>6. \A i \in DOMAIN queue' : queue'[i].kind = "CREATE" => queue'[i].process \notin Logged'
    BY <1>2, <2>1, <2>3
  <2>7. LogCreateProcess(event.process) => event.process \in Logged'
    BY <2>1
  <2> QED  BY <2>1, <2>2, <2>4, <2>5, <2>6, <2>7 DEF LogMatches
<1>13. CASE ContinueDebugEvent
  <2>1. /\ event \in Event /\ event.process \in Processes /\ lpc = "continue"
        /\ lpc' \in {"wait", "write"} /\ UNCHANGED <<event, array, compilers>>
        /\ proc[event.process] = StateOf[event.kind]
    BY <1>13, ContinueMoves, EventKinds DEF WinInv, EventsMatch, Handling
  <2>2. \A p \in Processes : proc'[p] = proc[p] \/
          (p = event.process /\ proc'[p] \in {"running", "gone", "ending"})
    BY <1>1, <1>13, <2>1, ContinueMoves DEF Continues
  <2>3. \A p \in Processes : Ran(p)' => Ran(p) \/ (Wanted(p) => p \in Logged)
    BY <1>2, <1>5, <2>1, <2>2, EventKinds DEF Ran
  <2>4. \A i \in DOMAIN queue' : queue'[i].kind = "CREATE" => queue'[i].process \notin Logged
    <3>1. Dead \in Event /\ Dead.kind = "EXIT"
      BY <2>1, EventKinds DEF Dead
    <3>2. \A i \in DOMAIN queue' : \/ i \in DOMAIN queue /\ queue'[i] = queue[i]
                                   \/ queue'[i].kind # "CREATE"
      BY <1>13, <2>1, <3>1, ContinueMoves, QueueGrows DEF Continues
    <3> QED  BY <1>2, <3>2
  <2> QED  BY <1>7, <2>1, <2>2, <2>3, <2>4
<1>14. CASE Ends
  <2>1. /\ UNCHANGED <<event, array, compilers>> /\ queue' = <<>> /\ lpc' = "done"
        /\ \A p \in Processes :
             /\ proc[p] = "created" => proc'[p] = "stillborn"
             /\ proc[p] = "reported" => proc'[p] = "held"
             /\ proc[p] \in {"running", "faulting", "ending"} => proc'[p] = "killed"
             /\ proc[p] \notin {"created", "reported", "running", "faulting", "ending"} =>
                  proc'[p] = proc[p]
    BY <1>14, KillMoves DEF Ends
  <2>2. \A p \in Processes : Ran(p)' => Ran(p)
    BY <1>1, <2>1 DEF Ran
  <2>3. \A p \in Processes : proc[p] \notin {"none", "created", "stillborn"} =>
                               proc'[p] \notin {"none", "created", "stillborn"}
    BY <1>1, <2>1
  <2> QED  BY <1>7, <2>1, <2>2, <2>3, EmptySeq
<1> QED  BY <1>8, <1>9, <1>10, <1>11, <1>12, <1>13, <1>14, StepKinds

\* Every step of the tracer and its build keeps the invariant of the debug loop.
LEMMA StepWinInv == ASSUME WinInv, WinNext PROVE WinInv'
BY StepWinTypes, StepEventsMatch, StepDebuggeesOwned, StepLogMatches, StepRootSeen, StepParentsWait DEF WinInv

\* The invariant of the debug loop is about the build, the loop and its settings only;
\* the steps of main leave these alone, but for the start of the tracer.
LEMMA FrameWinInv ==
  ASSUME WinInv, UNCHANGED <<buildVars, lpc, loopVars, compilers>>
  PROVE  WinInv'
<1>1. Logged' = Logged
  BY DEF Logged, loopVars
<1> QED  BY <1>1 DEF WinInv, WinTypes, WinTypeOK, EventsMatch, Handling, DebuggeesOwned, LogMatches,
            RanMeansLogged, Ran, RootSeen, ParentsWait, buildVars, loopVars, LogCreateProcess,
            IsInterestingBinary

\* The tracer is started on a build that has not begun.
LEMMA StartWinInv ==
  ASSUME WinInv, lpc = "off", lpc' \in {"create", "done"}, UNCHANGED <<buildVars, loopVars>>
  PROVE  WinInv'
<1>1. /\ \A p \in Processes : proc'[p] = "none"
      /\ array = <<>> /\ queue' = <<>> /\ process_running
  BY DEF WinInv, DebuggeesOwned, buildVars
<1>2. Logged' = {}
  BY <1>1 DEF Logged, loopVars
<1>3. WinTypes'
  BY <1>2 DEF WinInv, WinTypes, WinTypeOK, buildVars, loopVars
<1>4. EventsMatch' /\ DebuggeesOwned'
  BY <1>1 DEF EventsMatch, Handling, DebuggeesOwned, loopVars, Cut
<1>5. LogMatches'
  BY <1>1, <1>2 DEF LogMatches, RanMeansLogged, Ran
<1>6. RootSeen' /\ ParentsWait'
  BY <1>1, WinAssumption DEF RootSeen, ParentsWait, WinInv, loopVars, Absent, Cut
<1> QED  BY <1>3, <1>4, <1>5, <1>6 DEF WinInv

\* Before the tracer starts there is no process and no event.
LEMMA InitWinInv == WinInit => WinInv
<1> SUFFICES ASSUME WinInit PROVE WinInv
  OBVIOUS
<1>1. /\ \A p \in Processes : proc[p] = "none"
      /\ lpc = "off" /\ array = <<>> /\ queue = <<>> /\ process_running = TRUE
      /\ root_process_exit_status = 1 /\ event = NoEvent
  BY DEF WinInit, EXIT_FAILURE
<1>2. Logged = {} /\ IsList(array) /\ DOMAIN array = {}
  BY <1>1, EmptySeq DEF Logged, IsList
<1>3. WinTypes
  BY <1>1, <1>2 DEF WinTypes, WinTypeOK, WinInit, IsInjective
<1>4. EventsMatch /\ DebuggeesOwned
  BY <1>1 DEF EventsMatch, Handling, DebuggeesOwned, Cut
<1>5. LogMatches
  BY <1>1, <1>2 DEF LogMatches, RanMeansLogged, Ran
<1>6. RootSeen /\ ParentsWait
  BY <1>1, WinAssumption DEF RootSeen, ParentsWait, Absent, Cut
<1> QED  BY <1>3, <1>4, <1>5, <1>6 DEF WinInv

-----------------------------------------------------------------------------
(* What is unfolded of a command line.                                     *)

\* One argument, with what the rest of the line is from the next one and from the one
\* behind that.
Part(args, i, one, two) ==
  CASE args[i].form = "plain" -> <<args[i].text>> \o one
    [] args[i].form = "attached" -> ArgsFromResponseFile(args[i].text) \o one
    [] args[i].form = "space" /\ i < Len(args) -> ArgsFromResponseFile(args[i + 1].text) \o two
    [] OTHER -> <<>>

\* Unfold is computed from the end of the line.
LEMMA UnfoldSteps ==
  ASSUME NEW p \in Processes, Binary(p) \in compilers
  PROVE  \E T, from :
           LET args == Arguments[p]
           IN  /\ from \in [1 .. Len(args) + 2 -> Seq(T)]
               /\ Unfold(p) = from[1]
               /\ \A i \in 1 .. Len(args) + 2 :
                    from[i] = IF i > Len(args) THEN <<>>
                              ELSE Part(args, i, from[i + 1], from[i + 2])
<1> DEFINE args == Arguments[p]
           n == Len(args)
           T == {args[i].text : i \in DOMAIN args} \cup UNION {Range(Content[f]) : f \in DOMAIN Content}
           Body(f) == [i \in 1 .. n + 2 |-> IF i > n THEN <<>> ELSE Part(args, i, f[i + 1], f[i + 2])]
           from == CHOOSE f : f = Body(f)
           Pairs == Seq(T) \X Seq(T)
           Two == [j \in Nat |-> [w \in Pairs |->
                     <<IF n - j \in 1 .. n THEN Part(args, n - j, w[1], w[2]) ELSE <<>>, w[1]>>]]
<1>1. n \in Nat /\ DOMAIN args = 1 .. n
  BY WinAssumption, LenProperties
<1>2. ASSUME NEW path PROVE ArgsFromResponseFile(path) \in Seq(T)
  <2>1. ASSUME path \in DOMAIN Content PROVE Content[path] \in Seq(T)
    <3>1. Content[path] \in Seq(Range(Content[path])) /\ Range(Content[path]) \subseteq T
      BY <2>1, WinAssumption
    <3> HIDE DEF T
    <3> QED  BY <3>1, SeqMonotonic
  <2>2. <<>> \in Seq(T)
    BY EmptySeq
  <2> HIDE DEF T
  <2> QED  BY <2>1, <2>2 DEF ArgsFromResponseFile
<1>3. ASSUME NEW i \in 1 .. n, NEW one \in Seq(T), NEW two \in Seq(T)
      PROVE  Part(args, i, one, two) \in Seq(T)
  <2>1. args[i].text \in T
    BY <1>1
  <2>2. <<>> \in Seq(T)
    BY EmptySeq
  <2> HIDE DEF T, args, n
  <2>3. <<args[i].text>> \o one \in Seq(T)
    BY <2>1, ConcatProperties
  <2>4. \A path : ArgsFromResponseFile(path) \o one \in Seq(T)
                  /\ ArgsFromResponseFile(path) \o two \in Seq(T)
    BY <1>2, ConcatProperties
  <2> QED  BY <2>2, <2>3, <2>4 DEF Part
<1> HIDE DEF T, args
<1>4. Two \in [Nat -> [Pairs -> Pairs]]
  <2>1. ASSUME NEW j \in Nat, NEW w \in Pairs
        PROVE  <<IF n - j \in 1 .. n THEN Part(args, n - j, w[1], w[2]) ELSE <<>>, w[1]>> \in Pairs
    <3>1. w[1] \in Seq(T) /\ w[2] \in Seq(T) /\ <<>> \in Seq(T)
      BY <2>1, EmptySeq
    <3>2. (IF n - j \in 1 .. n THEN Part(args, n - j, w[1], w[2]) ELSE <<>>) \in Seq(T)
      BY <1>3, <3>1
    <3> QED  BY <3>1, <3>2
  <2> HIDE DEF Pairs
  <2> QED  BY <2>1
<1>5. <<<<>>, <<>>>> \in Pairs
  BY EmptySeq
<1>6. PICK g \in [Nat -> Pairs] : Follows(g, <<<<>>, <<>>>>, Two)
  <2> HIDE DEF Pairs, Two
  <2> QED  BY <1>4, <1>5, RecursionExists
<1>7. g[0] = <<<<>>, <<>>>>
      /\ \A j \in Nat : /\ g[j] \in Pairs
                        /\ g[j + 1] = <<IF n - j \in 1 .. n THEN Part(args, n - j, g[j][1], g[j][2])
                                        ELSE <<>>, g[j][1]>>
  <2>1. g[0] = <<<<>>, <<>>>> /\ \A j \in Nat : g[j] \in Pairs /\ g[j + 1] = Two[j][g[j]]
    <3> HIDE DEF Pairs, Two
    <3> QED  BY <1>6 DEF Follows
  <2> HIDE DEF Pairs
  <2> QED  BY <2>1
<1>p. \A x, a, b : x = <<a, b>> => x[1] = a /\ x[2] = b
  OBVIOUS
<1> DEFINE f == [i \in 1 .. n + 2 |-> IF i = n + 2 THEN <<>> ELSE g[n + 1 - i][1]]
<1> HIDE DEF n
<1>8. f \in [1 .. n + 2 -> Seq(T)]
  <2>1. ASSUME NEW i \in 1 .. n + 2, i # n + 2 PROVE g[n + 1 - i][1] \in Seq(T)
    <3>1. n + 1 - i \in Nat  BY <1>1, <2>1
    <3>2. g[n + 1 - i] \in Pairs  BY <1>7, <3>1
    <3> QED  BY <3>2
  <2>2. <<>> \in Seq(T)
    BY EmptySeq
  <2> QED  BY <2>1, <2>2
<1>9. ASSUME NEW i \in 1 .. n PROVE f[i] = Part(args, i, f[i + 1], f[i + 2])
  <2>1. /\ n - i \in Nat /\ n + 1 - i = (n - i) + 1 /\ n - (n - i) = i
        /\ i \in 1 .. n + 2 /\ i + 1 \in 1 .. n + 2 /\ i + 2 \in 1 .. n + 2
        /\ i # n + 2 /\ i + 1 # n + 2 /\ n + 1 - (i + 1) = n - i
    BY <1>1
  <2>2. f[i] = g[(n - i) + 1][1]
    BY <2>1
  <2>3. f[i] = Part(args, i, g[n - i][1], g[n - i][2])
    <3> HIDE DEF f
    <3>1. g[(n - i) + 1] = <<IF n - (n - i) \in 1 .. n THEN Part(args, n - (n - i), g[n - i][1], g[n - i][2])
                             ELSE <<>>, g[n - i][1]>>
      BY <1>7, <2>1
    <3>2. g[(n - i) + 1] = <<Part(args, i, g[n - i][1], g[n - i][2]), g[n - i][1]>>
      BY <2>1, <3>1
    <3> QED  BY <1>p, <2>2, <3>2
  <2>4. g[n - i][1] = f[i + 1]
    BY <2>1
  <2>5. g[n - i][2] = f[i + 2]
    <3>1. CASE i = n
      <4>1. n - i = 0 /\ i + 2 = n + 2  BY <1>1, <3>1
      <4>2. f[i + 2] = <<>>  BY <2>1, <4>1
      <4>3. g[n - i] = <<<<>>, <<>>>>  BY <1>7, <4>1
      <4> QED  BY <1>p, <4>2, <4>3
    <3>2. CASE i # n
      <4>1. n - i - 1 \in Nat /\ n - i = (n - i - 1) + 1 /\ n + 1 - (i + 2) = n - i - 1 /\ i + 2 # n + 2
        BY <1>1, <3>2
      <4>2. g[n - i][2] = g[n - i - 1][1]
        <5> HIDE DEF f
        <5>1. \A j \in Nat : g[j + 1][2] = g[j][1]
          BY <1>7, <1>p
        <5>2. g[(n - i - 1) + 1][2] = g[n - i - 1][1]
          BY <4>1, <5>1
        <5> QED  BY <4>1, <5>2
      <4>3. f[i + 2] = g[n - i - 1][1]
        BY <2>1, <4>1
      <4> QED  BY <4>2, <4>3
    <3> QED  BY <3>1, <3>2
  <2> HIDE DEF f
  <2> QED  BY <2>3, <2>4, <2>5
<1>10. f[n + 1] = <<>> /\ f[n + 2] = <<>>
  <2>1. f[n + 1] = g[0][1]
    BY <1>1
  <2> QED  BY <1>1, <1>7, <2>1
<1>11. f = Body(f)
  <2>1. \A i \in 1 .. n + 2 : f[i] = IF i > n THEN <<>> ELSE Part(args, i, f[i + 1], f[i + 2])
    <3> HIDE DEF f
    <3> SUFFICES ASSUME NEW i \in 1 .. n + 2
                 PROVE  f[i] = IF i > n THEN <<>> ELSE Part(args, i, f[i + 1], f[i + 2])
      OBVIOUS
    <3>1. CASE i \in 1 .. n
      <4>1. ~(i > n)  BY <1>1, <3>1
      <4> QED  BY <1>9, <3>1, <4>1
    <3>2. CASE i \notin 1 .. n
      <4>1. i > n /\ (i = n + 1 \/ i = n + 2)  BY <1>1, <3>2
      <4> QED  BY <1>10, <4>1
    <3> QED  BY <3>1, <3>2
  <2>2. f = [i \in 1 .. n + 2 |-> f[i]]
    OBVIOUS
  <2> HIDE DEF f
  <2> QED  BY <2>1, <2>2
<1>12. from = Body(from)
  <2> HIDE DEF Body, f
  <2> QED  BY <1>11
<1>13. Unfold(p) = from[1]
  <2>1. Argv(p) = args
    BY DEF Argv, args
  <2> QED  BY <2>1 DEF Unfold, Part, n
<1> HIDE DEF from
<1>14. /\ \A i \in 1 .. n + 2 : from[i] = IF i > n THEN <<>> ELSE Part(args, i, from[i + 1], from[i + 2])
       /\ DOMAIN from = 1 .. n + 2 /\ from = [i \in 1 .. n + 2 |-> from[i]]
  <2>1. DOMAIN from = 1 .. n + 2
    BY <1>12
  <2>2. \A i \in 1 .. n + 2 : from[i] = Body(from)[i]
    <3> HIDE DEF Body
    <3> QED  BY <1>12
  <2>3. from = [i \in 1 .. n + 2 |-> from[i]]
    BY <1>12
  <2> QED  BY <2>1, <2>2, <2>3
<1> DEFINE Typed == {j \in Nat : \A i \in 1 .. n + 2 : i + j >= n + 1 => from[i] \in Seq(T)}
<1>15. 0 \in Typed
  <2> SUFFICES ASSUME NEW i \in 1 .. n + 2, i + 0 >= n + 1 PROVE from[i] \in Seq(T)
    OBVIOUS
  <2>1. i > n
    BY <1>1
  <2> QED  BY <1>14, <2>1, EmptySeq
<1>16. ASSUME NEW j \in Nat, j \in Typed PROVE j + 1 \in Typed
  <2> SUFFICES ASSUME NEW i \in 1 .. n + 2, i + (j + 1) >= n + 1 PROVE from[i] \in Seq(T)
    BY <1>16
  <2>1. CASE i > n
    BY <1>14, <2>1, EmptySeq
  <2>2. CASE ~(i > n)
    <3>1. /\ i \in 1 .. n /\ i + 1 \in 1 .. n + 2 /\ i + 2 \in 1 .. n + 2
          /\ (i + 1) + j >= n + 1 /\ (i + 2) + j >= n + 1
      BY <1>1, <2>2
    <3>2. from[i + 1] \in Seq(T) /\ from[i + 2] \in Seq(T)
      BY <1>16, <3>1
    <3>3. from[i] = Part(args, i, from[i + 1], from[i + 2])
      BY <1>14, <2>2
    <3> QED  BY <1>3, <3>1, <3>2, <3>3
  <2> QED  BY <2>1, <2>2
<1>17. from \in [1 .. n + 2 -> Seq(T)]
  <2>1. n + 1 \in Typed
    <3> HIDE DEF Typed
    <3> QED  BY <1>1, <1>15, <1>16, SetInduction
  <2>2. \A i \in 1 .. n + 2 : from[i] \in Seq(T)
    BY <1>1, <2>1
  <2> QED  BY <1>14, <2>2
<1>18. \A i \in 1 .. Len(args) + 2 :
         from[i] = IF i > Len(args) THEN <<>> ELSE Part(args, i, from[i + 1], from[i + 2])
  BY <1>14 DEF n
<1>19. from \in [1 .. Len(args) + 2 -> Seq(T)]
  BY <1>17 DEF n
<1> QED  BY <1>13, <1>18, <1>19 DEF args

\* Every option that names a file is replaced by what the file holds, if it is there.
LEMMA UnfoldMeans ==
  ASSUME OwnResponseFiles, NEW p \in Processes, Binary(p) \in compilers,
         p # Root /\ ResponseFile[p] # NoFile => ResponseFile[p] \in files
  PROVE  Range(Unfold(p)) = Meant(Arguments[p])
<1> DEFINE args == Arguments[p]
           n == Len(args)
           Operand(k) == IsOperand(args, k)
           Piece(k) == IF args[k].form = "plain" /\ ~Operand(k) THEN {args[k].text}
                       ELSE IF args[k].form = "attached" \/ Operand(k)
                       THEN Range(Content[args[k].text]) ELSE {}
           Rest(i) == UNION {Piece(k) : k \in {k \in Reached(args) : k >= i}}
<1>1. n \in Nat /\ DOMAIN args = 1 .. n
  BY WinAssumption, LenProperties
<1>2. \A i \in 1 .. n : args[i].form \in {"plain", "attached", "space", "equal"}
  BY <1>1, WinAssumption DEF Forms
<1>3. \A k \in 1 .. n : Operand(k) => args[k].form = "plain"
  BY <1>1 DEF OwnResponseFiles
<1>4. ASSUME NEW k \in Reached(args), args[k].form = "attached" \/ Operand(k)
      PROVE  ArgsFromResponseFile(args[k].text) = Content[args[k].text]
  BY <1>4 DEF OwnResponseFiles, ArgsFromResponseFile
<1>5. \A k : Operand(k) <=> k > 1 /\ args[k - 1].form = "space"
  BY DEF IsOperand
<1>6. \A k : k \in Reached(args) <=> k \in 1 .. n /\ \A j \in 1 .. k : args[j].form # "equal"
  BY <1>1 DEF Reached
<1>7. Meant(args) = Rest(1)
  <2>1. \A k \in Reached(args) : k >= 1
    BY <1>6
  <2>2. {k \in Reached(args) : k >= 1} = Reached(args)
    BY <2>1
  <2>3. Rest(1) = UNION {Piece(k) : k \in Reached(args)}
    BY <2>2
  <2> QED  BY <2>3 DEF Meant
<1>8. PICK T, from :
        /\ from \in [1 .. n + 2 -> Seq(T)]
        /\ Unfold(p) = from[1]
        /\ \A i \in 1 .. n + 2 :
             from[i] = IF i > n THEN <<>> ELSE Part(args, i, from[i + 1], from[i + 2])
  BY UnfoldSteps
<1> HIDE DEF args, n, Operand
\* Where an argument begins and nothing has ended the loop, the rest is unfolded.
<1> DEFINE Begins(i) == ~Operand(i) /\ \A j \in 1 .. i - 1 : args[j].form # "equal"
           Right == {m \in Nat : \A i \in 1 .. n + 1 :
                       i + m >= n + 1 /\ Begins(i) => Range(from[i]) = Rest(i)}
<1>9. Range(<<>>) = {}
  BY EmptySeq DEF Range
<1>10. ASSUME NEW i \in 1 .. n + 1, i > n PROVE Range(from[i]) = Rest(i)
  <2>1. from[i] = <<>> /\ \A k \in Reached(args) : ~(k >= i)
    BY <1>1, <1>6, <1>8, <1>10
  <2>2. Rest(i) = {}
    BY <2>1
  <2> QED  BY <1>9, <2>1, <2>2
<1>11. 0 \in Right
  <2>1. ASSUME NEW i \in 1 .. n + 1, i + 0 >= n + 1 PROVE i > n
    BY <1>1, <2>1
  <2> QED  BY <1>10, <2>1
\* The rest from i is the piece at i and the rest behind it.
<1>12. ASSUME NEW i \in 1 .. n, Begins(i)
       PROVE  Rest(i) = IF args[i].form = "equal" THEN {} ELSE Piece(i) \cup Rest(i + 1)
  <2>1. CASE args[i].form = "equal"
    <3>1. \A k \in Reached(args) : ~(k >= i)
      BY <1>1, <1>6, <2>1
    <3> QED  BY <2>1, <3>1
  <2>2. CASE args[i].form # "equal"
    <3>1. i \in Reached(args)
      BY <1>1, <1>6, <1>12, <2>2
    <3>2. {k \in Reached(args) : k >= i} = {i} \cup {k \in Reached(args) : k >= i + 1}
      BY <1>1, <1>6, <3>1
    <3> HIDE DEF Piece
    <3>3. Rest(i) = Piece(i) \cup Rest(i + 1)
      BY <3>2
    <3> QED  BY <2>2, <3>3
  <2> QED  BY <2>1, <2>2
<1> HIDE DEF Rest
<1>13. ASSUME NEW m \in Nat, m \in Right PROVE m + 1 \in Right
  <2> SUFFICES ASSUME NEW i \in 1 .. n + 1, i + (m + 1) >= n + 1, Begins(i)
               PROVE  Range(from[i]) = Rest(i)
    OBVIOUS
  <2>1. CASE i > n
    BY <1>10, <2>1
  <2>2. CASE ~(i > n)
    <3> DEFINE a == args[i]
    <3>1. /\ i \in 1 .. n /\ i \in 1 .. n + 2 /\ i + 1 \in 1 .. n + 2 /\ i + 2 \in 1 .. n + 2
          /\ i + 1 \in 1 .. n + 1 /\ (i + 1) + m >= n + 1
      BY <1>1, <2>2
    <3>2. /\ from[i] = Part(args, i, from[i + 1], from[i + 2])
          /\ from[i + 1] \in Seq(T) /\ from[i + 2] \in Seq(T) /\ from[i] \in Seq(T)
      BY <1>8, <2>2, <3>1
    <3>3. a.form \in {"plain", "attached", "space", "equal"}
      BY <1>2, <3>1
    <3>4. Rest(i) = IF a.form = "equal" THEN {} ELSE Piece(i) \cup Rest(i + 1)
      BY <1>12, <3>1
    <3>5. a.form # "equal" => i \in Reached(args) /\ \A j \in 1 .. i : args[j].form # "equal"
      BY <1>1, <1>6, <3>1
    <3>6. a.form \in {"plain", "attached"} => Range(from[i + 1]) = Rest(i + 1)
      <4> SUFFICES ASSUME a.form \in {"plain", "attached"} PROVE Range(from[i + 1]) = Rest(i + 1)
        OBVIOUS
      <4>1. ~Operand(i + 1)
        BY <1>5, <3>1
      <4>2. Begins(i + 1)
        BY <3>1, <3>5, <4>1
      <4> QED  BY <1>13, <3>1, <4>2
    <3>7. CASE a.form = "plain"
      <4>1. from[i] = <<a.text>> \o from[i + 1]
        BY <3>2, <3>7 DEF Part
      <4>2. <<a.text>> \in Seq(T \cup {a.text}) /\ from[i + 1] \in Seq(T \cup {a.text})
        BY <3>2, SeqMonotonic
      <4>3. Range(from[i]) = Range(<<a.text>>) \cup Range(from[i + 1])
        <5> DEFINE one == <<a.text>>
        <5>1. one \in Seq(T \cup {a.text}) /\ from[i] = one \o from[i + 1]
          BY <4>1, <4>2
        <5> HIDE DEF one
        <5>2. Range(from[i]) = Range(one) \cup Range(from[i + 1])
          BY <4>2, <5>1, RangeConcatenation
        <5> QED  BY <5>2 DEF one
      <4>4. Range(<<a.text>>) = {a.text}
        BY DEF Range
      <4>5. Piece(i) = {a.text}
        BY <3>7
      <4> QED  BY <3>4, <3>6, <3>7, <4>3, <4>4, <4>5
    <3>8. CASE a.form = "attached"
      <4>1. /\ from[i] = ArgsFromResponseFile(a.text) \o from[i + 1]
            /\ ArgsFromResponseFile(a.text) = Content[a.text]
        BY <1>4, <3>2, <3>5, <3>8 DEF Part
      <4>2. Piece(i) = Range(Content[a.text])
        BY <3>8
      <4>3. a.text \in DOMAIN Content
        BY <3>5, <3>8 DEF OwnResponseFiles, args
      <4>4. /\ Content[a.text] \in Seq(T \cup Range(Content[a.text]))
            /\ from[i + 1] \in Seq(T \cup Range(Content[a.text]))
        BY <3>2, <4>3, WinAssumption, SeqMonotonic
      <4>5. Range(from[i]) = Range(Content[a.text]) \cup Range(from[i + 1])
        BY <4>1, <4>4, RangeConcatenation
      <4> QED  BY <3>4, <3>6, <3>8, <4>2, <4>5
    <3>9. CASE a.form = "space" /\ i < n
      <4> DEFINE b == args[i + 1]
      <4>1. /\ i + 1 \in 1 .. n /\ i + 2 \in 1 .. n + 1 /\ (i + 2) + m >= n + 1
            /\ (i + 1) - 1 = i /\ (i + 2) - 1 = i + 1 /\ i + 1 > 1 /\ (i + 1) + 1 = i + 2
        <5>1. i < n /\ m \in Nat
          BY <1>13, <3>9
        <5> QED  BY ONLY <1>1, <3>1, <5>1
      <4>2. Operand(i + 1) /\ b.form = "plain" /\ ~Operand(i + 2)
        BY <1>3, <1>5, <3>9, <4>1
      <4>3. i + 1 \in Reached(args)
        <5>1. \A j \in 1 .. i + 1 : j \in 1 .. i \/ j = i + 1
          BY <3>1
        <5> QED  BY <1>6, <3>5, <3>9, <4>1, <4>2, <5>1
      <4>4. Begins(i + 2)
        <5>1. \A j \in 1 .. (i + 2) - 1 : j \in 1 .. i + 1
          BY <3>1
        <5> QED  BY <1>6, <4>2, <4>3, <5>1
      <4>5. Range(from[i + 2]) = Rest(i + 2)
        BY <1>13, <4>1, <4>4
      <4>6. Rest(i + 1) = Piece(i + 1) \cup Rest(i + 2)
        <5>1. \A k \in Reached(args) : k >= i + 1 <=> k = i + 1 \/ k >= i + 2
          BY <1>6, <3>1
        <5>2. {k \in Reached(args) : k >= i + 1} = {i + 1} \cup {k \in Reached(args) : k >= i + 2}
          BY <4>3, <5>1
        <5> HIDE DEF Piece
        <5> QED  BY <5>2 DEF Rest
      <4>7. Piece(i) = {} /\ Piece(i + 1) = Range(Content[b.text])
        BY <3>9, <4>2
      <4>8. /\ from[i] = ArgsFromResponseFile(b.text) \o from[i + 2]
            /\ ArgsFromResponseFile(b.text) = Content[b.text]
        BY <1>4, <3>2, <3>9, <4>2, <4>3 DEF Part, n
      <4>9. b.text \in DOMAIN Content
        BY <4>2, <4>3 DEF OwnResponseFiles, args, Operand
      <4>10. /\ Content[b.text] \in Seq(T \cup Range(Content[b.text]))
             /\ from[i + 2] \in Seq(T \cup Range(Content[b.text]))
        BY <3>2, <4>9, WinAssumption, SeqMonotonic
      <4>11. Range(from[i]) = Range(Content[b.text]) \cup Range(from[i + 2])
        BY <4>8, <4>10, RangeConcatenation
      <4> QED  BY <3>4, <3>9, <4>5, <4>6, <4>7, <4>11
    <3>10. CASE a.form = "space" /\ ~(i < n)
      <4>1. from[i] = <<>>
        BY <3>2, <3>10 DEF Part, n
      <4>2. Piece(i) = {}
        BY <3>10
      <4>3. Rest(i + 1) = {}
        <5>1. \A k \in Reached(args) : ~(k >= i + 1)
          BY <1>1, <1>6, <3>1, <3>10
        <5> QED  BY <5>1 DEF Rest
      <4> QED  BY <1>9, <3>4, <3>10, <4>1, <4>2, <4>3
    <3>11. CASE a.form = "equal"
      <4>1. from[i] = <<>>
        BY <3>2, <3>11 DEF Part
      <4> QED  BY <1>9, <3>4, <3>11, <4>1
    <3> QED  BY <3>3, <3>7, <3>8, <3>9, <3>10, <3>11
  <2> QED  BY <2>1, <2>2
<1>14. n \in Right
  <2> HIDE DEF Right
  <2> QED  BY <1>1, <1>11, <1>13, SetInduction
<1>15. Begins(1)
  BY <1>5
<1>16. Range(from[1]) = Rest(1)
  <2>1. 1 \in 1 .. n + 1 /\ 1 + n >= n + 1
    BY <1>1
  <2> QED  BY <1>14, <1>15, <2>1
<1> QED  BY <1>7, <1>8, <1>16 DEF args

\* The response file of a process that stands still for its first event is still there.
FilesThere ==
  \A p \in Processes \ {Root} :
    proc[p] \in {"created", "reported"} /\ ResponseFile[p] # NoFile => ResponseFile[p] \in files

ArgsInv == FilesThere /\ ArgumentsKept

\* It was written before the process was created, and is removed after its end.
LEMMA StepFilesThere ==
  ASSUME OwnResponseFiles, WinInv, FilesThere, WinNext
  PROVE  FilesThere'
<1>1. DOMAIN proc = Processes
  BY DEF WinInv, WinTypes, WinTypeOK
<1> SUFFICES ASSUME NEW p \in Processes \ {Root},
                    proc'[p] \in {"created", "reported"}, ResponseFile[p] # NoFile
             PROVE  ResponseFile[p] \in files'
  BY DEF FilesThere
<1>2. proc[p] \in {"created", "reported"} => ResponseFile[p] \in files
  BY DEF FilesThere
<1>3. CASE Build
  <2>1. ASSUME NEW e \in Event, Raised(e) PROVE ResponseFile[p] \in files'
    <3>1. files' = files /\ proc' = [proc EXCEPT ![e.process] = StateOf[e.kind]]
          /\ (e.kind = "CREATE" => proc[e.process] = "created")
      BY <2>1 DEF Raised
    <3>2. e.kind \in {"CREATE", "EXCEPTION", "EXIT"}
          /\ StateOf["EXCEPTION"] = "faulting" /\ StateOf["EXIT"] = "ending"
      BY EventKinds DEF StateOf
    <3> QED  BY <1>1, <1>2, <3>1, <3>2
  <2>2. ASSUME NEW q \in Processes, Spawn(q) PROVE ResponseFile[p] \in files'
    <3>1. proc' = [proc EXCEPT ![q] = "created"]
          /\ files' = files \cup ({ResponseFile[q]} \ {NoFile})
      BY <2>2 DEF Spawn
    <3> QED  BY <1>1, <1>2, <3>1
  <2>3. ASSUME NEW q \in Processes, RemoveFile(q) PROVE ResponseFile[p] \in files'
    <3>1. proc' = proc /\ proc[q] = "gone" /\ files' = files \ {ResponseFile[q]}
      BY <2>3 DEF RemoveFile
    <3>2. q # p
      BY <3>1
    <3>3. ResponseFile[q] # ResponseFile[p]
      BY <3>2 DEF OwnResponseFiles
    <3> QED  BY <1>2, <3>1, <3>3
  <2> QED  BY <1>3, <2>1, <2>2, <2>3, BuildMoves
<1>4. CASE CreateRoot
  <2>1. files' = files /\ proc'[p] = proc[p]
    BY <1>1, <1>4 DEF CreateRoot
  <2> QED  BY <1>2, <2>1
<1>5. CASE WaitForDebugEvent \/ WaitFails \/ OpenFails \/ HandleCreate \/ HandleExit \/ HandleException
  BY <1>2, <1>5 DEF WaitForDebugEvent, WaitFails, OpenFails, HandleCreate, HandleExit,
                    HandleException, buildVars
<1>6. CASE ContinueDebugEvent
  <2>1. files' = files
        /\ \/ proc' = proc
           \/ \E to \in {"running", "gone", "ending"} : proc' = [proc EXCEPT ![event.process] = to]
    BY <1>6, ContinueMoves DEF Continues
  <2>2. proc'[p] = proc[p]
    BY <1>1, <2>1
  <2> QED  BY <1>2, <2>1, <2>2
<1>7. CASE Ends
  <2>1. proc'[p] = proc[p] /\ files' = files
    <3>1. files' = files /\ proc[p] \in {"none", "created", "reported", "running", "faulting",
                                         "ending", "gone", "killed", "held", "stillborn"}
      BY <1>7 DEF Ends, WinInv, WinTypes, WinTypeOK
    <3> QED  BY <1>7, <3>1, KillMoves DEF Ends
  <2> QED  BY <1>2, <2>1
<1> QED  BY <1>3, <1>4, <1>5, <1>6, <1>7, StepKinds

\* An entry is made of the arguments once, when the process is logged.
LEMMA StepArguments ==
  ASSUME OwnResponseFiles, WinInv, ArgsInv, WinNext
  PROVE  ArgsInv'
<1>1. FilesThere'
  BY StepFilesThere DEF ArgsInv
<1>2. CASE ~HandleCreate
  <2>1. UNCHANGED <<array, compilers>>
    <3>1. CASE Build
      BY <3>1, BuildMoves DEF loopVars
    <3>2. CASE ContinueDebugEvent
      BY <3>2, ContinueMoves
    <3> QED  BY <1>2, <3>1, <3>2, StepKinds DEF CreateRoot, WaitForDebugEvent, WaitFails, OpenFails,
              HandleExit, HandleException, Ends, loopVars
  <2> QED  BY <1>1, <2>1 DEF ArgsInv, ArgumentsKept
<1>3. CASE HandleCreate
  <2> DEFINE p == event.process
             e == [process |-> p, arguments |-> Unfold(p)]
  <2>1. /\ array' = IF LogCreateProcess(p) THEN Append(array, e) ELSE array
        /\ compilers' = compilers
    BY <1>3 DEF HandleCreate
  <2>2. p \in Processes /\ proc[p] = "reported"
    BY <1>3, ArrayMoves, EventKinds DEF HandleCreate, WinInv, EventsMatch, Handling
  <2>3. Binary(p) \in compilers => Range(Unfold(p)) = Meant(Arguments[p])
    <3>1. p # Root /\ ResponseFile[p] # NoFile => ResponseFile[p] \in files
      BY <2>2 DEF ArgsInv, FilesThere
    <3> HIDE DEF p
    <3> QED  BY <2>2, <3>1, UnfoldMeans
  <2>4. e.process = p /\ e.arguments = Unfold(p)
    OBVIOUS
  <2> HIDE DEF e, p
  <2>5. CASE ~LogCreateProcess(p)
    BY <1>1, <2>1, <2>5 DEF ArgsInv, ArgumentsKept
  <2>6. CASE LogCreateProcess(p)
    <3>1. /\ DOMAIN array' = DOMAIN array \cup {Len(array) + 1}
          /\ \A i \in DOMAIN array : array'[i] = array[i]
          /\ array'[Len(array) + 1] = e
      <4>1. array \in Seq(Range(array)) /\ array' = Append(array, e)
        BY <2>1, <2>6 DEF WinInv, WinTypes, IsList
      <4>2. /\ Len(array) \in Nat /\ DOMAIN array = 1 .. Len(array)
            /\ DOMAIN array' = 1 .. Len(array) + 1
            /\ \A i \in 1 .. Len(array) : array'[i] = array[i]
            /\ array'[Len(array) + 1] = e
        BY <4>1, AppendAny
      <4> QED  BY <4>2
    <3>2. ArgumentsKept
      BY DEF ArgsInv
    <3>3. ASSUME NEW i \in DOMAIN array', Binary(array'[i].process) \in compilers
          PROVE  Range(array'[i].arguments) = Meant(Arguments[array'[i].process])
      <4>1. CASE i \in DOMAIN array
        BY <3>1, <3>2, <3>3, <4>1 DEF ArgumentsKept
      <4>2. CASE i = Len(array) + 1
        BY <2>3, <2>4, <3>1, <3>3, <4>2
      <4> QED  BY <3>1, <4>1, <4>2
    <3>4. ArgumentsKept'
      BY <2>1, <3>3 DEF ArgumentsKept
    <3> QED  BY <1>1, <3>4 DEF ArgsInv
  <2> QED  BY <2>5, <2>6
<1> QED  BY <1>2, <1>3

\* Nothing of this changes outside of the tracer, and nothing is there at its start.
LEMMA FrameArguments ==
  ASSUME ArgsInv, UNCHANGED <<buildVars, loopVars>>, compilers' = compilers \/ array = <<>>
  PROVE  ArgsInv'
<1>1. FilesThere'
  BY DEF ArgsInv, FilesThere, buildVars
<1>2. CASE compilers' = compilers
  BY <1>1, <1>2 DEF ArgsInv, ArgumentsKept, loopVars
<1>3. CASE array = <<>>
  <2>1. DOMAIN array' = {}
    BY <1>3, EmptySeq DEF loopVars
  <2> QED  BY <1>1, <2>1 DEF ArgsInv, ArgumentsKept
<1> QED  BY <1>2, <1>3

\* Before the tracer starts there is no command and nothing logged of one.
LEMMA InitArguments == WinInit => ArgsInv
<1> SUFFICES ASSUME WinInit PROVE ArgsInv
  OBVIOUS
<1>1. DOMAIN array = {} /\ \A p \in Processes : proc[p] = "none"
  BY EmptySeq DEF WinInit
<1> QED  BY <1>1 DEF ArgsInv, FilesThere, ArgumentsKept

-----------------------------------------------------------------------------
(* What the invariant means for the properties.                            *)

\* A process that is cut off is awaited by none but those cut off with it.
LEMMA DetachedKilled == WinInv => OnlyDetachedKilled
<1> SUFFICES ASSUME WinInv, lpc = "done", ~process_running, NEW p \in Processes, proc[p] \in Cut
             PROVE  p # Root /\ (p \in Awaited => proc[Parent[p]] \in Cut)
  BY DEF OnlyDetachedKilled
<1>1. proc[Root] = "gone"
  BY DEF WinInv, RootSeen
<1> QED  BY <1>1 DEF WinInv, ParentsWait, Cut

\* The abstract log, as the Windows tracer has it.
Issued     == {p \in Processes : proc[p] \notin {"none", "created", "stillborn"}}
ProcessLog == [i \in DOMAIN array |-> array[i].process]
LogStatus  == IF lpc # "done" THEN "recording"
              ELSE IF out_file.by = "this" THEN "complete" ELSE "broken"

\* The variables of the abstract log, as state functions of the tracer.
LEMMA LogVariables == WinLog!vars = <<Issued, ProcessLog, LogStatus>>
BY DEF WinLog!vars, Issued, ProcessLog, LogStatus

\* A step that issues and logs nothing may end the log.
LEMMA LogStutters ==
  ASSUME Issued' = Issued, array' = array,
         \/ lpc # "done"
         \/ lpc' = "done" /\ out_file' = out_file
  PROVE  [WinLog!Next]_(WinLog!vars)
<1>1. ProcessLog' = ProcessLog
  BY DEF ProcessLog
<1>2. CASE LogStatus' = LogStatus
  BY <1>1, <1>2, LogVariables DEF Issued, ProcessLog, LogStatus, WinLog!vars
<1>3. CASE LogStatus' # LogStatus
  <2>1. LogStatus = "recording" /\ LogStatus' \in {"complete", "broken"}
    BY <1>3 DEF LogStatus
  <2>2. WinLog!End
    BY <1>1, <2>1 DEF WinLog!End, Issued, ProcessLog, LogStatus
  <2> QED  BY <2>2 DEF WinLog!Next
<1> QED  BY <1>2, <1>3

\* A step of the tracer or its build is one of the abstract log, or leaves it alone.
LEMMA StepImplementsLog == ASSUME WinInv, WinNext PROVE [WinLog!Next]_(WinLog!vars)
<1>1. /\ proc \in [Processes -> {"none", "created", "reported", "running", "faulting",
                                 "ending", "gone", "killed", "held", "stillborn"}]
      /\ Root \in Processes
  BY WinAssumption DEF WinInv, WinTypes, WinTypeOK
<1>2. CASE Build
  <2>1. UNCHANGED <<lpc, array, out_file>>
    BY <1>2, BuildMoves DEF loopVars
  <2>2. ASSUME NEW e \in Event, Raised(e) PROVE [WinLog!Next]_(WinLog!vars)
    <3>1. /\ e.process \in Processes
          /\ \A p \in Processes : proc'[p] = IF p = e.process THEN StateOf[e.kind] ELSE proc[p]
      BY <1>1, <2>2, EventKinds DEF Raised
    <3>2. CASE e.kind = "CREATE"
      <4>1. proc[e.process] = "created"
        BY <2>2, <3>2 DEF Raised
      <4>2. e.process \notin Issued /\ Issued' = Issued \cup {e.process}
        BY <3>1, <3>2, <4>1, EventKinds DEF Issued
      <4>3. ProcessLog' = ProcessLog /\ LogStatus' = LogStatus
        BY <2>1 DEF ProcessLog, LogStatus
      <4>4. WinLog!Issue(e.process)
        BY <4>2, <4>3 DEF WinLog!Issue, Issued, ProcessLog, LogStatus
      <4> QED  BY <3>1, <4>4 DEF WinLog!Next
    <3>3. CASE e.kind # "CREATE"
      <4>1. proc[e.process] = "running" /\ StateOf[e.kind] \in {"faulting", "ending"}
        BY <2>2, <3>3, EventKinds DEF Raised, Runs
      <4>2. Issued' = Issued
        BY <3>1, <4>1 DEF Issued
      <4> QED  BY <2>1, <4>2, LogStutters
    <3> QED  BY <3>2, <3>3
  <2>3. ASSUME NEW p \in Processes, Spawn(p) PROVE [WinLog!Next]_(WinLog!vars)
    <3>1. proc[p] = "none" /\ \A q \in Processes : proc'[q] = IF q = p THEN "created" ELSE proc[q]
      BY <1>1, <2>3 DEF Spawn
    <3>2. Issued' = Issued
      BY <3>1 DEF Issued
    <3> QED  BY <2>1, <3>2, LogStutters
  <2>4. ASSUME NEW p \in Processes, RemoveFile(p) PROVE [WinLog!Next]_(WinLog!vars)
    <3>1. Issued' = Issued
      BY <2>4 DEF RemoveFile, Issued
    <3> QED  BY <2>1, <3>1, LogStutters
  <2> QED  BY <1>2, <2>2, <2>3, <2>4, BuildMoves
<1>3. CASE CreateRoot
  <2>1. \A p \in Processes : proc[p] = "none" /\ proc'[p] \in {"none", "created"}
    BY <1>1, <1>3 DEF CreateRoot, WinInv, DebuggeesOwned
  <2>2. Issued' = Issued
    BY <2>1 DEF Issued
  <2> QED  BY <1>3, <2>2, LogStutters DEF CreateRoot, loopVars
<1>4. CASE WaitForDebugEvent \/ WaitFails \/ OpenFails \/ HandleExit \/ HandleException
  <2>1. UNCHANGED <<proc, array, out_file>> /\ lpc # "done"
    BY <1>4 DEF WaitForDebugEvent, WaitFails, OpenFails, HandleExit, HandleException, buildVars, loopVars
  <2>2. Issued' = Issued
    BY <2>1 DEF Issued
  <2> QED  BY <2>1, <2>2, LogStutters
<1>5. CASE HandleCreate
  <2>1. /\ lpc = "handle" /\ lpc' = "continue" /\ event \in Event /\ event.kind = "CREATE"
        /\ UNCHANGED <<proc, out_file>>
    BY <1>5, ArrayMoves DEF buildVars
  <2>2. /\ event.process \in Processes /\ proc[event.process] = "reported"
        /\ event.process \notin Logged /\ Issued' = Issued /\ LogStatus' = LogStatus
        /\ LogStatus = "recording"
    BY <2>1, EventKinds DEF WinInv, EventsMatch, LogMatches, Handling, Issued, LogStatus
  <2>3. CASE array' = array
    BY <2>1, <2>2, <2>3, LogStutters
  <2>4. CASE array' # array
    <3>1. /\ Len(array) \in Nat /\ DOMAIN array = 1 .. Len(array)
          /\ DOMAIN array' = DOMAIN array \cup {Len(array) + 1}
          /\ \A i \in DOMAIN array : array'[i] = array[i]
          /\ array'[Len(array) + 1].process = event.process
      BY <1>5, <2>4, ArrayMoves
    <3>2. \A i \in DOMAIN array : array[i].process \in Processes
      BY DEF WinInv, WinTypes, Logged
    <3>3. ProcessLog \in Seq(Processes) /\ Len(ProcessLog) = Len(array)
      BY <3>1, <3>2 DEF ProcessLog
    <3>4. ProcessLog' = Append(ProcessLog, event.process)
      <4> DEFINE longer == Append(ProcessLog, event.process)
      <4>1. /\ DOMAIN longer = 1 .. Len(array) + 1 /\ longer[Len(array) + 1] = event.process
            /\ \A i \in 1 .. Len(array) : longer[i] = ProcessLog[i]
            /\ longer = [i \in DOMAIN longer |-> longer[i]]
        BY <2>2, <3>3
      <4> HIDE DEF longer
      <4>2. DOMAIN array' = DOMAIN longer
        BY <3>1, <4>1
      <4>3. \A i \in DOMAIN longer : longer[i] = array'[i].process
        BY <3>1, <4>1 DEF ProcessLog
      <4> QED  BY <4>1, <4>2, <4>3 DEF ProcessLog, longer
    <3>5. event.process \notin WinLog!Range(ProcessLog) /\ event.process \in Issued
      BY <2>2, <3>1 DEF ProcessLog, Logged, WinLog!Range, Issued
    <3>6. PICK p \in Processes : p = event.process
      BY <2>2
    <3>7. WinLog!Record(p)
      BY <2>2, <3>4, <3>5, <3>6 DEF WinLog!Record, Issued, ProcessLog, LogStatus
    <3> QED  BY <3>7 DEF WinLog!Next
  <2> QED  BY <2>3, <2>4
<1>6. CASE ContinueDebugEvent
  <2>1. /\ event \in Event /\ event.process \in Processes /\ lpc = "continue"
        /\ UNCHANGED <<array, out_file>> /\ proc[event.process] = StateOf[event.kind]
    BY <1>6, ContinueMoves, EventKinds DEF WinInv, EventsMatch, Handling
  <2>2. \A p \in Processes : proc'[p] = proc[p] \/
          (p = event.process /\ proc'[p] \in {"running", "gone", "ending"})
    BY <1>1, <1>6, <2>1, ContinueMoves DEF Continues
  <2>3. Issued' = Issued
    BY <2>1, <2>2, EventKinds DEF Issued
  <2> QED  BY <2>1, <2>3, LogStutters
<1>7. CASE Ends
  <2>1. array' = array /\ lpc # "done" /\ KillRest
    BY <1>7 DEF Ends
  <2>2. Issued' = Issued
    BY <1>1, <2>1, KillMoves DEF Issued
  <2> QED  BY <2>1, <2>2, LogStutters
<1> QED  BY <1>2, <1>3, <1>4, <1>5, <1>6, <1>7, StepKinds

\* Before the tracer starts the abstract log is empty.
LEMMA InitImplementsLog == WinInit => WinLog!Init
BY DEF WinInit, WinLog!Init

=============================================================================
