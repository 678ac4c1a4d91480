-------------------------- MODULE BearTracerProofs --------------------------
(* Machine-checked proofs about BearTracer, for every value of its constants. *)
EXTENDS BearTracer, ElementLemmas

-----------------------------------------------------------------------------
\* The initial state satisfies the invariant.
LEMMA InitInvariant == Init => IInv
<1> SUFFICES ASSUME Init PROVE IInv
  OBVIOUS
<1> USE BearAssumption DEF Init
<1>1. TypeOK
  <2> USE DEF TypeOK, EXIT_FAILURE, Signaled
  <2>1. spc \in {"open", "bind", "unblock", "notify", "check", "call", "accept", "read",
                 "mask", "append", "unmask", "leave", "close", "finish", "done", "failed"}
    OBVIOUS
  <2>2. /\ masked \in BOOLEAN /\ handling \in BOOLEAN /\ pending \subseteq {"SIGCHLD", "SIGINT"}
        /\ child_pid \in {0, 1} /\ child_status \in Statuses \cup {EXIT_FAILURE}
    OBVIOUS
  <2>2a. conn \in Calls \cup {NoCall} /\ got \in 0 .. Parts
    OBVIOUS
  <2>3. /\ pipe \in {"open", "ready", "closed"} /\ socket \in {"none", "listening", "closed"}
        /\ backlog \in Seq(Calls) /\ log \in Seq(Calls) /\ file \in {"none", "open", "complete"}
    OBVIOUS
  <2>4. /\ root \in {"waiting", "running", "stopped", "zombie", "reaped"}
        /\ wstatus \in Statuses \cup {Signaled} /\ sent \in [Calls -> 0 .. Parts]
        /\ cpc \in [Calls -> {"idle", "connect", "write", "exec", "ended", "refused", "killed"}]
        /\ interrupts \in 0 .. MaxInterrupts
    OBVIOUS
  <2> HIDE DEF Init
  <2> QED  BY <2>1, <2>2, <2>2a, <2>3, <2>4
<1>2. Control
  BY DEF Control, BeforeNotify, Receiving, Capacity
<1>3. Messages
  <2>1. Range(backlog) = {} /\ Range(log) = {} /\ IsInjective(backlog) /\ IsInjective(log)
    BY DEF Range, IsInjective
  <2> QED  BY <2>1 DEF Messages, Queued, Recorded, Connected
<1>4. NothingDropped /\ Losses /\ NoRefusalWhileRecording
  BY DEF NothingDropped, Losses, NoRefusalWhileRecording
<1> QED  BY <1>1, <1>2, <1>3, <1>4 DEF IInv

-----------------------------------------------------------------------------
\* Every step keeps the types.
LEMMA NextTypeOK == ASSUME IInv, [Next]_vars PROVE TypeOK'
<1> USE BearAssumption DEF IInv, TypeOK, EXIT_FAILURE, Signaled, serverVars, signalVars,
        rootVars, clientVars, ServerAt
<1>1. CASE OpenOutput
  <2>1. CASE spc' = "bind" /\ file' = "open" /\ UNCHANGED <<pipe, socket, backlog, conn, got>>
    BY <1>1, <2>1 DEF OpenOutput
  <2>2. CASE Exit /\ file' \in {"none", "open"}
    BY <1>1, <2>2 DEF OpenOutput, Exit
  <2> QED  BY <1>1, <2>1, <2>2 DEF OpenOutput
<1>2. CASE CreateSocket
  <2>1. CASE socket' = "listening" /\ spc' = "unblock" /\ UNCHANGED <<pipe, backlog, conn, got>>
    BY <1>2, <2>1 DEF CreateSocket
  <2>2. CASE Exit
    <3>1. /\ spc' = "failed" /\ pipe' \in {pipe, "closed"} /\ socket' \in {socket, "closed"}
          /\ backlog' = <<>> /\ conn' = NoCall /\ got' = 0
      BY <2>2 DEF Exit
    <3>2. UNCHANGED <<masked, child_pid, child_status, log, file, signalVars, rootVars, clientVars>>
      BY <1>2 DEF CreateSocket
    <3> QED  BY <3>1, <3>2
  <2> QED  BY <1>2, <2>1, <2>2 DEF CreateSocket
<1>3. CASE Unblock
  <2>1. masked' \in BOOLEAN /\ spc' = "notify"  BY <1>3 DEF Unblock
  <2>2. UNCHANGED <<child_pid, child_status, conn, got, log, file, signalVars,
                    pipe, socket, backlog, rootVars, clientVars>>
    BY <1>3 DEF Unblock
  <2> QED  BY <2>1, <2>2
<1>4. CASE NotifyChild
  <2>1. CASE Exit
    <3>1. /\ spc' = "failed" /\ pipe' \in {pipe, "closed"} /\ socket' \in {socket, "closed"}
          /\ backlog' = <<>> /\ conn' = NoCall /\ got' = 0
      BY <2>1 DEF Exit
    <3>2. UNCHANGED <<masked, child_pid, child_status, log, file, signalVars, rootVars, clientVars>>
      BY <1>4 DEF NotifyChild
    <3> QED  BY <3>1, <3>2
  <2> QED  BY <1>4, <2>1 DEF NotifyChild
<1>5. CASE CheckChild  BY <1>5 DEF CheckChild
<1>6. CASE CallAccept \/ WakeAccept
  <2>1. CASE backlog # <<>> /\ TakeConnection
    <3>1. Head(backlog) \in Calls /\ Tail(backlog) \in Seq(Calls)
      BY <2>1, TailElements
    <3>2. /\ conn' = Head(backlog) /\ backlog' = Tail(backlog) /\ got' = 0 /\ spc' = "read"
          /\ UNCHANGED <<masked, child_pid, child_status, log, file, signalVars,
                         pipe, socket, rootVars, clientVars>>
      BY <1>6, <2>1 DEF CallAccept, WakeAccept, TakeConnection
    <3> QED  BY <3>1, <3>2
  <2>2. CASE spc' = "accept" /\ UNCHANGED <<conn, got, backlog>>
    <3>1. UNCHANGED <<masked, child_pid, child_status, log, file, signalVars,
                      pipe, socket, rootVars, clientVars>>
      BY <1>6 DEF CallAccept, WakeAccept
    <3> QED  BY <2>2, <3>1
  <2> QED  BY <1>6, <2>1, <2>2 DEF CallAccept, WakeAccept
<1>7. CASE ReadPart
  <2>1. got' \in 0 .. Parts  BY <1>7 DEF ReadPart, Control
  <2> QED  BY <1>7, <2>1 DEF ReadPart
<1>8. CASE MaskForAppend  BY <1>8 DEF MaskForAppend
<1>9. CASE AppendOutput
  <2>1. conn \in Recordable => Append(log, conn) \in Seq(Calls)
    BY AppendElements DEF Recordable
  <2>2. log' \in Seq(Calls)  BY <1>9, <2>1 DEF AppendOutput
  <2> QED  BY <1>9, <2>2 DEF AppendOutput
<1>10. CASE UnmaskAfterAppend
  <2>1. masked' \in BOOLEAN /\ spc' = "check"  BY <1>10 DEF UnmaskAfterAppend
  <2>2. UNCHANGED <<child_pid, child_status, conn, got, log, file, signalVars,
                    pipe, socket, backlog, rootVars, clientVars>>
    BY <1>10 DEF UnmaskAfterAppend
  <2> QED  BY <2>1, <2>2
<1>11. CASE MaskAtEnd  BY <1>11 DEF MaskAtEnd
<1>12. CASE CloseSocket  BY <1>12 DEF CloseSocket
<1>13. CASE Finish  BY <1>13 DEF Finish
<1>14. CASE DeliverSIGCHLD \/ DeliverSIGINT
  <2>1. pending' \subseteq {"SIGCHLD", "SIGINT"} /\ handling' \in BOOLEAN
    BY <1>14 DEF DeliverSIGCHLD, DeliverSIGINT
  <2>2. UNCHANGED <<masked, child_pid, child_status, log, file, interrupts, root, wstatus, cpc, sent>>
    BY <1>14 DEF DeliverSIGCHLD, DeliverSIGINT
  <2>3. Interrupt \/ UNCHANGED <<spc, pipe, socket, backlog, conn, got>>
    BY <1>14 DEF DeliverSIGCHLD, DeliverSIGINT
  <2>4. CASE UNCHANGED <<pipe, socket, backlog, conn, got>> /\ spc' \in {spc, "leave"}
    BY <2>1, <2>2, <2>4
  <2>5. CASE Exit
    <3>1. /\ spc' = "failed" /\ pipe' \in {pipe, "closed"} /\ socket' \in {socket, "closed"}
          /\ backlog' = <<>> /\ conn' = NoCall /\ got' = 0
      BY <2>5 DEF Exit
    <3> QED  BY <2>1, <2>2, <3>1
  <2> QED  BY <2>3, <2>4, <2>5 DEF Interrupt
<1>15. CASE Reap
  <2>1. /\ root' \in {"waiting", "running", "stopped", "zombie", "reaped"}
        /\ child_status' \in Statuses \cup {EXIT_FAILURE} /\ child_pid' \in {0, 1}
        /\ handling' \in BOOLEAN
    BY <1>15 DEF Reap, Decode
  <2>2. UNCHANGED <<spc, masked, conn, got, log, file, pending, interrupts, pipe, socket,
                    backlog, wstatus, cpc, sent>>
    BY <1>15 DEF Reap
  <2> QED  BY <2>1, <2>2
<1>16. CASE RootStart  BY <1>16 DEF RootStart
<1>17. CASE RootKilled \/ RootStopOrContinue
  <2>1. /\ root' \in {"waiting", "running", "stopped", "zombie", "reaped"}
        /\ wstatus' \in Statuses \cup {Signaled} /\ pending' \subseteq {"SIGCHLD", "SIGINT"}
    BY <1>17 DEF RootKilled, RootStopOrContinue
  <2>2. UNCHANGED <<serverVars, handling, interrupts, pipe, socket, backlog, clientVars>>
    BY <1>17 DEF RootKilled, RootStopOrContinue
  <2> QED  BY <2>1, <2>2
<1>18. CASE UserInterrupt  BY <1>18 DEF UserInterrupt
<1>19. ASSUME NEW status \in Statuses, RootExit(status) PROVE TypeOK'
  BY <1>19 DEF RootExit
<1>20. ASSUME NEW c \in Calls, StartCall(c) \/ Connect(c) \/ ConnectRefused(c) \/ WritePart(c)
                               \/ WriteBroken(c) \/ EndCall(c) \/ Die(c)
       PROVE TypeOK'
  <2>1. /\ UNCHANGED <<serverVars, signalVars, pipe, socket, rootVars>>
        /\ \E p \in {"connect", "write", "exec", "ended", "refused", "killed"} :
             cpc' = [cpc EXCEPT ![c] = p]
    BY <1>20 DEF StartCall, Connect, ConnectRefused, WritePart, WriteBroken, EndCall, Die
  <2>2. sent' \in [Calls -> 0 .. Parts]
    <3>1. CASE WritePart(c)
      <4>1. sent[c] \in 0 .. Parts /\ sent[c] < Parts  BY <3>1 DEF WritePart, Messages
      <4>2. sent[c] + 1 \in 0 .. Parts  BY <4>1
      <4> QED  BY <3>1, <4>2 DEF WritePart
    <3>2. CASE sent' = sent  BY <3>2
    <3> QED  BY <1>20, <3>1, <3>2 DEF StartCall, Connect, ConnectRefused, WriteBroken, EndCall, Die
  <2>3. backlog' \in Seq(Calls)
    <3>1. Append(backlog, c) \in Seq(Calls)  BY AppendElements
    <3> QED  BY <1>20, <3>1 DEF StartCall, Connect, ConnectRefused, WritePart, WriteBroken, EndCall, Die
  <2>4. cpc' \in [Calls -> {"idle", "connect", "write", "exec", "ended", "refused", "killed"}]
    BY <2>1
  <2> QED  BY <2>1, <2>2, <2>3, <2>4
<1>21. CASE UNCHANGED vars  BY <1>21 DEF vars
<1> QED
  BY <1>1, <1>2, <1>3, <1>4, <1>5, <1>6, <1>7, <1>8, <1>9, <1>10, <1>11, <1>12, <1>13, <1>14,
     <1>15, <1>16, <1>17, <1>18, <1>19, <1>20, <1>21 DEF Next, Server, Signals, Client

-----------------------------------------------------------------------------
\* Every step keeps the server's place, its descriptors and the pipe in line.
LEMMA NextControl == ASSUME IInv, [Next]_vars PROVE Control'
<1> USE BearAssumption DEF Control, BeforeNotify, Receiving, serverVars, signalVars,
        rootVars, clientVars, ServerAt
<1>0. TypeOK /\ Control /\ Len(backlog) \in Nat  BY DEF IInv, TypeOK
<1>1. CASE OpenOutput
  <2>1. CASE Exit  BY <1>0, <1>1, <2>1 DEF OpenOutput, Exit, Capacity
  <2> QED  BY <1>0, <1>1, <2>1 DEF OpenOutput
<1>2. CASE CreateSocket
  <2>1. CASE Exit  BY <1>0, <1>2, <2>1 DEF CreateSocket, Exit, Capacity
  <2> QED  BY <1>0, <1>2, <2>1 DEF CreateSocket
<1>3. CASE Unblock  BY <1>0, <1>3 DEF Unblock
<1>4. CASE NotifyChild
  <2>1. CASE Exit  BY <1>0, <1>4, <2>1 DEF NotifyChild, Exit, Capacity
  <2> QED  BY <1>0, <1>4, <2>1 DEF NotifyChild
<1>5. CASE CheckChild  BY <1>0, <1>5 DEF CheckChild
<1>6. CASE CallAccept \/ WakeAccept
  <2>1. CASE backlog # <<>> /\ TakeConnection
    <3>1. Head(backlog) \in Calls /\ Len(Tail(backlog)) = Len(backlog) - 1
      BY <1>0, <2>1, TailElements DEF TypeOK
    <3> QED  BY <1>0, <1>6, <2>1, <3>1 DEF CallAccept, WakeAccept, TakeConnection, Capacity
  <2>2. CASE spc' = "accept" /\ UNCHANGED <<conn, got, backlog>>
    BY <1>0, <1>6, <2>2 DEF CallAccept, WakeAccept, TakeConnection
  <2> QED  BY <1>6, <2>1, <2>2 DEF CallAccept, WakeAccept
<1>7. CASE ReadPart  BY <1>0, <1>7 DEF ReadPart
<1>8. CASE MaskForAppend  BY <1>0, <1>8 DEF MaskForAppend
<1>9. CASE AppendOutput  BY <1>0, <1>9 DEF AppendOutput
<1>10. CASE UnmaskAfterAppend  BY <1>0, <1>10 DEF UnmaskAfterAppend
<1>11. CASE MaskAtEnd  BY <1>0, <1>11 DEF MaskAtEnd
<1>12. CASE CloseSocket  BY <1>0, <1>12 DEF CloseSocket, Capacity
<1>13. CASE Finish  BY <1>0, <1>13 DEF Finish
<1>14. CASE DeliverSIGCHLD \/ DeliverSIGINT
  <2>1. UNCHANGED <<file, root, cpc>>  BY <1>14 DEF DeliverSIGCHLD, DeliverSIGINT
  <2>2. Interrupt \/ UNCHANGED <<spc, pipe, socket, backlog, conn, got>>
    BY <1>14 DEF DeliverSIGCHLD, DeliverSIGINT
  <2>3. CASE UNCHANGED <<spc, pipe, socket, backlog, conn, got>>  BY <1>0, <2>1, <2>3
  <2>4. CASE spc = "accept" /\ spc' = "leave" /\ UNCHANGED <<pipe, socket, backlog, conn, got>>
    BY <1>0, <2>1, <2>4
  <2>5. CASE spc = "read" /\ Exit  BY <1>0, <2>1, <2>5 DEF Exit, Capacity
  <2> QED  BY <2>2, <2>3, <2>4, <2>5 DEF Interrupt
<1>15. CASE Reap  BY <1>0, <1>15 DEF Reap
<1>16. CASE RootStart  BY <1>0, <1>16 DEF RootStart
<1>17. CASE RootKilled \/ RootStopOrContinue  BY <1>0, <1>17 DEF RootKilled, RootStopOrContinue
<1>18. CASE UserInterrupt  BY <1>0, <1>18 DEF UserInterrupt
<1>19. ASSUME NEW status \in Statuses, RootExit(status) PROVE Control'
  BY <1>0, <1>19 DEF RootExit
<1>20. ASSUME NEW c \in Calls, StartCall(c) \/ Connect(c) \/ ConnectRefused(c) \/ WritePart(c)
                               \/ WriteBroken(c) \/ EndCall(c) \/ Die(c)
       PROVE Control'
  <2>1. UNCHANGED <<serverVars, pipe, socket, root>> /\ pipe # "open"
    BY <1>0, <1>20 DEF StartCall, Connect, ConnectRefused, WritePart, WriteBroken, EndCall, Die, Alive
  <2>2. CASE backlog' = backlog  BY <1>0, <2>1, <2>2
  <2>3. CASE Connect(c)
    <3>1. Len(Append(backlog, c)) = Len(backlog) + 1  BY <1>0, AppendElements DEF TypeOK
    <3> QED  BY <1>0, <2>1, <2>3, <3>1 DEF Connect, Capacity
  <2> QED  BY <1>20, <2>2, <2>3 DEF StartCall, ConnectRefused, WritePart, WriteBroken, EndCall, Die
<1>21. CASE UNCHANGED vars  BY <1>0, <1>21 DEF vars
<1> QED
  BY <1>1, <1>2, <1>3, <1>4, <1>5, <1>6, <1>7, <1>8, <1>9, <1>10, <1>11, <1>12, <1>13, <1>14,
     <1>15, <1>16, <1>17, <1>18, <1>19, <1>20, <1>21 DEF Next, Server, Signals, Client

-----------------------------------------------------------------------------
(* Messages: what the steps that move a message do to it, and the others.  *)

\* Closing the socket, or losing the connection as well, forgets messages only.
LEMMA DropKeepsMessages ==
  ASSUME IInv, backlog' = <<>>, conn' = NoCall, got' \in {0, got},
         UNCHANGED <<log, cpc, sent>>, spc' \notin {"mask", "append"}
  PROVE  Messages'
<1>1. Range(backlog') = {} /\ IsInjective(backlog')
  BY DEF Range, IsInjective
<1>2. NoCall \notin Recorded
  BY BearAssumption DEF IInv, TypeOK, Recorded, Range
<1>3. Queued' = {} /\ Connected' = {NoCall} /\ Recorded' = Recorded
  BY <1>1 DEF Queued, Connected, Recorded
<1> QED
  BY <1>1, <1>2, <1>3, BearAssumption DEF IInv, Messages, Told, Recordable

\* So does a step that leaves every message where it is.
LEMMA FrameKeepsMessages ==
  ASSUME IInv, UNCHANGED <<backlog, conn, got, log, cpc, sent>>,
         spc' \in {"mask", "append"} => spc \in {"mask", "append"}
  PROVE  Messages'
<1>1. Queued' = Queued /\ Connected' = Connected /\ Recorded' = Recorded
  BY DEF Queued, Connected, Recorded
<1> QED  BY <1>1 DEF IInv, Messages, Told

\* accept moves the first waiting call to the connection.
LEMMA TakeKeepsMessages ==
  ASSUME IInv, backlog # <<>>, TakeConnection, conn = NoCall, UNCHANGED <<log, cpc, sent>>
  PROVE  Messages'
<1>1. /\ backlog \in Seq(Calls) /\ sent \in [Calls -> 0 .. Parts]
  BY DEF IInv, TypeOK
<1>2. /\ Head(backlog) \in Calls
      /\ Range(backlog) = {Head(backlog)} \cup Range(Tail(backlog))
      /\ IsInjective(Tail(backlog)) /\ Head(backlog) \notin Range(Tail(backlog))
  BY <1>1, TailElements DEF IInv, Messages
<1>3. /\ conn' = Head(backlog) /\ got' = 0 /\ spc' = "read"
      /\ Queued' = Range(Tail(backlog)) /\ Recorded' = Recorded
      /\ Queued = {conn'} \cup Queued' /\ Connected' = Queued
      /\ IsInjective(backlog')
  BY <1>2 DEF TakeConnection, Queued, Recorded, Connected
<1>4. 0 <= sent[conn']
  BY <1>1, <1>2, <1>3, BearAssumption
<1> QED
  BY <1>2, <1>3, <1>4 DEF IInv, Messages, Told, Connected

\* A message that has been read whole goes from the connection to the output.
LEMMA AppendKeepsMessages ==
  ASSUME IInv, AppendOutput
  PROVE  Messages'
<1>1. /\ log \in Seq(Calls) /\ sent \in [Calls -> 0 .. Parts] /\ spc = "append"
      /\ conn # NoCall /\ conn \in Calls /\ got = Parts /\ conn \notin Recorded
  BY DEF IInv, TypeOK, Control, Messages, AppendOutput, ServerAt
<1>2. Told(conn)
  BY <1>1, BearAssumption DEF Told, IInv, Messages
<1>3. /\ Recorded' = IF conn \in Recordable THEN Recorded \cup {conn} ELSE Recorded
      /\ IsInjective(log')
  <2>1. IsInjective(log) /\ conn \notin Range(log)
    BY <1>1 DEF IInv, Messages, Recorded
  <2>2. Range(Append(log, conn)) = Range(log) \cup {conn} /\ IsInjective(Append(log, conn))
    BY ONLY <1>1, <2>1, AppendElements
  <2>3. log' = IF conn \in Recordable THEN Append(log, conn) ELSE log
    BY DEF AppendOutput
  <2>4. Range(log') = IF conn \in Recordable THEN Range(log) \cup {conn} ELSE Range(log)
    BY ONLY <2>2, <2>3
  <2>5. IsInjective(log')
    BY ONLY <2>1, <2>2, <2>3
  <2> QED  BY ONLY <2>4, <2>5 DEF Recorded
<1>4. /\ Queued' = Queued /\ conn' = NoCall /\ Connected' = Queued \cup {NoCall}
      /\ got' = 0 /\ spc' = "unmask" /\ UNCHANGED <<backlog, cpc, sent>>
  BY DEF AppendOutput, Queued, Connected, clientVars
<1>5. NoCall \notin Recorded' /\ NoCall \notin Queued
  <2>1. Recorded \subseteq Calls /\ Queued \subseteq Calls
    BY DEF IInv, TypeOK, Recorded, Queued, Range
  <2> QED  BY <2>1, <1>1, <1>3, BearAssumption
<1>6. conn \notin Queued
  BY DEF IInv, Messages
<1>7. conn' \notin Queued' \cup Recorded' /\ Queued' \cap Recorded' = {}
  BY <1>3, <1>4, <1>5, <1>6 DEF IInv, Messages
<1>8. ASSUME NEW c \in Calls
      PROVE  /\ c \in Connected' \cup Recorded' => cpc[c] \notin {"idle", "connect"}
             /\ c \in Recorded' => c \in Recordable /\ Told(c)
  BY <1>1, <1>2, <1>3, <1>4, BearAssumption DEF IInv, Messages, Connected
<1> QED
  BY <1>3, <1>4, <1>7, <1>8 DEF IInv, Messages, Told, Recordable

\* A traced process that connects is new to the server.
LEMMA ConnectKeepsMessages ==
  ASSUME IInv, NEW c \in Calls, Connect(c)
  PROVE  Messages'
<1>1. /\ backlog \in Seq(Calls) /\ sent \in [Calls -> 0 .. Parts]
      /\ DOMAIN cpc = Calls /\ cpc[c] = "connect"
      /\ c \notin Connected \cup Recorded /\ sent[c] = 0
  BY DEF IInv, TypeOK, Messages, Connect
<1>2. /\ Queued' = Queued \cup {c} /\ IsInjective(backlog')
  BY <1>1, AppendElements DEF Connect, Queued, Connected, IInv, Messages
<1>3. /\ Connected' = Connected \cup {c} /\ Recorded' = Recorded
      /\ UNCHANGED <<conn, got, log, spc, sent>>
  BY <1>2 DEF Connect, Connected, Recorded, serverVars
<1>4. \A d \in Calls : cpc'[d] = IF d = c THEN "write" ELSE cpc[d]
  BY <1>1 DEF Connect
<1>5. 0 < Parts /\ c # conn
  BY <1>1, BearAssumption DEF Connected
<1> QED
  BY <1>1, <1>2, <1>3, <1>4, <1>5 DEF IInv, Messages, Told, Connected

\* The other steps of a traced process write its message or change its place.
LEMMA ClientKeepsMessages ==
  ASSUME IInv, NEW c \in Calls,
         StartCall(c) \/ ConnectRefused(c) \/ WritePart(c) \/ WriteBroken(c) \/ EndCall(c) \/ Die(c)
  PROVE  Messages'
<1>1. /\ sent \in [Calls -> 0 .. Parts] /\ DOMAIN cpc = Calls
      /\ UNCHANGED <<backlog, conn, got, log, spc>>
      /\ Queued' = Queued /\ Connected' = Connected /\ Recorded' = Recorded
  BY DEF IInv, TypeOK, Queued, Connected, Recorded, serverVars, StartCall, ConnectRefused,
         WritePart, WriteBroken, EndCall, Die
<1>2. CASE WritePart(c)
  <2>1. /\ cpc[c] = "write" /\ sent[c] \in 0 .. Parts /\ sent[c] < Parts
        /\ \A d \in Calls : sent'[d] = IF d = c THEN sent[c] + 1 ELSE sent[d]
        /\ \A d \in Calls : d # c => cpc'[d] = cpc[d]
        /\ cpc'[c] = "write" => sent'[c] # Parts
        /\ cpc'[c] \in {"write", "exec"}
    BY <1>1, <1>2 DEF WritePart, IInv, Messages
  <2>2. sent'[c] \in 0 .. Parts /\ (cpc'[c] = "write" => sent'[c] < Parts)
    BY <2>1, BearAssumption
  <2>3. c \notin Recorded
    BY <2>1, BearAssumption DEF IInv, Messages, Told
  <2>4. conn # NoCall => conn \in Calls /\ got <= sent[conn] /\ got \in 0 .. Parts
    BY DEF IInv, TypeOK, Messages
  <2>5. conn # NoCall => got' <= sent'[conn']
    BY <1>1, <2>1, <2>2, <2>4, BearAssumption
  <2> QED  BY <1>1, <2>1, <2>2, <2>3, <2>5 DEF IInv, Messages, Told
<1>3. CASE ~WritePart(c)
  <2>1. /\ sent' = sent
        /\ cpc'[c] \in {"connect", "exec", "ended", "refused", "killed"}
        /\ \A d \in Calls : d # c => cpc'[d] = cpc[d]
        /\ cpc[c] \in {"idle", "connect", "write", "exec"}
    BY <1>1, <1>3 DEF StartCall, ConnectRefused, WriteBroken, EndCall, Die, Alive
  <2>2. cpc'[c] = "connect" => cpc[c] = "idle"
    BY <1>1, <1>3 DEF StartCall, ConnectRefused, WriteBroken, EndCall, Die, Alive
  <2> QED  BY <1>1, <2>1, <2>2 DEF IInv, Messages, Told
<1> QED  BY <1>2, <1>3

\* Every step keeps the messages in order.
LEMMA NextMessages == ASSUME IInv, [Next]_vars PROVE Messages'
<1> USE DEF serverVars, signalVars, clientVars, rootVars, ServerAt
<1>1. CASE OpenOutput
  <2>1. CASE Exit  BY <1>1, <2>1, DropKeepsMessages DEF OpenOutput, Exit
  <2> QED  BY <1>1, <2>1, FrameKeepsMessages DEF OpenOutput
<1>2. CASE CreateSocket
  <2>1. CASE Exit  BY <1>2, <2>1, DropKeepsMessages DEF CreateSocket, Exit
  <2> QED  BY <1>2, <2>1, FrameKeepsMessages DEF CreateSocket
<1>3. CASE Unblock  BY <1>3, FrameKeepsMessages DEF Unblock
<1>4. CASE NotifyChild
  <2>1. CASE Exit  BY <1>4, <2>1, DropKeepsMessages DEF NotifyChild, Exit
  <2> QED  BY <1>4, <2>1, FrameKeepsMessages DEF NotifyChild
<1>5. CASE CheckChild  BY <1>5, FrameKeepsMessages DEF CheckChild
<1>6. CASE CallAccept \/ WakeAccept
  <2>1. CASE backlog # <<>> /\ TakeConnection
    <3>1. conn = NoCall /\ UNCHANGED <<log, cpc, sent>>
      BY <1>6 DEF CallAccept, WakeAccept, IInv, Control
    <3> QED  BY <2>1, <3>1, TakeKeepsMessages
  <2>2. CASE spc' = "accept" /\ UNCHANGED <<conn, got, backlog>>
    BY <1>6, <2>2, FrameKeepsMessages DEF CallAccept, WakeAccept
  <2> QED  BY <1>6, <2>1, <2>2 DEF CallAccept, WakeAccept
<1>7. CASE ReadPart
  <2>1. /\ conn # NoCall /\ conn \in Calls /\ got \in 0 .. Parts /\ sent[conn] \in 0 .. Parts
    BY <1>7 DEF ReadPart, IInv, TypeOK, Control
  <2>2. /\ got' <= sent'[conn'] /\ (spc' \in {"mask", "append"} => got' = Parts)
    BY <1>7, <2>1, BearAssumption DEF ReadPart
  <2>3. UNCHANGED <<conn, backlog, log, cpc, sent, Queued, Connected, Recorded>>
    BY <1>7 DEF ReadPart, Queued, Connected, Recorded
  <2> QED  BY <2>2, <2>3 DEF IInv, Messages, Told
<1>8. CASE MaskForAppend  BY <1>8, FrameKeepsMessages DEF MaskForAppend
<1>9. CASE AppendOutput  BY <1>9, AppendKeepsMessages
<1>10. CASE UnmaskAfterAppend  BY <1>10, FrameKeepsMessages DEF UnmaskAfterAppend
<1>11. CASE MaskAtEnd  BY <1>11, FrameKeepsMessages DEF MaskAtEnd
<1>12. CASE CloseSocket
  <2>1. conn = NoCall  BY <1>12 DEF CloseSocket, IInv, Control
  <2> QED  BY <1>12, <2>1, DropKeepsMessages DEF CloseSocket
<1>13. CASE Finish  BY <1>13, FrameKeepsMessages DEF Finish
<1>14. CASE DeliverSIGCHLD \/ DeliverSIGINT
  <2>1. UNCHANGED <<log, cpc, sent>>  BY <1>14 DEF DeliverSIGCHLD, DeliverSIGINT
  <2>2. Interrupt \/ UNCHANGED <<spc, pipe, socket, backlog, conn, got>>
    BY <1>14 DEF DeliverSIGCHLD, DeliverSIGINT
  <2>3. CASE UNCHANGED <<spc, backlog, conn, got>>  BY <2>1, <2>3, FrameKeepsMessages
  <2>4. CASE spc' = "leave" /\ UNCHANGED <<backlog, conn, got>>
    BY <2>1, <2>4, FrameKeepsMessages
  <2>5. CASE Exit  BY <2>1, <2>5, DropKeepsMessages DEF Exit
  <2> QED  BY <2>2, <2>3, <2>4, <2>5 DEF Interrupt
<1>15. CASE Reap  BY <1>15, FrameKeepsMessages DEF Reap
<1>16. CASE RootStart  BY <1>16, FrameKeepsMessages DEF RootStart
<1>17. CASE RootKilled \/ RootStopOrContinue
  BY <1>17, FrameKeepsMessages DEF RootKilled, RootStopOrContinue
<1>18. CASE UserInterrupt  BY <1>18, FrameKeepsMessages DEF UserInterrupt
<1>19. ASSUME NEW status \in Statuses, RootExit(status) PROVE Messages'
  BY <1>19, FrameKeepsMessages DEF RootExit
<1>20. ASSUME NEW c \in Calls, StartCall(c) \/ Client(c) \/ Die(c) PROVE Messages'
  BY <1>20, ConnectKeepsMessages, ClientKeepsMessages DEF Client
<1>21. CASE UNCHANGED vars  BY <1>21, FrameKeepsMessages DEF vars
<1> QED
  BY <1>1, <1>2, <1>3, <1>4, <1>5, <1>6, <1>7, <1>8, <1>9, <1>10, <1>11, <1>12, <1>13, <1>14,
     <1>15, <1>16, <1>17, <1>18, <1>19, <1>20, <1>21 DEF Next, Server, Signals

-----------------------------------------------------------------------------
(* NothingDropped: while the server listens, a call that was told goes from *)
(* the backlog to the connection, from there to the output, nowhere else.  *)

\* No message is dropped where none moves.
LEMMA FrameKeepsCalls ==
  ASSUME IInv, UNCHANGED <<socket, backlog, conn, log, sent>>
  PROVE  NothingDropped'
BY DEF IInv, NothingDropped, Told, Connected, Queued, Recorded

\* Nothing was told before the socket existed, and closing it ends the promise.
LEMMA SetUpKeepsCalls ==
  ASSUME IInv, OpenOutput \/ CreateSocket \/ CloseSocket
  PROVE  NothingDropped'
<1> USE DEF ServerAt
<1>1. CASE OpenOutput
  BY <1>1 DEF OpenOutput, Exit, IInv, Control, Receiving, NothingDropped
<1>2. CASE CreateSocket
  <2>1. \A c \in Calls : sent'[c] = 0
    BY <1>2 DEF CreateSocket, IInv, Control, BeforeNotify, Messages, clientVars
  <2> QED  BY <2>1, BearAssumption DEF NothingDropped, Told, Recordable
<1>3. CASE CloseSocket
  BY <1>3 DEF CloseSocket, NothingDropped
<1> QED  BY <1>1, <1>2, <1>3

\* A message taken from the backlog is in the connection instead.
LEMMA TakeKeepsCalls ==
  ASSUME IInv, backlog # <<>>, TakeConnection, conn = NoCall, UNCHANGED <<socket, log, sent>>
  PROVE  NothingDropped'
<1>1. Range(backlog) = {Head(backlog)} \cup Range(Tail(backlog))
  BY TailElements DEF IInv, TypeOK
<1>2. Connected' = Queued /\ Recorded' = Recorded
  BY <1>1 DEF TakeConnection, Queued, Connected, Recorded
<1> QED  BY <1>2, BearAssumption DEF IInv, NothingDropped, Told, Connected, Recordable

\* A message of the connection that is appended is in the log instead.
LEMMA AppendKeepsCalls ==
  ASSUME IInv, AppendOutput
  PROVE  NothingDropped'
<1>1. conn \in Calls /\ log \in Seq(Calls)
  BY DEF IInv, TypeOK, Control, AppendOutput, ServerAt
<1>2. Recorded' = IF conn \in Recordable THEN Recorded \cup {conn} ELSE Recorded
  <2>1. Range(Append(log, conn)) = Range(log) \cup {conn}  BY <1>1, AppendElements
  <2> QED  BY <2>1 DEF AppendOutput, Recorded
<1>3. Queued \subseteq Connected' /\ UNCHANGED <<socket, sent>>
  BY DEF AppendOutput, Connected, Queued, clientVars
<1> QED  BY <1>2, <1>3 DEF IInv, NothingDropped, Told, Connected

\* A message that a client sends waits in the backlog or is read by the server.
LEMMA ClientKeepsCalls ==
  ASSUME IInv, NEW c \in Calls, StartCall(c) \/ Client(c) \/ Die(c)
  PROVE  NothingDropped'
<1>1. UNCHANGED <<socket, conn, log>>
  BY DEF Client, StartCall, Connect, ConnectRefused, WritePart, WriteBroken, EndCall, Die, serverVars
<1>2. CASE Connect(c)
  <2>1. Queued' = Queued \cup {c} /\ sent' = sent
    BY <1>2, AppendElements DEF Connect, Queued, IInv, TypeOK
  <2> QED  BY <1>1, <2>1 DEF IInv, NothingDropped, Told, Connected, Recorded
<1>3. CASE WritePart(c)
  <2>1. /\ backlog' = backlog /\ c \in Connected
        /\ \A d \in Calls : d # c => sent'[d] = sent[d]
    BY <1>3 DEF WritePart, IInv, TypeOK
  <2> QED  BY <1>1, <2>1, BearAssumption DEF IInv, NothingDropped, Told, Connected, Queued, Recorded, Recordable
<1>4. CASE ~Connect(c) /\ ~WritePart(c)
  <2>1. UNCHANGED <<backlog, sent>>
    BY <1>4 DEF Client, StartCall, ConnectRefused, WriteBroken, EndCall, Die
  <2> QED  BY <1>1, <2>1, FrameKeepsCalls
<1> QED  BY <1>2, <1>3, <1>4

\* No step drops a message while the server listens.
LEMMA NextNothingDropped == ASSUME IInv, [Next]_vars PROVE NothingDropped'
<1> USE DEF serverVars, signalVars, clientVars, rootVars, ServerAt
<1>1. CASE OpenOutput \/ CreateSocket \/ CloseSocket  BY <1>1, SetUpKeepsCalls
<1>2. CASE Unblock \/ NotifyChild \/ CheckChild
  <2>1. CASE Exit  BY <2>1 DEF Exit, NothingDropped
  <2> QED  BY <1>2, <2>1, FrameKeepsCalls DEF Unblock, NotifyChild, CheckChild
<1>3. CASE CallAccept \/ WakeAccept
  <2>1. CASE backlog # <<>> /\ TakeConnection
    <3>1. conn = NoCall /\ UNCHANGED <<socket, log, sent>>
      BY <1>3 DEF CallAccept, WakeAccept, IInv, Control
    <3> QED  BY <2>1, <3>1, TakeKeepsCalls
  <2>2. CASE spc' = "accept" /\ UNCHANGED <<conn, got, backlog>>
    BY <1>3, <2>2, FrameKeepsCalls DEF CallAccept, WakeAccept
  <2> QED  BY <1>3, <2>1, <2>2 DEF CallAccept, WakeAccept
<1>4. CASE ReadPart \/ MaskForAppend \/ UnmaskAfterAppend \/ MaskAtEnd \/ Finish
  BY <1>4, FrameKeepsCalls DEF ReadPart, MaskForAppend, UnmaskAfterAppend, MaskAtEnd, Finish
<1>5. CASE AppendOutput  BY <1>5, AppendKeepsCalls
<1>6. CASE DeliverSIGCHLD \/ DeliverSIGINT
  <2>1. UNCHANGED <<log, sent>>  BY <1>6 DEF DeliverSIGCHLD, DeliverSIGINT
  <2>2. CASE UNCHANGED <<socket, backlog, conn>>  BY <2>1, <2>2, FrameKeepsCalls
  <2>3. CASE Exit  BY <2>3 DEF Exit, NothingDropped
  <2> QED  BY <1>6, <2>2, <2>3 DEF DeliverSIGCHLD, DeliverSIGINT, Interrupt
<1>7. CASE Reap \/ RootStart \/ RootKilled \/ RootStopOrContinue \/ UserInterrupt
  BY <1>7, FrameKeepsCalls DEF Reap, RootStart, RootKilled, RootStopOrContinue, UserInterrupt
<1>8. ASSUME NEW status \in Statuses, RootExit(status) PROVE NothingDropped'
  BY <1>8, FrameKeepsCalls DEF RootExit
<1>9. ASSUME NEW c \in Calls, StartCall(c) \/ Client(c) \/ Die(c) PROVE NothingDropped'
  BY <1>9, ClientKeepsCalls
<1>10. CASE UNCHANGED vars  BY <1>10, FrameKeepsCalls DEF vars
<1> QED
  BY <1>1, <1>2, <1>3, <1>4, <1>5, <1>6, <1>7, <1>8, <1>9, <1>10 DEF Next, Server, Signals

-----------------------------------------------------------------------------
(* Losses: what closing the socket loses, and that nothing is lost after.  *)

\* The bound on the losses stands where nothing is sent or logged.
LEMMA FrameKeepsLosses ==
  ASSUME IInv, UNCHANGED <<log, sent>>, spc' \in {"finish", "done"} => spc \in {"finish", "done"}
  PROVE  Losses'
BY DEF IInv, Losses, Missing, Told, Recorded

\* The calls told and not recorded are in the backlog when it is closed.
LEMMA CloseBoundsLosses == ASSUME IInv, CloseSocket PROVE Losses'
<1>1. /\ socket = "listening" /\ conn = NoCall /\ UNCHANGED <<log, sent>>
      /\ backlog \in Seq(Calls) /\ Len(backlog) <= Backlog + 1
  BY DEF IInv, TypeOK, Control, Receiving, Capacity, CloseSocket, ServerAt, clientVars
<1>2. Missing \subseteq Queued
  BY <1>1, BearAssumption DEF IInv, NothingDropped, Missing, Connected, Recordable
<1>3. IsFiniteSet(Queued) /\ Cardinality(Queued) <= Len(backlog)
  BY <1>1, ElementsBound DEF Queued
<1>4. Cardinality(Missing) <= Cardinality(Queued) /\ IsFiniteSet(Missing)
  BY <1>2, <1>3, FS_Subset
<1>5. Cardinality(Missing) \in Nat /\ Cardinality(Queued) \in Nat /\ Len(backlog) \in Nat
  BY <1>1, <1>3, <1>4, FS_CardinalityType
<1>6. Cardinality(Missing) <= Backlog + 1
  BY <1>1, <1>3, <1>4, <1>5, BearAssumption
<1> QED  BY <1>1, <1>6 DEF Losses, Missing, Told, Recorded

\* Every step keeps the bound on the losses; the close of the socket sets it.
LEMMA NextLosses == ASSUME IInv, [Next]_vars PROVE Losses'
<1> USE DEF serverVars, signalVars, clientVars, rootVars, ServerAt
<1>1. CASE OpenOutput \/ CreateSocket
  BY <1>1, FrameKeepsLosses DEF OpenOutput, CreateSocket, Exit
<1>2. CASE Unblock \/ NotifyChild \/ CheckChild
  BY <1>2, FrameKeepsLosses DEF Unblock, NotifyChild, CheckChild, Exit
<1>3. CASE CallAccept \/ WakeAccept
  BY <1>3, FrameKeepsLosses DEF CallAccept, WakeAccept, TakeConnection
<1>4. CASE ReadPart \/ MaskForAppend \/ UnmaskAfterAppend \/ MaskAtEnd \/ Finish
  BY <1>4, FrameKeepsLosses DEF ReadPart, MaskForAppend, UnmaskAfterAppend, MaskAtEnd, Finish
<1>5. CASE AppendOutput
  BY <1>5 DEF AppendOutput, Losses
<1>6. CASE CloseSocket  BY <1>6, CloseBoundsLosses
<1>7. CASE DeliverSIGCHLD \/ DeliverSIGINT
  BY <1>7, FrameKeepsLosses DEF DeliverSIGCHLD, DeliverSIGINT, Interrupt, Exit
<1>8. CASE Reap \/ RootStart \/ RootKilled \/ RootStopOrContinue \/ UserInterrupt
  BY <1>8, FrameKeepsLosses DEF Reap, RootStart, RootKilled, RootStopOrContinue, UserInterrupt
<1>9. ASSUME NEW status \in Statuses, RootExit(status) PROVE Losses'
  BY <1>9, FrameKeepsLosses DEF RootExit
<1>10. ASSUME NEW c \in Calls, StartCall(c) \/ Client(c) \/ Die(c) PROVE Losses'
  <2>1. UNCHANGED <<log, spc>>
    BY <1>10 DEF Client, StartCall, Connect, ConnectRefused, WritePart, WriteBroken, EndCall, Die
  <2>2. CASE WritePart(c)
    <3>1. /\ c \in Connected /\ c # NoCall  BY <2>2, BearAssumption DEF WritePart
    <3>2. c = conn \/ c \in Queued  BY <3>1 DEF Connected
    <3>3. spc \notin {"finish", "done"}
      <4>1. CASE c = conn  BY <4>1, <3>1 DEF IInv, Control
      <4>2. CASE c \in Queued
        <5>1. backlog # <<>>  BY <4>2 DEF Queued, Range
        <5> QED  BY <5>1 DEF IInv, Control, Receiving
      <4> QED  BY <3>2, <4>1, <4>2
    <3> QED  BY <2>1, <3>3 DEF Losses
  <2>3. CASE ~WritePart(c)
    <3>1. sent' = sent
      BY <1>10, <2>3 DEF Client, StartCall, Connect, ConnectRefused, WriteBroken, EndCall, Die
    <3> QED  BY <2>1, <3>1, FrameKeepsLosses
  <2> QED  BY <2>2, <2>3
<1>11. CASE UNCHANGED vars  BY <1>11, FrameKeepsLosses DEF vars
<1> QED
  BY <1>1, <1>2, <1>3, <1>4, <1>5, <1>6, <1>7, <1>8, <1>9, <1>10, <1>11 DEF Next, Server, Signals

-----------------------------------------------------------------------------
\* A connect is refused only where the socket is closed, and it stays closed.
LEMMA NextNoRefusal == ASSUME IInv, [Next]_vars PROVE NoRefusalWhileRecording'
<1> USE DEF serverVars, signalVars, clientVars, rootVars, ServerAt
<1> DEFINE Over == {"finish", "done", "failed"}
<1>1. spc \in Over => spc' \in Over
  BY DEF Next, vars, Server, Signals, Client, OpenOutput, CreateSocket, Unblock, NotifyChild, CheckChild,
     CallAccept, WakeAccept, ReadPart, MaskForAppend, AppendOutput, UnmaskAfterAppend,
     MaskAtEnd, CloseSocket, Finish, DeliverSIGCHLD, DeliverSIGINT, Interrupt, Exit, Reap,
     RootStart, RootKilled, RootStopOrContinue, UserInterrupt, RootExit, StartCall, Connect,
     ConnectRefused, WritePart, WriteBroken, EndCall, Die
<1>2. ASSUME NEW c \in Calls, cpc'[c] = "refused", cpc[c] # "refused" PROVE spc' \in Over
  <2>1. ConnectRefused(c)
    <3>1. cpc' # cpc  BY <1>2
    <3>2. PICK d \in Calls : StartCall(d) \/ Client(d) \/ Die(d)
      BY <3>1 DEF Next, vars, Server, Signals, OpenOutput, CreateSocket, Unblock, NotifyChild,
         CheckChild, CallAccept, WakeAccept, ReadPart, MaskForAppend, AppendOutput,
         UnmaskAfterAppend, MaskAtEnd, CloseSocket, Finish, DeliverSIGCHLD, DeliverSIGINT, Reap,
         RootStart, RootKilled, RootStopOrContinue, UserInterrupt, RootExit
    <3>3. DOMAIN cpc = Calls  BY DEF IInv, TypeOK
    <3> QED
      BY <1>2, <3>2, <3>3 DEF Client, StartCall, Connect, ConnectRefused, WritePart, WriteBroken,
         EndCall, Die
  <2>2. cpc[c] = "connect" /\ socket # "listening" /\ pipe # "open"
    BY <2>1 DEF ConnectRefused, IInv, Control
  <2>3. spc \notin Receiving /\ spc \notin BeforeNotify
    BY <2>2 DEF IInv, Control
  <2>4. spc \in Over
    BY <2>3 DEF IInv, TypeOK, Receiving, BeforeNotify
  <2> QED  BY <2>4, <1>1
<1>3. ASSUME NEW c \in Calls, cpc'[c] = "refused" PROVE spc' \in Over
  BY <1>1, <1>2, <1>3 DEF IInv, NoRefusalWhileRecording
<1> QED  BY <1>3 DEF NoRefusalWhileRecording

-----------------------------------------------------------------------------
(* The theorems.                                                           *)

\* The invariant holds of every behaviour of the tracer and the traced build.
THEOREM Invariance == Spec => []IInv
<1>1. IInv /\ [Next]_vars => IInv'
  <2> SUFFICES ASSUME IInv, [Next]_vars PROVE IInv'
    OBVIOUS
  <2>1. TypeOK' /\ Control' /\ Messages'
    BY NextTypeOK, NextControl, NextMessages
  <2>2. NothingDropped' /\ Losses' /\ NoRefusalWhileRecording'
    BY NextNothingDropped, NextLosses, NextNoRefusal
  <2> QED  BY <2>1, <2>2 DEF IInv
<1> QED  BY InitInvariant, <1>1, PTL DEF Spec

\* Every variable keeps its type, whatever the build and the signals do.
THEOREM TypeCorrect == Spec => []TypeOK
<1>1. IInv => TypeOK  BY DEF IInv
<1> QED  BY Invariance, <1>1, PTL

\* No call that was told in full is lost while the server receives.
THEOREM NoneDropped == Spec => []NothingDropped
<1>1. IInv => NothingDropped  BY DEF IInv
<1> QED  BY Invariance, <1>1, PTL

\* Every record of the output stands for one whole message of one call.
THEOREM RecordsAreWhole == Spec => []RecordedOnceAndWhole
<1>1. IInv => RecordedOnceAndWhole
  <2>1. IInv => Recorded \subseteq Calls
    BY DEF IInv, TypeOK, Recorded, Range
  <2>2. ASSUME IInv, NEW c \in Recorded PROVE c \in Recordable /\ Told(c) /\ c \notin Connected
    BY <2>1, <2>2 DEF IInv, Messages, Connected
  <2> QED  BY <2>2 DEF IInv, Messages, RecordedOnceAndWhole
<1> QED  BY Invariance, <1>1, PTL

\* At most Backlog + 1 of the calls told in full are missing at the end.
THEOREM LossesAreBounded == Spec => []LossBound
<1>1. IInv => LossBound  BY DEF IInv, Losses, LossBound
<1> QED  BY Invariance, <1>1, PTL

\* No traced process is turned away before the server has stopped receiving.
THEOREM NobodyRefused == Spec => []NoRefusalWhileRecording
<1>1. IInv => NoRefusalWhileRecording  BY DEF IInv
<1> QED  BY Invariance, <1>1, PTL

-----------------------------------------------------------------------------
(* The tracer implements the abstract log.                                 *)

\* At the start the abstract log is empty.
LEMMA InitAbstract == Init => Abstract!Init
BY BearAssumption DEF Init, Abstract!Init, Told, LogStatus

\* A step that keeps what was told, the log and the end of the output is no step.
LEMMA FrameStutters ==
  ASSUME UNCHANGED <<log, sent, file>>, spc' = "failed" <=> spc = "failed"
  PROVE  UNCHANGED Abstract!vars
BY DEF Abstract!vars, Told, LogStatus

\* The exit of the server breaks the log off.
LEMMA ExitEnds ==
  ASSUME IInv, Exit, UNCHANGED <<log, sent>>, file' \in {"none", "open", file},
         spc \in {"open", "bind", "notify", "read"}
  PROVE  Abstract!Next
<1>1. LogStatus = "recording" /\ LogStatus' = "broken"
  BY DEF IInv, Control, Exit, LogStatus
<1>2. UNCHANGED <<log, {c \in Calls : Told(c)}>>
  BY DEF Told
<1> QED  BY <1>1, <1>2 DEF Abstract!Next, Abstract!End

\* A step of the tracer or its build is one of the abstract log, or leaves it alone.
LEMMA StepAbstract == ASSUME IInv, [Next]_vars PROVE [Abstract!Next]_(Abstract!vars)
<1> USE DEF serverVars, signalVars, clientVars, rootVars, ServerAt
<1>1. CASE OpenOutput
  <2>1. CASE Exit /\ file' \in {"none", "open"}  BY <1>1, <2>1, ExitEnds DEF OpenOutput
  <2>2. CASE file' = "open" /\ spc' = "bind"
    <3>1. LogStatus = "recording" /\ LogStatus' = "recording"
      BY <1>1, <2>2 DEF OpenOutput, LogStatus, IInv, Control
    <3> QED  BY <1>1, <3>1 DEF OpenOutput, Abstract!vars, Told
  <2> QED  BY <1>1, <2>1, <2>2 DEF OpenOutput
<1>2. CASE CreateSocket
  <2>1. CASE Exit  BY <1>2, <2>1, ExitEnds DEF CreateSocket
  <2> QED  BY <1>2, <2>1, FrameStutters DEF CreateSocket
<1>3. CASE Unblock \/ NotifyChild \/ CheckChild
  <2>1. CASE NotifyChild /\ Exit  BY <2>1, ExitEnds DEF NotifyChild
  <2> QED  BY <1>3, <2>1, FrameStutters DEF Unblock, NotifyChild, CheckChild
<1>4. CASE CallAccept \/ WakeAccept
  BY <1>4, FrameStutters DEF CallAccept, WakeAccept, TakeConnection
<1>5. CASE ReadPart \/ MaskForAppend \/ UnmaskAfterAppend \/ MaskAtEnd \/ CloseSocket
  BY <1>5, FrameStutters DEF ReadPart, MaskForAppend, UnmaskAfterAppend, MaskAtEnd, CloseSocket
<1>6. CASE AppendOutput
  <2>1. UNCHANGED <<sent, file>> /\ spc = "append" /\ spc' = "unmask"
    BY <1>6 DEF AppendOutput
  <2>2. CASE conn \notin Recordable
    BY <1>6, <2>1, <2>2, FrameStutters DEF AppendOutput
  <2>3. CASE conn \in Recordable
    <3>1. /\ conn \in Calls /\ conn \notin Range(log) /\ got = Parts /\ got <= sent[conn]
          /\ sent[conn] \in 0 .. Parts
      BY <2>1 DEF IInv, TypeOK, Control, Messages, Recorded
    <3>2. Told(conn)  BY <3>1, BearAssumption DEF Told
    <3>3. LogStatus = "recording" /\ LogStatus' = "recording"
      BY <2>1 DEF LogStatus, IInv, Control
    <3>4. {c \in Calls : Told(c)}' = {c \in Calls : Told(c)}
      BY <2>1 DEF Told
    <3>5. log' = Append(log, conn)
      BY <1>6, <2>3 DEF AppendOutput
    <3>6. Abstract!Record(conn)
      BY <2>3, <3>1, <3>2, <3>3, <3>4, <3>5 DEF Abstract!Record, Abstract!Range, Range
    <3> QED  BY <3>1, <3>6 DEF Abstract!Next
  <2> QED  BY <2>2, <2>3
<1>7. CASE Finish
  <2>1. LogStatus = "recording" /\ LogStatus' = "complete" /\ UNCHANGED <<log, sent>>
    BY <1>7 DEF Finish, LogStatus, IInv, Control
  <2> QED  BY <2>1 DEF Abstract!Next, Abstract!End, Told
<1>8. CASE DeliverSIGCHLD \/ DeliverSIGINT
  <2>1. UNCHANGED <<log, sent, file>>  BY <1>8 DEF DeliverSIGCHLD, DeliverSIGINT
  <2>2. CASE spc = "read" /\ Exit  BY <2>1, <2>2, ExitEnds
  <2>3. CASE spc' = spc  BY <2>1, <2>3, FrameStutters
  <2>4. CASE spc = "accept" /\ spc' = "leave"  BY <2>1, <2>4, FrameStutters
  <2> QED  BY <1>8, <2>2, <2>3, <2>4 DEF DeliverSIGCHLD, DeliverSIGINT, Interrupt
<1>9. CASE Reap \/ RootStart \/ RootKilled \/ RootStopOrContinue \/ UserInterrupt
  BY <1>9, FrameStutters DEF Reap, RootStart, RootKilled, RootStopOrContinue, UserInterrupt
<1>10. ASSUME NEW status \in Statuses, RootExit(status) PROVE UNCHANGED Abstract!vars
  BY <1>10, FrameStutters DEF RootExit
<1>11. ASSUME NEW c \in Calls, WritePart(c) PROVE [Abstract!Next]_(Abstract!vars)
  <2>1. /\ UNCHANGED <<log, LogStatus>> /\ sent[c] < Parts /\ sent[c] \in 0 .. Parts
        /\ \A d \in Calls : sent'[d] = IF d = c THEN sent[c] + 1 ELSE sent[d]
    BY <1>11 DEF WritePart, LogStatus, IInv, TypeOK, Messages
  <2>2. CASE sent[c] + 1 = Parts
    <3>1. /\ c \notin {d \in Calls : Told(d)}
          /\ {d \in Calls : Told(d)}' = {d \in Calls : Told(d)} \cup {c}
      BY <2>1, <2>2, BearAssumption DEF Told
    <3>2. Abstract!Issue(c)  BY <2>1, <3>1 DEF Abstract!Issue
    <3> QED  BY <3>2 DEF Abstract!Next
  <2>3. CASE sent[c] + 1 # Parts
    <3>1. {d \in Calls : Told(d)}' = {d \in Calls : Told(d)}
      BY <2>1, <2>3, BearAssumption DEF Told
    <3> QED  BY <2>1, <3>1 DEF Abstract!vars
  <2> QED  BY <2>2, <2>3
<1>12. ASSUME NEW c \in Calls, StartCall(c) \/ Client(c) \/ Die(c), ~WritePart(c)
       PROVE UNCHANGED Abstract!vars
  BY <1>12, FrameStutters DEF Client, StartCall, Connect, ConnectRefused, WriteBroken, EndCall, Die
<1>13. CASE UNCHANGED vars  BY <1>13, FrameStutters DEF vars
<1> QED
  BY <1>1, <1>2, <1>3, <1>4, <1>5, <1>6, <1>7, <1>8, <1>9, <1>10, <1>11, <1>12, <1>13
     DEF Next, Server, Signals

\* Every behaviour of the tracer is one of the abstract log.
THEOREM Implementation == Spec => ImplementsTraceLog
<1>1. IInv /\ [Next]_vars => [Abstract!Next]_(Abstract!vars)
  BY StepAbstract
<1> QED
  BY InitAbstract, Invariance, <1>1, PTL DEF Spec, ImplementsTraceLog, Abstract!Spec

-----------------------------------------------------------------------------
(* The status of the build, where nothing stops it.                        *)

\* SIGCHLD then means that the root has ended, and only its end is reaped.
EndSeen ==
  /\ "SIGCHLD" \in pending \/ handling => root \in {"zombie", "reaped"}
  /\ child_status = IF root = "reaped" THEN Decode(wstatus) ELSE EXIT_FAILURE

\* Without job control, only the end of the root is signalled and reaped.
LEMMA NextEndSeen == ASSUME ~Stops, IInv, EndSeen, [Next]_vars PROVE EndSeen'
<1> USE DEF EndSeen, serverVars, signalVars, clientVars, rootVars
<1>1. CASE Server
  <2>1. UNCHANGED <<pending, handling, root, wstatus, child_status>>
    BY <1>1 DEF Server, OpenOutput, CreateSocket, Unblock, NotifyChild, CheckChild, CallAccept,
       WakeAccept, ReadPart, MaskForAppend, AppendOutput, UnmaskAfterAppend, MaskAtEnd,
       CloseSocket, Finish
  <2> QED  BY <2>1 DEF Decode
<1>2. CASE DeliverSIGCHLD \/ DeliverSIGINT
  <2>1. /\ UNCHANGED <<root, wstatus, child_status>> /\ pending' \subseteq pending
        /\ handling' => handling \/ "SIGCHLD" \in pending
    BY <1>2 DEF DeliverSIGCHLD, DeliverSIGINT, Deliverable
  <2> QED  BY <2>1 DEF Decode
<1>3. CASE Reap
  <2>1. root \in {"zombie", "reaped"}
    BY <1>3 DEF Reap
  <2>2. root' = "reaped" /\ child_status' = Decode(wstatus) /\ wstatus' = wstatus
    BY <1>3, <2>1 DEF Reap
  <2> QED  BY <2>2 DEF Decode
<1>4. CASE RootStart \/ RootKilled \/ \E status \in Statuses : RootExit(status)
  <2>1. /\ root \notin {"zombie", "reaped"} /\ root' # "reaped" /\ UNCHANGED <<handling, child_status>>
        /\ root' = "zombie" \/ pending' = pending
    BY <1>4 DEF RootStart, RootKilled, RootExit
  <2> QED  BY <2>1
<1>5. CASE UserInterrupt
  <2>1. /\ UNCHANGED <<handling, root, wstatus, child_status>>
        /\ pending' = pending \cup {"SIGINT"}
    BY <1>5 DEF UserInterrupt
  <2> QED  BY <2>1 DEF Decode
<1>6. CASE (\E c \in Calls : StartCall(c) \/ Client(c) \/ Die(c)) \/ UNCHANGED vars
  <2>1. UNCHANGED <<pending, handling, root, wstatus, child_status>>
    BY <1>6 DEF vars, Client, StartCall, Connect, ConnectRefused, WritePart, WriteBroken, EndCall, Die
  <2> QED  BY <2>1 DEF Decode
<1> QED  BY <1>1, <1>2, <1>3, <1>4, <1>5, <1>6 DEF Next, Signals, RootStopOrContinue

\* What the tracer returns is the status of the build it has seen the end of, and a
\* failure if there was none: for every build that is not stopped, in every order of
\* its end, the signal and the loop. (main.c:196)
THEOREM StatusIsReported == ~Stops => (Spec => []StatusReported)
<1> SUFFICES ASSUME ~Stops PROVE Spec => []StatusReported
  OBVIOUS
<1>1. Init => EndSeen
  BY DEF Init, EndSeen
<1>2. IInv /\ EndSeen /\ [Next]_vars => EndSeen'
  BY NextEndSeen
<1>3. EndSeen => StatusReported
  BY DEF EndSeen, StatusReported
<1> QED  BY <1>1, <1>2, <1>3, Invariance, PTL DEF Spec

-----------------------------------------------------------------------------
(* The output of a quiet build: every traced process is waited for, none   *)
(* is killed, nothing stops it and no system call of the set-up fails.     *)

\* SIGINT is pending only when somebody interrupted.  Without that, the server has
\* not exited; the root ends last of all; and, while the server listens, a traced
\* process that writes is connected, and one that went on to its exec was heard.
Quiet ==
  /\ "SIGINT" \in pending => Interrupted
  /\ spc = "read" => got < Parts
  /\ ~Interrupted =>
       /\ spc # "failed"
       /\ pipe = "open" => root = "waiting"
       /\ root \in {"zombie", "reaped"} => \A c \in Calls : ~Alive(c)
       /\ socket = "listening" =>
            \A c \in Calls : /\ cpc[c] = "write" => c \in Connected
                             /\ cpc[c] \in {"exec", "ended"} => Told(c)
                             /\ cpc[c] \notin {"refused", "killed"}

QuietBuild == Detached = {} /\ Killable = {} /\ ~Stops /\ ~SetupFails

\* A step that moves neither a connection nor a process keeps the build quiet.
LEMMA FrameKeepsQuiet ==
  ASSUME Quiet, UNCHANGED <<conn, backlog, got, cpc, sent, interrupts, socket>>,
         "SIGINT" \in pending' => "SIGINT" \in pending,
         spc' # "failed", spc' = "read" => spc = "read",
         root' \in {"zombie", "reaped"} => root \in {"zombie", "reaped"},
         pipe' = "open" => pipe = "open" /\ (root = "waiting" => root' = "waiting")
  PROVE  Quiet'
<1>1. Connected' = Connected /\ (Interrupted' <=> Interrupted)
  BY DEF Connected, Queued, Interrupted
<1> QED  BY <1>1 DEF Quiet, Alive, Told

\* No handler meets the server in the middle of a message: the root ended after the
\* process that was writing it, and that one had written the whole of it.
LEMMA NoBreakOff ==
  ASSUME IInv, EndSeen, Quiet, "SIGCHLD" \in pending \/ "SIGINT" \in pending,
         spc = "read", got = sent[conn]
  PROVE  Interrupted
<1> SUFFICES ASSUME ~Interrupted PROVE FALSE
  OBVIOUS
<1>1. root \in {"zombie", "reaped"}
  BY DEF EndSeen, Quiet
<1>2. conn \in Calls /\ conn \in Connected /\ socket = "listening"
  BY DEF IInv, TypeOK, Control, Receiving, Connected
<1>3. ~Alive(conn) /\ cpc[conn] \notin {"idle", "connect"}
  BY <1>1, <1>2 DEF Quiet, IInv, Messages
<1>4. cpc[conn] = "ended"
  BY <1>2, <1>3 DEF Alive, Quiet, IInv, TypeOK
<1>5. Told(conn) /\ got < Parts
  BY <1>2, <1>4 DEF Quiet
<1> QED  BY <1>5, BearAssumption DEF Told, IInv, TypeOK

\* The steps of the server keep a quiet build quiet.
LEMMA ServerKeepsQuiet == ASSUME QuietBuild, IInv, Quiet, Server PROVE Quiet'
<1> USE DEF serverVars, signalVars, clientVars, rootVars, ServerAt, QuietBuild
<1>0. CASE NotifyChild
  <2>1. root # "waiting" => Interrupted
    BY <1>0 DEF NotifyChild, Quiet, IInv, Control, BeforeNotify
  <2>2. CASE Exit
    <3>1. Interrupted' /\ spc' # "read" /\ UNCHANGED pending
      BY <1>0, <2>1, <2>2 DEF NotifyChild, Exit, Interrupted
    <3> QED  BY <3>1 DEF Quiet, Interrupted
  <2> QED  BY <1>0, <2>2, FrameKeepsQuiet DEF NotifyChild
<1>1. CASE OpenOutput \/ Unblock \/ CheckChild \/ MaskForAppend
           \/ UnmaskAfterAppend \/ MaskAtEnd \/ Finish
  BY <1>1, FrameKeepsQuiet DEF OpenOutput, Unblock, CheckChild, MaskForAppend,
     UnmaskAfterAppend, MaskAtEnd, Finish
<1>2. CASE CreateSocket
  <2>1. /\ \A c \in Calls : cpc[c] = "idle"
        /\ UNCHANGED <<cpc, sent, root, pending, interrupts, pipe>> /\ spc' = "unblock"
    BY <1>2 DEF CreateSocket, IInv, Control, BeforeNotify
  <2> QED  BY <2>1 DEF Quiet, Alive, Interrupted
<1>3. CASE CallAccept \/ WakeAccept
  <2>1. UNCHANGED <<cpc, sent, root, pending, interrupts, socket, pipe>> /\ conn = NoCall
    BY <1>3 DEF CallAccept, WakeAccept, IInv, Control
  <2>2. CASE backlog # <<>> /\ TakeConnection
    <3>1. /\ Connected' = Queued /\ got' = 0 /\ spc' = "read"
      BY <2>2, TailElements DEF TakeConnection, Connected, Queued, IInv, TypeOK
    <3> QED  BY <2>1, <3>1, BearAssumption DEF Quiet, Alive, Told, Interrupted, Connected
  <2>3. CASE spc' = "accept" /\ UNCHANGED <<conn, got, backlog>>
    BY <2>1, <2>3, FrameKeepsQuiet
  <2> QED  BY <1>3, <2>2, <2>3 DEF CallAccept, WakeAccept
<1>4. CASE ReadPart
  <2>1. /\ UNCHANGED <<cpc, sent, root, pending, interrupts, socket, conn, backlog, pipe>>
        /\ conn \in Calls /\ spc' # "failed" /\ (spc' = "read" => got' # Parts)
        /\ got' \in 0 .. Parts
    <3>1. conn \in Calls /\ sent[conn] \in 0 .. Parts /\ got \in 0 .. Parts
      BY <1>4 DEF ReadPart, IInv, TypeOK, Control
    <3> QED  BY <1>4, <3>1, BearAssumption DEF ReadPart
  <2>2. spc' = "read" => got' < Parts
    BY <2>1, BearAssumption
  <2> QED  BY <2>1, <2>2 DEF Quiet, Alive, Told, Interrupted, Connected, Queued
<1>5. CASE AppendOutput
  <2>1. /\ UNCHANGED <<cpc, sent, root, pending, interrupts, socket, backlog, pipe>> /\ spc' = "unmask"
        /\ conn \in Calls /\ got = Parts /\ got <= sent[conn] /\ sent[conn] \in 0 .. Parts
    BY <1>5 DEF AppendOutput, IInv, TypeOK, Control, Messages
  <2>2. cpc[conn] # "write"
    BY <2>1, BearAssumption DEF IInv, Messages
  <2> QED  BY <2>1, <2>2 DEF Quiet, Alive, Told, Interrupted, Connected, Queued
<1>6. CASE CloseSocket
  BY <1>6 DEF CloseSocket, Quiet, Alive, Interrupted
<1> QED  BY <1>0, <1>1, <1>2, <1>3, <1>4, <1>5, <1>6 DEF Server

\* So do those of the processes: each tells the whole of its call before it goes on.
LEMMA ClientKeepsQuiet ==
  ASSUME QuietBuild, IInv, Quiet, NEW c \in Calls, StartCall(c) \/ Client(c) \/ Die(c)
  PROVE  Quiet'
<1>1. /\ UNCHANGED <<spc, got, pending, interrupts, root, socket, conn, pipe>>
      /\ DOMAIN cpc = Calls /\ sent \in [Calls -> 0 .. Parts]
  BY DEF IInv, TypeOK, serverVars, signalVars, rootVars, Client, StartCall, Connect, ConnectRefused,
         WritePart, WriteBroken, EndCall, Die
<1>2. Interrupted' <=> Interrupted
  BY <1>1 DEF Interrupted
<1> SUFFICES ASSUME ~Interrupted PROVE Quiet'
  BY <1>1, <1>2 DEF Quiet
<1>3. /\ \A d \in Calls \ {c} : cpc'[d] = cpc[d] /\ sent'[d] = sent[d]
      /\ \A d \in Calls \ {c} : d \in Connected => d \in Connected'
  <2>1. backlog' = backlog \/ Connect(c)
    BY DEF Client, StartCall, ConnectRefused, WritePart, WriteBroken, EndCall, Die
  <2>2. Connect(c) => Range(backlog') = Range(backlog) \cup {c}
    BY AppendElements DEF Connect, IInv, TypeOK
  <2>3. \A d \in Calls \ {c} : cpc'[d] = cpc[d] /\ sent'[d] = sent[d]
    BY <1>1 DEF Client, StartCall, Connect, ConnectRefused, WritePart, WriteBroken, EndCall, Die
  <2> QED  BY <1>1, <2>1, <2>2, <2>3 DEF Connected, Queued
<1>4. Alive(c) \/ root = "running"
  BY DEF QuietBuild, Client, StartCall, Connect, ConnectRefused, WritePart, WriteBroken, EndCall,
         Die, Alive
<1>5. root \notin {"zombie", "reaped"}
  BY <1>4 DEF Quiet
<1>6. ASSUME socket = "listening"
      PROVE  /\ cpc'[c] = "write" => c \in Connected'
             /\ cpc'[c] \in {"exec", "ended"} => Told(c)'
             /\ cpc'[c] \notin {"refused", "killed"}
  <2>1. CASE StartCall(c)
    BY <1>1, <2>1 DEF StartCall
  <2>2. CASE Connect(c)
    <3>1. Range(backlog') = Range(backlog) \cup {c}
      BY <2>2, AppendElements DEF Connect, IInv, TypeOK
    <3> QED  BY <1>1, <2>2, <3>1 DEF Connect, Connected, Queued
  <2>3. CASE WritePart(c)
    <3>1. backlog' = backlog /\ sent'[c] = sent[c] + 1 /\ c \in Connected
          /\ cpc'[c] = IF sent'[c] = Parts THEN "exec" ELSE "write"
      BY <1>1, <2>3 DEF WritePart
    <3> QED  BY <1>1, <3>1 DEF Connected, Queued, Told
  <2>4. CASE EndCall(c)
    BY <1>1, <2>4, <1>6 DEF EndCall, Quiet, Told
  <2>5. ~ConnectRefused(c) /\ ~WriteBroken(c) /\ ~Die(c)
    BY <1>6 DEF ConnectRefused, WriteBroken, Die, Quiet, QuietBuild
  <2> QED  BY <2>1, <2>2, <2>3, <2>4, <2>5 DEF Client
<1>7. ASSUME NEW d \in Calls, socket = "listening"
      PROVE  /\ cpc'[d] = "write" => d \in Connected'
             /\ cpc'[d] \in {"exec", "ended"} => Told(d)'
             /\ cpc'[d] \notin {"refused", "killed"}
  <2>1. CASE d = c  BY <1>6, <1>7, <2>1
  <2>2. CASE d # c  BY <1>3, <1>7, <2>2 DEF Quiet, Told
  <2> QED  BY <2>1, <2>2
<1> QED  BY <1>1, <1>2, <1>5, <1>7 DEF Quiet

\* Every step of a quiet build keeps it quiet.
LEMMA NextQuiet == ASSUME QuietBuild, IInv, EndSeen, Quiet, [Next]_vars PROVE Quiet'
<1> USE DEF serverVars, signalVars, clientVars, rootVars
<1>1. CASE Server  BY <1>1, ServerKeepsQuiet
<1>2. CASE DeliverSIGCHLD \/ DeliverSIGINT
  <2>1. /\ UNCHANGED <<cpc, sent, interrupts, root>>
        /\ "SIGINT" \in pending' => "SIGINT" \in pending
        /\ "SIGCHLD" \in pending \/ "SIGINT" \in pending
        /\ Interrupt \/ UNCHANGED <<spc, pipe, socket, backlog, conn, got>>
    BY <1>2 DEF DeliverSIGCHLD, DeliverSIGINT, Deliverable
  <2>2. CASE spc = "read" /\ got = sent[conn] /\ Exit
    <3>1. Interrupted /\ Interrupted' /\ spc' # "read"
      BY <2>1, <2>2, NoBreakOff DEF Interrupted, Exit
    <3> QED  BY <3>1 DEF Quiet
  <2>3. CASE spc' \in {spc, "leave"} /\ UNCHANGED <<pipe, socket, backlog, conn, got>>
    <3>1. CASE spc' = "failed"
      BY <2>1, <2>3, <3>1 DEF Quiet, Interrupted
    <3> QED  BY <2>1, <2>3, <3>1, FrameKeepsQuiet
  <2> QED  BY <2>1, <2>2, <2>3 DEF Interrupt
<1>3. CASE Reap \/ RootStart \/ UNCHANGED vars
  <2>1. /\ UNCHANGED <<spc, conn, backlog, got, cpc, sent, interrupts, socket, pending>>
        /\ root' \in {"zombie", "reaped"} => root \in {"zombie", "reaped"}
        /\ pipe' = pipe /\ (pipe = "open" /\ root = "waiting" => root' = "waiting")
    BY <1>3 DEF Reap, RootStart, vars
  <2>2. CASE spc = "failed"
    BY <2>1, <2>2 DEF Quiet, Interrupted
  <2> QED  BY <2>1, <2>2, FrameKeepsQuiet
<1>4. CASE RootKilled \/ UserInterrupt
  <2>1. /\ UNCHANGED <<spc, got>> /\ Interrupted'
    <3>1. interrupts \in Nat  BY BearAssumption DEF IInv, TypeOK
    <3> QED  BY <1>4, <3>1 DEF RootKilled, UserInterrupt, Interrupted
  <2> QED  BY <2>1 DEF Quiet
<1>5. ASSUME NEW status \in Statuses, RootExit(status) PROVE Quiet'
  <2>1. /\ \A c \in Calls : ~Alive(c)
        /\ UNCHANGED <<spc, conn, backlog, got, cpc, sent, interrupts, socket>>
        /\ "SIGINT" \in pending' => "SIGINT" \in pending
        /\ pipe' # "open"
    BY <1>5 DEF RootExit, QuietBuild, IInv, Control
  <2> QED  BY <2>1 DEF Quiet, Alive, Told, Interrupted, Connected, Queued
<1>6. ASSUME NEW c \in Calls, StartCall(c) \/ Client(c) \/ Die(c) PROVE Quiet'
  BY <1>6, ClientKeepsQuiet
<1>7. ~RootStopOrContinue
  BY DEF RootStopOrContinue, QuietBuild
<1> QED  BY <1>1, <1>2, <1>3, <1>4, <1>5, <1>6, <1>7 DEF Next, Signals

\* In a quiet build that nobody interrupts, no signal breaks the server off in the
\* middle of a message, so the output is closed. (protocol.c:22, main.c:196)
THEOREM OutputIsKept == QuietBuild => (Spec => []OutputSurvives)
<1> SUFFICES ASSUME QuietBuild PROVE Spec => []OutputSurvives
  OBVIOUS
<1>1. Init => EndSeen /\ Quiet
  BY DEF Init, EndSeen, Quiet, Interrupted, Alive
<1>2. IInv /\ EndSeen /\ Quiet /\ [Next]_vars => EndSeen' /\ Quiet'
  BY NextEndSeen, NextQuiet DEF QuietBuild
<1>3. Quiet => OutputSurvives
  BY DEF Quiet, OutputSurvives
<1> QED  BY <1>1, <1>2, <1>3, Invariance, PTL DEF Spec

-----------------------------------------------------------------------------
(* The order of the output.                                                *)

\* While a call waits in the backlog or is being read, nothing later overtakes it:
\* c is recorded; or the server is over and d never will be; or c was told and is
\* in front of every place where d can be.
Ahead(c, d) ==
  \/ c \in Recorded
  \/ spc \in {"finish", "done", "failed"} /\ d \notin Recorded
  \/ /\ Told(c) /\ c \in Connected /\ d \notin Recorded \cup {conn}
     /\ \A i \in DOMAIN backlog :
          backlog[i] = d => conn = c \/ \E j \in 1 .. i - 1 : backlog[j] = c

\* A call told before the other one could connect is ahead of it.
LEMMA StartsAhead ==
  ASSUME IInv, NEW c \in Recordable, NEW d \in Recordable,
         Told(c), cpc[d] \in {"idle", "connect"}
  PROVE  Ahead(c, d)
<1>1. /\ c \in Calls /\ d \in Calls /\ sent[c] # 0
      /\ d \notin Connected \cup Recorded
  BY BearAssumption DEF Recordable, Told, IInv, Messages
<1>2. CASE socket = "listening"
  <2>1. \A i \in DOMAIN backlog : backlog[i] # d
    BY <1>1 DEF Connected, Queued, Range
  <2> QED  BY <1>1, <1>2, <2>1 DEF Ahead, IInv, NothingDropped, Connected
<1>3. CASE socket # "listening"
  <2>1. pipe # "open"
    BY <1>1 DEF IInv, Control, Messages
  <2>2. spc \in {"finish", "done", "failed"}
    BY <1>3, <2>1 DEF IInv, TypeOK, Control, Receiving, BeforeNotify
  <2> QED  BY <1>1, <2>2 DEF Ahead
<1> QED  BY <1>2, <1>3

\* One message stays ahead of another where neither moves.
LEMMA FrameKeepsAhead ==
  ASSUME NEW c, NEW d, Ahead(c, d), UNCHANGED <<log, conn, backlog, sent>>,
         spc \in {"finish", "done", "failed"} => spc' \in {"finish", "done", "failed"}
  PROVE  Ahead(c, d)'
<1>1. Connected' = Connected /\ Recorded' = Recorded
  BY DEF Connected, Queued, Recorded
<1> QED  BY <1>1 DEF Ahead, Told

\* A server that is over records nothing any more.
LEMMA EndKeepsAhead ==
  ASSUME NEW c, NEW d, Ahead(c, d), log' = log, spc' \in {"finish", "failed"}
  PROVE  Ahead(c, d)'
BY DEF Ahead, Recorded

\* The backlog is a queue: what is ahead is taken first.
LEMMA TakeKeepsAhead ==
  ASSUME IInv, NEW c \in Calls, NEW d \in Calls, Ahead(c, d), conn = NoCall,
         backlog # <<>>, TakeConnection, UNCHANGED <<log, sent>>, spc \in {"call", "accept"}
  PROVE  Ahead(c, d)'
<1>1. CASE c \in Recorded  BY <1>1 DEF Ahead, Recorded
<1>2. CASE c \notin Recorded
  <2>1. /\ Told(c) /\ c \in Queued /\ d \notin Recorded
        /\ \A i \in DOMAIN backlog : backlog[i] = d => \E j \in 1 .. i - 1 : backlog[j] = c
    BY <1>2, BearAssumption DEF Ahead, Connected
  <2>2. /\ Len(backlog) \in Nat \ {0} /\ DOMAIN backlog = 1 .. Len(backlog)
        /\ DOMAIN Tail(backlog) = 1 .. Len(backlog) - 1 /\ Head(backlog) = backlog[1]
        /\ \A i \in 1 .. Len(backlog) - 1 : Tail(backlog)[i] = backlog[i + 1]
        /\ Range(backlog) = {Head(backlog)} \cup Range(Tail(backlog))
    <3>1. backlog \in Seq(Calls)  BY DEF IInv, TypeOK
    <3>2. /\ Len(backlog) \in Nat \ {0} /\ DOMAIN backlog = 1 .. Len(backlog)
          /\ Tail(backlog) \in Seq(Calls) /\ Len(Tail(backlog)) = Len(backlog) - 1
          /\ Head(backlog) = backlog[1]
          /\ \A i \in 1 .. Len(backlog) - 1 : Tail(backlog)[i] = backlog[i + 1]
      BY <3>1, HeadTailProperties, EmptySeq, LenProperties
    <3> QED  BY <3>1, <3>2, LenProperties, TailElements
  <2>3. backlog[1] # d
    BY <2>1, <2>2
  <2>4. c \in Connected' /\ conn' = backlog[1] /\ backlog' = Tail(backlog)
    BY <2>1, <2>2 DEF TakeConnection, Connected, Queued
  <2>5. ASSUME NEW i \in DOMAIN backlog', backlog'[i] = d
        PROVE  conn' = c \/ \E j \in 1 .. i - 1 : backlog'[j] = c
    <3>1. i \in 1 .. Len(backlog) - 1 /\ i + 1 \in DOMAIN backlog /\ backlog[i + 1] = d
      BY <2>2, <2>4, <2>5
    <3>2. PICK j \in 1 .. i : backlog[j] = c
      BY <2>1, <3>1
    <3>3. CASE j = 1  BY <2>4, <3>2, <3>3
    <3>4. CASE j # 1
      <4>1. j - 1 \in 1 .. i - 1 /\ j - 1 \in 1 .. Len(backlog) - 1 /\ (j - 1) + 1 = j
        BY <2>2, <3>1, <3>4
      <4>2. backlog'[j - 1] = c  BY <2>2, <2>4, <3>2, <4>1
      <4> QED  BY <4>1, <4>2
    <3> QED  BY <3>3, <3>4
  <2>6. d \notin Recorded' \cup {conn'} /\ Told(c)'
    BY <2>1, <2>3, <2>4 DEF Recorded, Told
  <2> QED  BY <2>4, <2>5, <2>6 DEF Ahead
<1> QED  BY <1>1, <1>2

\* One connection is read at a time: what is ahead is recorded first.
LEMMA AppendKeepsAhead ==
  ASSUME IInv, NEW c \in Recordable, NEW d \in Recordable, Ahead(c, d), AppendOutput
  PROVE  Ahead(c, d)'
<1>1. /\ conn \in Calls /\ conn # NoCall /\ log \in Seq(Calls) /\ spc = "append"
      /\ UNCHANGED <<backlog, sent>> /\ conn' = NoCall /\ c # NoCall /\ d # NoCall
  BY BearAssumption DEF AppendOutput, IInv, TypeOK, Control, ServerAt, clientVars, Recordable
<1>2. Recorded' = IF conn \in Recordable THEN Recorded \cup {conn} ELSE Recorded
  <2>1. Range(Append(log, conn)) = Range(log) \cup {conn}  BY <1>1, AppendElements
  <2> QED  BY <2>1 DEF AppendOutput, Recorded
<1>3. CASE c \in Recorded \/ conn = c
  BY <1>2, <1>3 DEF Ahead
<1>4. CASE c \notin Recorded /\ conn # c
  <2>1. /\ Told(c) /\ c \in Queued /\ d \notin Recorded'
        /\ \A i \in DOMAIN backlog : backlog[i] = d => \E j \in 1 .. i - 1 : backlog[j] = c
    BY <1>1, <1>2, <1>4 DEF Ahead, Connected
  <2>2. c \in Connected' /\ Told(c)'
    BY <1>1, <2>1 DEF Connected, Queued, Told
  <2> QED  BY <1>1, <2>1, <2>2 DEF Ahead
<1> QED  BY <1>3, <1>4

\* A message that is sent later is behind those that wait.
LEMMA ClientKeepsAhead ==
  ASSUME IInv, NEW c \in Recordable, NEW d \in Recordable, Ahead(c, d),
         NEW e \in Calls, StartCall(e) \/ Client(e) \/ Die(e)
  PROVE  Ahead(c, d)'
<1>1. UNCHANGED <<log, conn, spc>> /\ c \in Calls /\ c # NoCall
  BY BearAssumption DEF serverVars, Client, StartCall, Connect, ConnectRefused, WritePart,
     WriteBroken, EndCall, Die, Recordable
<1>2. CASE Connect(e)
  <2>1. /\ backlog \in Seq(Calls) /\ backlog' = Append(backlog, e) /\ sent' = sent
        /\ spc \notin {"finish", "done", "failed"}
    BY <1>2 DEF Connect, IInv, TypeOK, Control, Receiving
  <2>2. /\ Len(backlog) \in Nat /\ DOMAIN backlog = 1 .. Len(backlog)
        /\ DOMAIN backlog' = 1 .. Len(backlog) + 1
        /\ \A i \in 1 .. Len(backlog) : backlog'[i] = backlog[i]
        /\ Range(backlog') = Range(backlog) \cup {e}
    BY <2>1, LenProperties, AppendProperties, AppendElements
  <2>3. CASE c \in Recorded  BY <1>1, <2>3 DEF Ahead, Recorded
  <2>4. CASE c \notin Recorded
    <3>1. /\ Told(c) /\ c \in Connected /\ d \notin Recorded \cup {conn}
          /\ \A i \in DOMAIN backlog :
               backlog[i] = d => conn = c \/ \E j \in 1 .. i - 1 : backlog[j] = c
      BY <2>1, <2>4 DEF Ahead
    <3>2. ASSUME NEW i \in DOMAIN backlog', backlog'[i] = d
          PROVE  conn = c \/ \E j \in 1 .. i - 1 : backlog'[j] = c
      <4>1. CASE conn = c  BY <4>1
      <4>2. CASE conn # c
        <5>1. CASE i = Len(backlog) + 1
          <6>1. PICK j \in DOMAIN backlog : backlog[j] = c
            BY <3>1, <4>2 DEF Connected, Queued, Range
          <6> QED  BY <2>2, <5>1, <6>1
        <5>2. CASE i # Len(backlog) + 1
          <6>1. i \in 1 .. Len(backlog)  BY <2>2, <5>2
          <6>2. PICK j \in 1 .. i - 1 : backlog[j] = c
            BY <2>2, <3>1, <3>2, <4>2, <6>1
          <6> QED  BY <2>2, <6>1, <6>2
        <5> QED  BY <5>1, <5>2
      <4> QED  BY <4>1, <4>2
    <3>3. c \in Connected' /\ Told(c)' /\ d \notin Recorded' \cup {conn'}
      BY <1>1, <2>1, <2>2, <3>1 DEF Connected, Queued, Told, Recorded
    <3> QED  BY <1>1, <3>2, <3>3 DEF Ahead
  <2> QED  BY <2>3, <2>4
<1>3. CASE WritePart(e)
  <2>1. backlog' = backlog /\ (Told(c) => Told(c)')
    BY <1>1, <1>3 DEF WritePart, Told, IInv, TypeOK, Messages
  <2>2. Connected' = Connected /\ Recorded' = Recorded
    BY <1>1, <2>1 DEF Connected, Queued, Recorded
  <2> QED  BY <1>1, <2>1, <2>2 DEF Ahead
<1>4. CASE ~Connect(e) /\ ~WritePart(e)
  <2>1. UNCHANGED <<backlog, sent>>
    BY <1>4 DEF Client, StartCall, ConnectRefused, WriteBroken, EndCall, Die
  <2> QED  BY <1>1, <2>1, FrameKeepsAhead
<1> QED  BY <1>2, <1>3, <1>4

\* Every step of the tracer and the build keeps one message ahead of another.
LEMMA NextAhead ==
  ASSUME IInv, NEW c \in Recordable, NEW d \in Recordable, Ahead(c, d), [Next]_vars
  PROVE  Ahead(c, d)'
<1> USE DEF serverVars, signalVars, clientVars, rootVars, ServerAt
<1>0. c \in Calls /\ d \in Calls
  BY BearAssumption DEF Recordable
<1>1. CASE OpenOutput \/ CreateSocket \/ NotifyChild
  <2>1. CASE Exit  BY <1>1, <2>1, EndKeepsAhead DEF OpenOutput, CreateSocket, NotifyChild, Exit
  <2>2. CASE ~Exit  BY <1>1, <2>2, FrameKeepsAhead DEF OpenOutput, CreateSocket, NotifyChild
  <2> QED  BY <2>1, <2>2
<1>2. CASE Unblock \/ CheckChild \/ ReadPart \/ MaskForAppend
           \/ UnmaskAfterAppend \/ MaskAtEnd \/ Finish
  BY <1>2, FrameKeepsAhead DEF Unblock, CheckChild, ReadPart, MaskForAppend,
     UnmaskAfterAppend, MaskAtEnd, Finish
<1>3. CASE CallAccept \/ WakeAccept
  <2>1. /\ UNCHANGED <<log, sent>> /\ spc \in {"call", "accept"} /\ conn = NoCall
    BY <1>3 DEF CallAccept, WakeAccept, IInv, Control
  <2>2. CASE backlog # <<>> /\ TakeConnection
    BY <1>0, <2>1, <2>2, TakeKeepsAhead
  <2>3. CASE UNCHANGED <<conn, got, backlog>>
    BY <2>1, <2>3, FrameKeepsAhead
  <2> QED  BY <1>3, <2>2, <2>3 DEF CallAccept, WakeAccept
<1>4. CASE AppendOutput  BY <1>4, AppendKeepsAhead
<1>5. CASE CloseSocket  BY <1>5, EndKeepsAhead DEF CloseSocket
<1>6. CASE DeliverSIGCHLD \/ DeliverSIGINT
  <2>1. UNCHANGED <<log, sent>> /\ (Interrupt \/ UNCHANGED <<spc, conn, backlog>>)
    BY <1>6 DEF DeliverSIGCHLD, DeliverSIGINT
  <2>2. CASE Exit  BY <2>1, <2>2, EndKeepsAhead DEF Exit
  <2>3. CASE ~Exit  BY <2>1, <2>3, FrameKeepsAhead DEF Interrupt
  <2> QED  BY <2>2, <2>3
<1>7. CASE Reap \/ RootStart \/ RootKilled \/ RootStopOrContinue \/ UserInterrupt \/ UNCHANGED vars
  BY <1>7, FrameKeepsAhead DEF Reap, RootStart, RootKilled, RootStopOrContinue, UserInterrupt, vars
<1>8. ASSUME NEW status \in Statuses, RootExit(status) PROVE Ahead(c, d)'
  BY <1>8, FrameKeepsAhead DEF RootExit
<1>9. ASSUME NEW e \in Calls, StartCall(e) \/ Client(e) \/ Die(e) PROVE Ahead(c, d)'
  BY <1>9, ClientKeepsAhead
<1> QED
  BY <1>1, <1>2, <1>3, <1>4, <1>5, <1>6, <1>7, <1>8, <1>9 DEF Next, Server, Signals

\* The output keeps the order of dependent steps: a call told before the process of
\* another one could connect is in the output whenever that one is. (main.c:178)
THEOREM OrderIsKept == Spec => OrderKept
<1> SUFFICES ASSUME NEW c \in Recordable, NEW d \in Recordable
             PROVE  Spec => [](  Told(c) /\ cpc[d] \in {"idle", "connect"}
                               => [](d \in Recorded => c \in Recorded))
  BY DEF OrderKept
<1>1. IInv /\ Told(c) /\ cpc[d] \in {"idle", "connect"} => Ahead(c, d)
  BY StartsAhead
<1>2. IInv /\ Ahead(c, d) /\ [Next]_vars => Ahead(c, d)'
  BY NextAhead
<1>3. Ahead(c, d) => (d \in Recorded => c \in Recorded)
  BY DEF Ahead
<1> QED  BY <1>1, <1>2, <1>3, Invariance, PTL DEF Spec

=============================================================================
