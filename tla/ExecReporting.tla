--------------------------- MODULE ExecReporting ---------------------------
(***************************************************************************)
(* The interposed library of the Unix tracer, execs.c: what becomes of the *)
(* exec and posix_spawn calls of the processes of a build.  Each wrapper   *)
(* tells the tracer of the call, once, guarded by the flag                 *)
(* already_reported, puts the tracer's variables back into the environment *)
(* of the new program and makes the real call.  The C library's own call   *)
(* of another wrapper, for instance execve from its execvp, is nested.     *)
(*                                                                         *)
(* The processes are single-threaded, and one that has lost the library    *)
(* makes no further step here.  Telling is the message of BearTracer; the  *)
(* response file it may carry is left out.                                 *)
(***************************************************************************)
EXTENDS Naturals, Sequences, FiniteSets

CONSTANTS
  Procs,     \* process identifiers
  Envs,      \* the environments the programs of the build make up
  MaxDepth   \* how deep calls of wrappers nest

\* An environment is a sequence of <<key, value>>; a value is the tracer's or
\* the build's own.  ENV_LIBRARY_PATH goes the way of ENV_PRELOAD.
Preload == "ENV_PRELOAD"
Output  == "ENV_OUTPUT"
Tracers == "tracer"
Entries == {Preload, Output, "other"} \X {Tracers, "build"}

\* The wrappers that differ: execv and execvpe are like execve, execvP like execvp,
\* execle like execl, and posix_spawnp like posix_spawn.
Functions == {"execve", "execvp", "execl", "execlp", "posix_spawn"}
GivenEnvironment == {"execve", "posix_spawn"}
Inserting == {"execve", "execl", "posix_spawn"}
StateKept == {"execve", "execvp"}    \* they pass on report_state
Inner == {"execve"}                  \* what the C library calls itself

ASSUME ExecAssumption ==
  /\ Envs \subseteq Seq(Entries)
  /\ MaxDepth \in Nat \ {0}

VARIABLES
  alive,             \* the running processes that have the library
  already_reported,  \* the flag of each process
  environ,           \* the environment of each process
  calls,             \* its active wrappers, [fun, env, report_state, told]
  spawned,           \* it has called posix_spawn, or was forked after that
  started            \* how the latest new program was: [told, spawned, traced, changed,
                     \* repeated]; spawned and changed (its environment) of its caller

processVars == <<alive, already_reported, environ, calls, spawned>>
vars == <<processVars, started>>

TracerEnv == << <<"other", "build">>, <<Preload, Tracers>>, <<Output, Tracers>> >>

-----------------------------------------------------------------------------
(* Environments.                                                           *)

HasKey(env, key) == \E n \in DOMAIN env : env[n][1] = key

\* getenv: the first entry of the key.
Getenv(env, key) ==
  LET first == CHOOSE n \in DOMAIN env :
                 env[n][1] = key /\ \A m \in DOMAIN env : env[m][1] = key => n <= m
  IN env[first][2]

\* The entries of other keys, in their order.
Without(env, key) ==
  LET kept[n \in 0 .. Len(env)] ==
        IF n = 0 THEN <<>>
        ELSE IF env[n][1] = key THEN kept[n - 1] ELSE Append(kept[n - 1], env[n])
  IN kept[Len(env)]

\* Mutant of EnvInsert: the entries of the key are not removed.
EnvInsertMore(env, key, value) == Append(env, <<key, value>>)

\* bear_env_insert.  A removal starts the scan again behind the first entry, so
\* the entry that moved to the front is not looked at.
EnvInsert(env, key, value) ==
  LET front == env # <<>> /\ env[1][1] = key
      kept == IF front /\ Len(env) > 1
              THEN <<env[2]>> \o Without(SubSeq(env, 3, Len(env)), key)
              ELSE Without(env, key)
  IN Append(kept, <<key, value>>)

\* The environment the real call gets from a process with this environ.
Passed(fun, env, own) ==
  IF fun \in Inserting
  THEN EnvInsert(EnvInsert(env, Preload, Getenv(own, Preload)), Output, Getenv(own, Output))
  ELSE env

Traced(env) ==
  /\ HasKey(env, Preload) /\ Getenv(env, Preload) = Tracers
  /\ HasKey(env, Output) /\ Getenv(env, Output) = Tracers

\* One of the tracer's variables comes twice.
Repeats(env) ==
  \E m, n \in DOMAIN env : m # n /\ env[m][1] = env[n][1] /\ env[m][1] # "other"

-----------------------------------------------------------------------------
(* The wrappers.                                                           *)

Depth(p) == Len(calls[p])
Idle(p) == calls[p] = <<>>
Top(p) == calls[p][Depth(p)]
Pop(p) == SubSeq(calls[p], 1, Depth(p) - 1)

PassedOn(p) == Passed(Top(p).fun, Top(p).env, environ[p])

\* The program calls a wrapper, or the C library does from the real call.
MayCall(p, fun) ==
  /\ p \in alive /\ Depth(p) < MaxDepth
  /\ ~Idle(p) => fun \in Inner /\ Top(p).fun # "posix_spawn"

\* report_call and bear_env_insert end the program when a variable is unset.
Survives(p, fun) ==
  /\ already_reported[p] \/ HasKey(environ[p], Output)
  /\ fun \in Inserting => HasKey(environ[p], Preload) /\ HasKey(environ[p], Output)

\* A nested call is given what the outer one passed on.
Arguments(p, fun) ==
  IF ~Idle(p) THEN {PassedOn(p)}
  ELSE IF fun \in GivenEnvironment THEN Envs \cup {environ[p]} ELSE {environ[p]}

\* Mutant of Frame: no wrapper saves the flag.
FrameUnsaved(p, fun, env) ==
  [fun |-> fun, env |-> env, report_state |-> FALSE, told |-> ~already_reported[p]]

Frame(p, fun, env) ==
  [fun |-> fun, env |-> env,
   report_state |-> fun \in StateKept /\ already_reported[p],
   told |-> ~already_reported[p]]

\* Mutant of Call: the flag is not set.
CallUnmarked(p, fun, env) ==
  /\ MayCall(p, fun) /\ Survives(p, fun)
  /\ calls' = [calls EXCEPT ![p] = Append(@, Frame(p, fun, env))]
  /\ spawned' = [spawned EXCEPT ![p] = @ \/ fun = "posix_spawn"]
  /\ UNCHANGED <<alive, already_reported, environ, started>>

\* report_call, then the real call begins.
Call(p, fun, env) ==
  /\ MayCall(p, fun) /\ Survives(p, fun)
  /\ calls' = [calls EXCEPT ![p] = Append(@, Frame(p, fun, env))]
  /\ already_reported' = [already_reported EXCEPT ![p] = TRUE]
  /\ spawned' = [spawned EXCEPT ![p] = @ \/ fun = "posix_spawn"]
  /\ UNCHANGED <<alive, environ, started>>

Gone(p) ==
  /\ alive' = alive \ {p}
  /\ already_reported' = [already_reported EXCEPT ![p] = FALSE]
  /\ environ' = [environ EXCEPT ![p] = <<>>]
  /\ calls' = [calls EXCEPT ![p] = <<>>]
  /\ spawned' = [spawned EXCEPT ![p] = FALSE]
  /\ UNCHANGED <<started>>

\* exit(EXIT_FAILURE), in the place of the program's call.
CallExits(p, fun) ==
  /\ MayCall(p, fun) /\ ~Survives(p, fun)
  /\ Gone(p)

\* Mutant of Fail: a failed call keeps the flag.
FailMarked(p) ==
  /\ p \in alive /\ ~Idle(p)
  /\ calls' = [calls EXCEPT ![p] = Pop(p)]
  /\ UNCHANGED <<alive, already_reported, environ, spawned, started>>

\* The real call fails.  report_failed_call takes the flag back, except in the
\* posix_spawn wrappers, which do not call it.
Fail(p) ==
  /\ p \in alive /\ ~Idle(p)
  /\ already_reported' = [already_reported EXCEPT ![p] =
       @ /\ (Top(p).report_state \/ Top(p).fun = "posix_spawn")]
  /\ calls' = [calls EXCEPT ![p] = Pop(p)]
  /\ UNCHANGED <<alive, environ, spawned, started>>

\* A new program starts in process q, from the real call of process p.
NewProgram(p, q) ==
  LET env == PassedOn(p) IN
  /\ alive' = IF Traced(env) THEN alive \cup {q} ELSE alive \ {q}
  /\ environ' = [environ EXCEPT ![q] = IF Traced(env) THEN env ELSE <<>>]
  /\ started' = [told |-> \E n \in DOMAIN calls[p] : calls[p][n].told,
                 spawned |-> spawned[p], traced |-> Traced(env),
                 changed |-> ~Traced(environ[p]), repeated |-> Repeats(Top(p).env)]

\* The image of the process is replaced, the library's variables with it.
Exec(p) ==
  /\ p \in alive /\ ~Idle(p) /\ Top(p).fun # "posix_spawn"
  /\ NewProgram(p, p)
  /\ already_reported' = [already_reported EXCEPT ![p] = FALSE]
  /\ calls' = [calls EXCEPT ![p] = <<>>]
  /\ spawned' = [spawned EXCEPT ![p] = FALSE]

\* The spawning process goes on, with its flag set.
Spawn(p, child) ==
  /\ p \in alive /\ ~Idle(p) /\ Top(p).fun = "posix_spawn" /\ child \in Procs \ alive
  /\ NewProgram(p, child)
  /\ already_reported' = [already_reported EXCEPT ![child] = FALSE]
  /\ calls' = [calls EXCEPT ![p] = Pop(p), ![child] = <<>>]
  /\ spawned' = [spawned EXCEPT ![child] = FALSE]

\* fork, and vfork, copy the flag with the rest of the process.
Fork(p, child) ==
  /\ p \in alive /\ Idle(p) /\ child \in Procs \ alive
  /\ alive' = alive \cup {child}
  /\ already_reported' = [already_reported EXCEPT ![child] = already_reported[p]]
  /\ environ' = [environ EXCEPT ![child] = environ[p]]
  /\ calls' = [calls EXCEPT ![child] = <<>>]
  /\ spawned' = [spawned EXCEPT ![child] = spawned[p]]
  /\ UNCHANGED <<started>>

\* The program changes its own environment.
Setenv(p, env) ==
  /\ p \in alive /\ Idle(p)
  /\ environ' = [environ EXCEPT ![p] = env]
  /\ UNCHANGED <<alive, already_reported, calls, spawned, started>>

End(p) ==
  /\ p \in alive /\ Idle(p)
  /\ Gone(p)

\* unix-tracer starts the root of the build with its variables set.
Init ==
  /\ alive \in {{p} : p \in Procs}
  /\ already_reported = [p \in Procs |-> FALSE]
  /\ environ = [p \in Procs |-> IF p \in alive THEN TracerEnv ELSE <<>>]
  /\ calls = [p \in Procs |-> <<>>]
  /\ spawned = [p \in Procs |-> FALSE]
  /\ started = [told |-> TRUE, spawned |-> FALSE, traced |-> TRUE,
               changed |-> FALSE, repeated |-> FALSE]

Step(p) ==
  \/ \E fun \in Functions : (\E env \in Arguments(p, fun) : Call(p, fun, env)) \/ CallExits(p, fun)
  \/ Fail(p) \/ Exec(p)
  \/ \E child \in Procs : Spawn(p, child) \/ Fork(p, child)
  \/ \E env \in Envs : Setenv(p, env)
  \/ End(p)

Next == \E p \in Procs : Step(p)

Spec == Init /\ [][Next]_vars

-----------------------------------------------------------------------------
(* Properties.                                                             *)

\* The flag says that a call is being made, and the outermost wrapper is the one
\* that told of it, in a process that never spawned: failed attempts, nested
\* calls and forks leave it right.  (execs.c, already_reported.)
FlagMeansCalling ==
  \A p \in alive :
    ~spawned[p] =>
      /\ already_reported[p] <=> ~Idle(p)
      /\ \A n \in DOMAIN calls[p] : calls[p][n].told <=> n = 1

\* No call is told twice, however the C library and the wrappers call each other.
ToldAtMostOnce ==
  \A p \in alive : \A m, n \in DOMAIN calls[p] : calls[p][m].told /\ calls[p][n].told => m = n

\* Every program that is started by a process which never spawned has been told,
\* after failed attempts of it and of its parents as well.
MissedOnlyAfterSpawn == ~started.told => started.spawned

\* The tracer keeps a program and its descendants, whatever environment they
\* give to the next one, unless a program changed the tracer's variables in its
\* own environment, or gives an environment that has one of them twice.
StaysTraced == ~started.traced => started.changed \/ started.repeated

\* Every program of the build is told, as the list of the build systems that the
\* tracer works for has it.  (Tracer.md:19-22.)
EveryProgramTold == started.told

\* The part of the state the reporting is about has its types.  (The environments are
\* of any sequence of entries: bear_env_insert makes new ones of those it is given.)
TypeOK ==
  /\ alive \subseteq Procs
  /\ already_reported \in [Procs -> BOOLEAN] /\ spawned \in [Procs -> BOOLEAN]
  /\ DOMAIN calls = Procs /\ calls = [p \in Procs |-> calls[p]]

\* The outermost wrapper of a process that never spawned told and will take the
\* flag back; an inner one found the flag set and will leave it.
FlagInv ==
  \A p \in Procs :
    /\ ~Idle(p) => already_reported[p]
    /\ \A n \in DOMAIN calls[p] :
         n > 1 => /\ ~calls[p][n].told /\ calls[p][n].report_state
                  /\ calls[p][n].fun # "posix_spawn"
    /\ ~spawned[p] =>
         /\ Idle(p) => ~already_reported[p]
         /\ ~Idle(p) => /\ calls[p][1].told /\ ~calls[p][1].report_state
                        /\ calls[p][1].fun # "posix_spawn"

=============================================================================
