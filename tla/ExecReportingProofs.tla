------------------------- MODULE ExecReportingProofs -------------------------
(* Machine-checked proofs about ExecReporting, for every set of processes,     *)
(* every set of environments and every depth of nested calls.                  *)
EXTENDS ExecReporting, ElementLemmas

-----------------------------------------------------------------------------
(* Sequences whose elements have no common type.                           *)

IsSeq(s) == \E S : s \in Seq(S)

\* The length and the places of a sequence.
LEMMA SeqParts == ASSUME NEW s, IsSeq(s)
  PROVE Len(s) \in Nat /\ DOMAIN s = 1 .. Len(s) /\ (s = <<>> <=> Len(s) = 0)
<1>1. PICK S : s \in Seq(S)
  BY DEF IsSeq
<1> QED  BY <1>1, EmptySeq, LenProperties

\* A push keeps what was there and adds one element on top.
LEMMA Pushed == ASSUME NEW s, IsSeq(s), NEW x
  PROVE /\ IsSeq(Append(s, x)) /\ Append(s, x) # <<>>
        /\ DOMAIN Append(s, x) = 1 .. Len(s) + 1
        /\ \A n \in 1 .. Len(s) + 1 : Append(s, x)[n] = IF n <= Len(s) THEN s[n] ELSE x
<1>1. PICK S : s \in Seq(S)
  BY DEF IsSeq
<1> DEFINE T == S \cup {x}
<1>2. s \in [1 .. Len(s) -> S] /\ Len(s) \in Nat
  BY <1>1, LenProperties
<1>3. s \in [1 .. Len(s) -> T]
  BY <1>2
<1>4. s \in Seq(T) /\ x \in T
  BY <1>2, <1>3, SeqDef
<1> HIDE DEF T
<1>5. Append(s, x) \in Seq(T) /\ Len(Append(s, x)) = Len(s) + 1 /\ Append(s, x) # <<>>
  BY <1>2, <1>4, AppendProperties, EmptySeq
<1>6. \A n \in 1 .. Len(s) + 1 : Append(s, x)[n] = IF n <= Len(s) THEN s[n] ELSE x
  BY <1>2, <1>4, AppendProperties
<1>7. DOMAIN Append(s, x) = 1 .. Len(s) + 1
  BY <1>5, LenProperties
<1>8. IsSeq(Append(s, x))
  BY <1>5 DEF IsSeq
<1> QED  BY <1>5, <1>6, <1>7, <1>8

\* A pop keeps everything below the top.
LEMMA Popped == ASSUME NEW s, IsSeq(s), s # <<>>, NEW r, r = SubSeq(s, 1, Len(s) - 1)
  PROVE /\ IsSeq(r) /\ DOMAIN r = 1 .. Len(s) - 1 /\ (r = <<>> <=> Len(s) = 1)
        /\ \A n \in 1 .. Len(s) - 1 : r[n] = s[n]
<1>1. PICK S : s \in Seq(S)
  BY DEF IsSeq
<1>2. Len(s) \in Nat \ {0}
  BY <1>1, EmptySeq, LenProperties
<1> DEFINE k == Len(s) - 1
<1>3. k \in Nat /\ 1 \in Int /\ k \in Int /\ \A i \in 1 .. k : s[i] \in S
  BY <1>1, <1>2, LenProperties
<1>4. r = SubSeq(s, 1, k)
  OBVIOUS
<1> HIDE DEF k
<1>5. /\ r \in Seq(S) /\ Len(r) = IF 1 <= k THEN k - 1 + 1 ELSE 0
      /\ \A i \in 1 .. k - 1 + 1 : r[i] = s[1 + i - 1]
  BY ONLY <1>3, <1>4, SubSeqProperties
<1>6. Len(r) = k /\ \A i \in 1 .. k : r[i] = s[i]
  <2>1. Len(r) = k
    BY ONLY <1>3, <1>5
  <2>2. ASSUME NEW i \in 1 .. k PROVE r[i] = s[i]
    <3>1. i \in 1 .. k - 1 + 1 /\ 1 + i - 1 = i
      BY ONLY <1>3, <2>2
    <3> QED  BY ONLY <1>5, <3>1
  <2> QED  BY ONLY <2>1, <2>2
<1>7. DOMAIN r = 1 .. k /\ (r = <<>> <=> k = 0)
  BY ONLY <1>5, <1>6, EmptySeq, LenProperties
<1>8. k = Len(s) - 1 /\ (k = 0 <=> Len(s) = 1)
  BY ONLY <1>2 DEF k
<1> QED  BY <1>5, <1>6, <1>7, <1>8 DEF IsSeq

-----------------------------------------------------------------------------
(* The inductive invariant.                                                *)

Stacks == \A p \in Procs : IsSeq(calls[p])

IInv == TypeOK /\ Stacks /\ FlagInv /\ MissedOnlyAfterSpawn

\* At the start no process has called anything.
LEMMA InitInvariant == Init => IInv
<1> SUFFICES ASSUME Init PROVE IInv
  OBVIOUS
<1>1. TypeOK
  BY DEF Init, TypeOK
<1>2. IsSeq(<<>>)
  BY EmptySeq DEF IsSeq
<1>3. Stacks
  BY <1>2 DEF Init, Stacks
<1>4. FlagInv
  BY DEF Init, FlagInv, Idle
<1>5. MissedOnlyAfterSpawn
  BY DEF Init, MissedOnlyAfterSpawn
<1> QED  BY <1>1, <1>3, <1>4, <1>5 DEF IInv

\* What the invariant says of one process.
Kept(flag, stack, hasSpawned) ==
  /\ IsSeq(stack)
  /\ stack # <<>> => flag
  /\ \A n \in DOMAIN stack :
       n > 1 => ~stack[n].told /\ stack[n].report_state /\ stack[n].fun # "posix_spawn"
  /\ ~hasSpawned =>
       /\ stack = <<>> => ~flag
       /\ stack # <<>> => stack[1].told /\ ~stack[1].report_state /\ stack[1].fun # "posix_spawn"

\* The invariant is that of each process by itself.
LEMMA KeptByAll ==
  Stacks /\ FlagInv <=> \A p \in Procs : Kept(already_reported[p], calls[p], spawned[p])
BY DEF Stacks, FlagInv, Kept, Idle

\* A process that calls nothing and whose flag is clear satisfies it.
LEMMA KeptEmpty == ASSUME NEW b PROVE Kept(FALSE, <<>>, b)
<1>1. IsSeq(<<>>) /\ DOMAIN <<>> = {}
  BY EmptySeq DEF IsSeq
<1> QED  BY <1>1 DEF Kept

\* Calling: the outermost wrapper tells of the call, the inner ones find the flag.
LEMMA CallKeeps ==
  ASSUME IInv, NEW p \in Procs, NEW fun \in Functions, NEW env, Call(p, fun, env)
  PROVE  /\ Kept(TRUE, Append(calls[p], Frame(p, fun, env)), spawned[p] \/ fun = "posix_spawn")
<1> DEFINE s == calls[p]
           f == Frame(p, fun, env)
           flag == already_reported[p]
<1>1. Kept(flag, s, spawned[p])
  BY KeptByAll DEF IInv
<1>2. flag \in BOOLEAN /\ spawned[p] \in BOOLEAN
  BY DEF IInv, TypeOK
<1>3. f.fun = fun /\ f.told = ~flag /\ f.report_state = (fun \in StateKept /\ flag)
  BY <1>2 DEF Frame
<1>4. IsSeq(s)
  BY <1>1 DEF Kept
<1>5. s # <<>> => fun = "execve"
  BY DEF Call, MayCall, Inner, Idle
<1> HIDE DEF s, f, flag
<1>6. /\ IsSeq(Append(s, f)) /\ Append(s, f) # <<>>
      /\ DOMAIN Append(s, f) = 1 .. Len(s) + 1
      /\ \A n \in 1 .. Len(s) + 1 : Append(s, f)[n] = IF n <= Len(s) THEN s[n] ELSE f
  BY <1>4, Pushed
<1>7. Len(s) \in Nat /\ DOMAIN s = 1 .. Len(s) /\ (s = <<>> <=> Len(s) = 0)
  BY <1>4, SeqParts
<1>8. ASSUME NEW n \in DOMAIN Append(s, f), n > 1
      PROVE  /\ ~Append(s, f)[n].told /\ Append(s, f)[n].report_state
             /\ Append(s, f)[n].fun # "posix_spawn"
  <2>1. CASE n <= Len(s)
    BY <1>1, <1>6, <1>7, <1>8, <2>1 DEF Kept
  <2>2. CASE n > Len(s)
    <3>1. s # <<>> /\ Append(s, f)[n] = f
      BY <1>6, <1>7, <1>8, <2>2
    <3>2. flag /\ fun = "execve"
      BY <1>1, <1>5, <3>1 DEF Kept
    <3> QED  BY <1>3, <3>1, <3>2 DEF StateKept
  <2> QED  BY <1>6, <1>7, <1>8, <2>1, <2>2
<1>9. ASSUME ~(spawned[p] \/ fun = "posix_spawn")
      PROVE  /\ Append(s, f)[1].told /\ ~Append(s, f)[1].report_state
             /\ Append(s, f)[1].fun # "posix_spawn"
  <2>1. CASE s = <<>>
    <3>1. Append(s, f)[1] = f /\ ~flag
      BY <1>1, <1>6, <1>7, <1>9, <2>1 DEF Kept
    <3> QED  BY <1>3, <1>9, <3>1
  <2>2. CASE s # <<>>
    <3>1. Append(s, f)[1] = s[1]
      BY <1>6, <1>7, <2>2
    <3> QED  BY <1>1, <1>9, <2>2, <3>1 DEF Kept
  <2> QED  BY <2>1, <2>2
<1>10. Kept(TRUE, Append(s, f), spawned[p] \/ fun = "posix_spawn")
  BY <1>6, <1>8, <1>9 DEF Kept
<1> QED  BY <1>10 DEF s, f

\* Failing: only the wrapper that set the flag takes it back.
LEMMA FailKeeps ==
  ASSUME IInv, NEW p \in Procs, ~Idle(p)
  PROVE  LET kept == Top(p).report_state \/ Top(p).fun = "posix_spawn"
         IN  Kept(already_reported[p] /\ kept, Pop(p), spawned[p])
<1> DEFINE s == calls[p]
           flag == already_reported[p]
           top == s[Len(s)]
           r == SubSeq(s, 1, Len(s) - 1)
           kept == top.report_state \/ top.fun = "posix_spawn"
<1>1. Kept(flag, s, spawned[p]) /\ s # <<>>
  BY KeptByAll DEF IInv, Idle
<1>2. r = Pop(p) /\ top = Top(p)
  BY DEF Pop, Top, Depth
<1>3. IsSeq(s)
  BY <1>1 DEF Kept
<1> HIDE DEF s, flag
<1>4. Len(s) \in Nat /\ Len(s) # 0 /\ DOMAIN s = 1 .. Len(s)
  BY <1>1, <1>3, SeqParts
<1>5. /\ IsSeq(r) /\ DOMAIN r = 1 .. Len(s) - 1 /\ (r = <<>> <=> Len(s) = 1)
      /\ \A n \in 1 .. Len(s) - 1 : r[n] = s[n]
  BY <1>1, <1>3, Popped
<1> HIDE DEF r
<1>6. r # <<>> => flag /\ kept
  BY <1>1, <1>4, <1>5 DEF Kept
<1>7. \A n \in DOMAIN r :
        n > 1 => ~r[n].told /\ r[n].report_state /\ r[n].fun # "posix_spawn"
  BY <1>1, <1>4, <1>5 DEF Kept
<1>8. ASSUME ~spawned[p]
      PROVE  /\ r = <<>> => ~kept
             /\ r # <<>> => r[1].told /\ ~r[1].report_state /\ r[1].fun # "posix_spawn"
  BY <1>1, <1>4, <1>5, <1>8 DEF Kept
<1> HIDE DEF kept
<1>9. Kept(flag /\ kept, r, spawned[p])
  BY <1>5, <1>6, <1>7, <1>8 DEF Kept
<1> QED  BY <1>2, <1>9 DEF kept, flag, top

\* A program that is started by a process which never spawned has been told.
LEMMA NewProgramTold ==
  ASSUME IInv, NEW p \in Procs, NEW q \in Procs, ~Idle(p), NewProgram(p, q)
  PROVE  MissedOnlyAfterSpawn'
<1>1. Kept(already_reported[p], calls[p], spawned[p]) /\ spawned[p] \in BOOLEAN
  BY KeptByAll DEF IInv, TypeOK
<1>2. started'.told = (\E n \in DOMAIN calls[p] : calls[p][n].told)
      /\ started'.spawned = spawned[p]
  BY DEF NewProgram
<1>3. 1 \in DOMAIN calls[p]
  BY <1>1, SeqParts DEF Kept, Idle
<1> QED  BY <1>1, <1>2, <1>3 DEF Kept, MissedOnlyAfterSpawn, Idle

-----------------------------------------------------------------------------
(* Every step keeps the invariant.                                         *)

\* The steps change the flag, the stack and the history of one process.
LEMMA OneProcess ==
  ASSUME IInv, NEW q \in Procs, NEW flag \in BOOLEAN, NEW stack, NEW has \in BOOLEAN,
         Kept(flag, stack, has),
         already_reported' = [already_reported EXCEPT ![q] = flag],
         calls' = [calls EXCEPT ![q] = stack],
         spawned' = [spawned EXCEPT ![q] = has],
         alive' \subseteq Procs
  PROVE  TypeOK' /\ Stacks' /\ FlagInv'
<1>1. TypeOK'
  BY DEF IInv, TypeOK
<1>2. \A p \in Procs : Kept(already_reported[p], calls[p], spawned[p])
  BY KeptByAll DEF IInv
<1>3. \A p \in Procs : Kept(already_reported'[p], calls'[p], spawned'[p])
  BY <1>2 DEF IInv, TypeOK
<1>4. Stacks' /\ FlagInv'
  BY <1>3 DEF Stacks, FlagInv, Kept, Idle
<1> QED  BY <1>1, <1>4

\* Every step of the build keeps the stacks of calls and the flags.
LEMMA NextInvariant == IInv /\ [Next]_vars => IInv'
<1> SUFFICES ASSUME IInv, [Next]_vars PROVE IInv'
  OBVIOUS
<1>u. CASE UNCHANGED vars
  BY <1>u DEF vars, processVars, IInv, TypeOK, Stacks, FlagInv, MissedOnlyAfterSpawn, Idle
<1>t. /\ alive \subseteq Procs /\ DOMAIN calls = Procs
      /\ already_reported \in [Procs -> BOOLEAN] /\ spawned \in [Procs -> BOOLEAN]
      /\ calls = [p \in Procs |-> calls[p]]
      /\ \A p \in Procs : Kept(already_reported[p], calls[p], spawned[p])
  BY KeptByAll DEF IInv, TypeOK
<1>m. UNCHANGED started => MissedOnlyAfterSpawn'
  BY DEF IInv, MissedOnlyAfterSpawn
<1>1. ASSUME NEW p \in Procs, NEW fun \in Functions, NEW env, Call(p, fun, env) PROVE IInv'
  <2>1. Kept(TRUE, Append(calls[p], Frame(p, fun, env)), spawned[p] \/ fun = "posix_spawn")
    BY <1>1, CallKeeps
  <2>2. /\ calls' = [calls EXCEPT ![p] = Append(calls[p], Frame(p, fun, env))]
        /\ already_reported' = [already_reported EXCEPT ![p] = TRUE]
        /\ spawned' = [spawned EXCEPT ![p] = spawned[p] \/ fun = "posix_spawn"]
        /\ alive' = alive /\ started' = started
    BY <1>1 DEF Call
  <2>3. (spawned[p] \/ fun = "posix_spawn") \in BOOLEAN
    OBVIOUS
  <2>4. TypeOK' /\ Stacks' /\ FlagInv'
    BY <1>t, <2>1, <2>2, <2>3, OneProcess
  <2> QED  BY <1>m, <2>2, <2>4 DEF IInv
<1>2. ASSUME NEW p \in Procs, Gone(p) PROVE IInv'
  <2>1. Kept(FALSE, <<>>, FALSE)
    BY KeptEmpty
  <2>2. TypeOK' /\ Stacks' /\ FlagInv'
    BY <1>t, <1>2, <2>1, OneProcess DEF Gone
  <2> QED  BY <1>2, <1>m, <2>2 DEF IInv, Gone
<1>3. ASSUME NEW p \in Procs, Fail(p) PROVE IInv'
  <2> DEFINE kept == Top(p).report_state \/ Top(p).fun = "posix_spawn"
  <2>1. Kept(already_reported[p] /\ kept, Pop(p), spawned[p])
    BY <1>3, FailKeeps DEF Fail
  <2>2. /\ already_reported' = [already_reported EXCEPT ![p] = already_reported[p] /\ kept]
        /\ calls' = [calls EXCEPT ![p] = Pop(p)]
        /\ alive' = alive /\ spawned' = spawned /\ started' = started
    BY <1>3 DEF Fail
  <2>3. spawned' = [spawned EXCEPT ![p] = spawned[p]] /\ spawned[p] \in BOOLEAN
    BY <1>t, <2>2
  <2>4. (already_reported[p] /\ kept) \in BOOLEAN
    OBVIOUS
  <2> DEFINE flag == already_reported[p] /\ kept
             stack == Pop(p)
             has == spawned[p]
  <2>5. /\ Kept(flag, stack, has) /\ flag \in BOOLEAN /\ has \in BOOLEAN
        /\ already_reported' = [already_reported EXCEPT ![p] = flag]
        /\ calls' = [calls EXCEPT ![p] = stack]
        /\ spawned' = [spawned EXCEPT ![p] = has] /\ alive' \subseteq Procs
    BY <1>t, <2>1, <2>2, <2>3, <2>4
  <2> HIDE DEF kept, flag, stack, has
  <2>6. TypeOK' /\ Stacks' /\ FlagInv'
    BY <2>5, OneProcess
  <2> QED  BY <1>m, <2>2, <2>6 DEF IInv
<1>4. ASSUME NEW p \in Procs, Exec(p) PROVE IInv'
  <2>1. MissedOnlyAfterSpawn'
    BY <1>4, NewProgramTold DEF Exec
  <2>2. Kept(FALSE, <<>>, FALSE) /\ alive' \subseteq Procs
    BY <1>4, <1>t, KeptEmpty DEF Exec, NewProgram
  <2>3. TypeOK' /\ Stacks' /\ FlagInv'
    BY <1>4, <2>2, OneProcess DEF Exec
  <2> QED  BY <2>1, <2>3 DEF IInv
<1>5. ASSUME NEW p \in Procs, NEW child \in Procs, Spawn(p, child) PROVE IInv'
  <2>1. MissedOnlyAfterSpawn'
    BY <1>5, NewProgramTold DEF Spawn
  <2>2. p # child /\ ~Idle(p) /\ Top(p).fun = "posix_spawn"
    BY <1>5 DEF Spawn
  <2>3. Kept(already_reported[p], Pop(p), spawned[p])
    <3> DEFINE kept == Top(p).report_state \/ Top(p).fun = "posix_spawn"
    <3>1. Kept(already_reported[p] /\ kept, Pop(p), spawned[p])
      BY <2>2, FailKeeps
    <3>2. (already_reported[p] /\ kept) = already_reported[p]
      BY <1>t, <2>2
    <3> QED  BY <3>1, <3>2
  <2>4. Kept(FALSE, <<>>, FALSE)
    BY KeptEmpty
  <2>5. /\ alive' \subseteq Procs
        /\ already_reported' = [already_reported EXCEPT ![child] = FALSE]
        /\ calls' = [calls EXCEPT ![p] = Pop(p), ![child] = <<>>]
        /\ spawned' = [spawned EXCEPT ![child] = FALSE]
    BY <1>5, <1>t DEF Spawn, NewProgram
  <2>6. TypeOK'
    BY <1>t, <2>5 DEF TypeOK
  <2>7. ASSUME NEW r \in Procs PROVE Kept(already_reported'[r], calls'[r], spawned'[r])
    <3>1. CASE r = child
      <4>1. already_reported'[r] = FALSE /\ calls'[r] = <<>> /\ spawned'[r] = FALSE
        BY <1>t, <2>5, <3>1
      <4> QED  BY <2>4, <4>1
    <3>2. CASE r = p
      <4>1. already_reported'[r] = already_reported[p] /\ calls'[r] = Pop(p)
            /\ spawned'[r] = spawned[p]
        BY <1>t, <2>2, <2>5, <3>2
      <4> QED  BY <2>3, <4>1
    <3>3. CASE r # child /\ r # p
      <4>1. already_reported'[r] = already_reported[r] /\ calls'[r] = calls[r]
            /\ spawned'[r] = spawned[r]
        BY <1>t, <2>5, <3>3
      <4> QED  BY <1>t, <4>1
    <3> QED  BY <3>1, <3>2, <3>3
  <2>8. Stacks' /\ FlagInv'
    BY <2>7 DEF Stacks, FlagInv, Kept, Idle
  <2> QED  BY <2>1, <2>6, <2>8 DEF IInv
<1>6. ASSUME NEW p \in Procs, NEW child \in Procs, Fork(p, child) PROVE IInv'
  <2>1. Kept(already_reported[p], <<>>, spawned[p])
    BY <1>6, <1>t DEF Fork, Idle
  <2>2. already_reported[p] \in BOOLEAN /\ spawned[p] \in BOOLEAN /\ alive' \subseteq Procs
        /\ already_reported' = [already_reported EXCEPT ![child] = already_reported[p]]
        /\ calls' = [calls EXCEPT ![child] = <<>>]
        /\ spawned' = [spawned EXCEPT ![child] = spawned[p]]
    BY <1>6, <1>t DEF Fork
  <2>3. TypeOK' /\ Stacks' /\ FlagInv'
    BY <2>1, <2>2, OneProcess
  <2> QED  BY <1>6, <1>m, <2>3 DEF IInv, Fork
<1>7. ASSUME NEW p \in Procs, NEW env, Setenv(p, env) PROVE IInv'
  <2>1. UNCHANGED <<alive, already_reported, calls, spawned, started>>
    BY <1>7 DEF Setenv
  <2> QED  BY <2>1 DEF IInv, TypeOK, Stacks, FlagInv, MissedOnlyAfterSpawn, Idle
<1>8. ASSUME NEW p \in Procs, Step(p) PROVE IInv'
  BY <1>8, <1>1, <1>2, <1>3, <1>4, <1>5, <1>6, <1>7 DEF Step, CallExits, End
<1> QED  BY <1>u, <1>8 DEF Next

-----------------------------------------------------------------------------
(* The theorems.                                                           *)

\* The inductive invariant holds in every reachable state: what the flag and the
\* stack of active wrappers of a process say of each other (execs.c).
THEOREM Invariance == Spec => []IInv
<1> QED  BY InitInvariant, NextInvariant, PTL DEF Spec

\* The flag already_reported is set exactly while a process that never spawned is
\* in a call, and the outermost wrapper of the call is the one that told of it.
THEOREM FlagIsRight == Spec => []FlagMeansCalling
<1>1. IInv => FlagMeansCalling
  <2> SUFFICES ASSUME IInv, NEW p \in alive, ~spawned[p]
               PROVE  /\ already_reported[p] <=> ~Idle(p)
                      /\ \A n \in DOMAIN calls[p] : calls[p][n].told <=> n = 1
    BY DEF FlagMeansCalling
  <2>1. p \in Procs /\ Kept(already_reported[p], calls[p], spawned[p])
        /\ already_reported[p] \in BOOLEAN
    BY KeptByAll DEF IInv, TypeOK
  <2>2. already_reported[p] <=> ~Idle(p)
    BY <2>1 DEF Kept, Idle
  <2>3. Len(calls[p]) \in Nat /\ DOMAIN calls[p] = 1 .. Len(calls[p])
        /\ (calls[p] = <<>> <=> Len(calls[p]) = 0)
    BY <2>1, SeqParts DEF Kept
  <2>4. ASSUME NEW n \in DOMAIN calls[p] PROVE calls[p][n].told <=> n = 1
    BY <2>1, <2>3, <2>4 DEF Kept
  <2> QED  BY <2>2, <2>4
<1> QED  BY <1>1, Invariance, PTL

\* No wrapper that is called while another is active tells of the call again.
THEOREM ToldOnce == Spec => []ToldAtMostOnce
<1>1. IInv => ToldAtMostOnce
  <2> SUFFICES ASSUME IInv, NEW p \in alive, NEW m \in DOMAIN calls[p], NEW n \in DOMAIN calls[p],
                      calls[p][m].told, calls[p][n].told
               PROVE  m = n
    BY DEF ToldAtMostOnce
  <2>1. p \in Procs /\ Kept(already_reported[p], calls[p], spawned[p])
    BY KeptByAll DEF IInv, TypeOK
  <2>2. Len(calls[p]) \in Nat /\ DOMAIN calls[p] = 1 .. Len(calls[p])
    BY <2>1, SeqParts DEF Kept
  <2>3. ~(m > 1) /\ ~(n > 1)
    BY <2>1 DEF Kept
  <2> QED  BY <2>2, <2>3
<1> QED  BY <1>1, Invariance, PTL

\* A program that starts untold was started by a process with a posix_spawn in
\* its past: only the wrappers of posix_spawn leave the flag set (execs.c:192).
THEOREM OnlySpawnHides == Spec => []MissedOnlyAfterSpawn
<1>1. IInv => MissedOnlyAfterSpawn
  BY DEF IInv
<1> QED  BY <1>1, Invariance, PTL

-----------------------------------------------------------------------------
(* Environments: what bear_env_insert makes of one.                        *)

Once(env, key) == \A m, n \in DOMAIN env : env[m][1] = key /\ env[n][1] = key => m = n

\* Without is computed place by place.
LEMMA WithoutSteps ==
  ASSUME NEW S, NEW env \in Seq(S), NEW key
  PROVE  \E kept : /\ kept[0] = <<>> /\ Without(env, key) = kept[Len(env)]
                   /\ \A n \in 1 .. Len(env) :
                        kept[n] = IF env[n][1] = key THEN kept[n - 1]
                                  ELSE Append(kept[n - 1], env[n])
<1> DEFINE Body(f) == [n \in 0 .. Len(env) |->
                         IF n = 0 THEN <<>>
                         ELSE IF env[n][1] = key THEN f[n - 1] ELSE Append(f[n - 1], env[n])]
           kept == CHOOSE f : f = Body(f)
           Grow == [n \in Nat |-> [w \in Seq(S) |->
                      IF n + 1 \in 1 .. Len(env) /\ env[n + 1][1] # key
                      THEN Append(w, env[n + 1]) ELSE w]]
<1>1. Len(env) \in Nat /\ \A n \in 1 .. Len(env) : env[n] \in S
  BY LenProperties
<1>2. Grow \in [Nat -> [Seq(S) -> Seq(S)]]
  BY <1>1, AppendProperties
<1>3. <<>> \in Seq(S)
  BY EmptySeq
<1>4. PICK f \in [Nat -> Seq(S)] : Follows(f, <<>>, Grow)
  <2> HIDE DEF Grow
  <2> QED  BY <1>2, <1>3, RecursionExists
<1>5. ASSUME NEW n \in 1 .. Len(env)
      PROVE  f[n] = IF env[n][1] = key THEN f[n - 1] ELSE Append(f[n - 1], env[n])
  <2>1. n - 1 \in Nat /\ (n - 1) + 1 = n /\ f[n - 1] \in Seq(S)
    BY <1>1
  <2>2. f[n] = Grow[n - 1][f[n - 1]]
    <3> HIDE DEF Grow
    <3> QED  BY <1>4, <2>1 DEF Follows
  <2>3. Grow[n - 1][f[n - 1]] =
          IF env[n][1] = key THEN f[n - 1] ELSE Append(f[n - 1], env[n])
    BY <2>1
  <2> QED  BY <2>2, <2>3
<1>6. [n \in 0 .. Len(env) |-> f[n]] = Body([n \in 0 .. Len(env) |-> f[n]])
  <2> DEFINE g == [n \in 0 .. Len(env) |-> f[n]]
  <2>1. ASSUME NEW n \in 0 .. Len(env) PROVE g[n] = Body(g)[n]
    <3>1. CASE n = 0  BY <1>4, <3>1 DEF Follows
    <3>2. CASE n # 0
      <4>1. n \in 1 .. Len(env) /\ n - 1 \in 0 .. Len(env)  BY <1>1, <3>2
      <4>2. g[n] = f[n] /\ g[n - 1] = f[n - 1]  BY <4>1
      <4> HIDE DEF g
      <4> QED  BY <1>5, <3>2, <4>1, <4>2
    <3> QED  BY <3>1, <3>2
  <2>2. g \in [0 .. Len(env) -> Seq(S)] /\ g = [n \in 0 .. Len(env) |-> g[n]]
    BY <1>1
  <2> HIDE DEF g
  <2> QED  BY <2>1, <2>2 DEF g
<1>7. kept = Body(kept)
  <2> HIDE DEF Body
  <2> QED  BY <1>6
<1>8. Without(env, key) = kept[Len(env)]
  BY DEF Without
<1> HIDE DEF kept
<1>9. /\ kept[0] = <<>>
      /\ \A n \in 1 .. Len(env) :
           kept[n] = IF env[n][1] = key THEN kept[n - 1] ELSE Append(kept[n - 1], env[n])
  <2>1. DOMAIN kept = 0 .. Len(env)  BY <1>7
  <2>2. \A n \in 0 .. Len(env) :
          kept[n] = IF n = 0 THEN <<>>
                    ELSE IF env[n][1] = key THEN kept[n - 1] ELSE Append(kept[n - 1], env[n])
    <3>1. \A n \in 0 .. Len(env) : kept[n] = Body(kept)[n]
      <4> HIDE DEF Body
      <4> QED  BY <1>7
    <3> QED  BY <3>1
  <2> QED  BY <1>1, <2>2
<1> QED  BY <1>8, <1>9

\* It keeps exactly the entries of other keys, and none comes twice that did not.
LEMMA WithoutKeeps ==
  ASSUME NEW S, NEW env \in Seq(S), NEW key
  PROVE  LET w == Without(env, key)
         IN  /\ w \in Seq(S)
             /\ Range(w) = {e \in Range(env) : e[1] # key}
             /\ \A k : Once(env, k) => Once(w, k)
<1>1. PICK kept : /\ kept[0] = <<>> /\ Without(env, key) = kept[Len(env)]
                  /\ \A n \in 1 .. Len(env) :
                       kept[n] = IF env[n][1] = key THEN kept[n - 1]
                                 ELSE Append(kept[n - 1], env[n])
  BY WithoutSteps
<1>2. Len(env) \in Nat /\ DOMAIN env = 1 .. Len(env) /\ \A n \in 1 .. Len(env) : env[n] \in S
  BY LenProperties
<1> DEFINE Others(n) == {env[i] : i \in {j \in 1 .. n : env[j][1] # key}}
           Right(w, n) == /\ w \in Seq(S) /\ Range(w) = Others(n)
                          /\ \A k : Once(env, k) => Once(w, k)
           P == {n \in Nat : n <= Len(env) => Right(kept[n], n)}
<1>3. 0 \in P
  <2>1. <<>> \in Seq(S) /\ DOMAIN <<>> = {}
    BY EmptySeq
  <2>2. Range(<<>>) = {} /\ Others(0) = {}
    BY <2>1 DEF Range
  <2>3. \A k : Once(<<>>, k)
    BY <2>1 DEF Once
  <2> QED  BY <1>1, <2>1, <2>2, <2>3
<1>4. ASSUME NEW n \in Nat, n \in P PROVE n + 1 \in P
  <2> SUFFICES ASSUME n + 1 <= Len(env) PROVE Right(kept[n + 1], n + 1)
    OBVIOUS
  <2> DEFINE w == kept[n]  e == env[n + 1]
  <2>1. n <= Len(env) /\ n + 1 \in 1 .. Len(env) /\ (n + 1) - 1 = n
    BY <1>2
  <2>2. w \in Seq(S) /\ Range(w) = Others(n) /\ \A k : Once(env, k) => Once(w, k)
    BY <1>4, <2>1
  <2>3. kept[n + 1] = IF e[1] = key THEN w ELSE Append(w, e)
    <3>1. kept[n + 1] = IF env[n + 1][1] = key THEN kept[(n + 1) - 1]
                        ELSE Append(kept[(n + 1) - 1], env[n + 1])
      BY <1>1, <2>1
    <3> QED  BY <2>1, <3>1
  <2>4. Others(n + 1) = IF e[1] = key THEN Others(n) ELSE Others(n) \cup {e}
    <3>1. 1 .. n + 1 = 1 .. n \cup {n + 1}
      OBVIOUS
    <3> QED  BY <3>1
  <2>5. e \in S
    BY <1>2, <2>1
  <2> HIDE DEF w
  <2>6. CASE e[1] = key
    BY <2>2, <2>3, <2>4, <2>6
  <2>7. CASE e[1] # key
    <3>1. /\ Append(w, e) \in Seq(S) /\ Range(Append(w, e)) = Range(w) \cup {e}
          /\ Len(w) \in Nat /\ DOMAIN w = 1 .. Len(w)
          /\ DOMAIN Append(w, e) = 1 .. Len(w) + 1 /\ Append(w, e)[Len(w) + 1] = e
          /\ \A i \in 1 .. Len(w) : Append(w, e)[i] = w[i]
      BY <2>2, <2>5, AppendElements, AppendProperties, LenProperties
    <3>2. ASSUME NEW k, Once(env, k) PROVE Once(Append(w, e), k)
      <4>1. CASE e[1] # k
        <5>1. Once(w, k)  BY <2>2, <3>2
        <5> HIDE DEF e
        <5> QED  BY <3>1, <4>1, <5>1 DEF Once
      <4>2. CASE e[1] = k
        <5>1. \A i \in 1 .. n : env[i][1] # k
          <6>1. \A i \in 1 .. n : i \in DOMAIN env /\ n + 1 \in DOMAIN env /\ i # n + 1
            BY <1>2, <2>1
          <6> QED  BY <3>2, <4>2, <6>1 DEF Once
        <5>2. \A x \in Range(w) : x[1] # k
          BY <2>2, <5>1
        <5>3. \A i \in 1 .. Len(w) : w[i][1] # k
          BY <3>1, <5>2 DEF Range
        <5> HIDE DEF e
        <5> QED  BY <3>1, <5>3 DEF Once
      <4> QED  BY <4>1, <4>2
    <3>3. Range(Append(w, e)) = Others(n + 1) /\ kept[n + 1] = Append(w, e)
      <4> HIDE DEF Others, e
      <4> QED  BY <2>2, <2>3, <2>4, <2>7, <3>1
    <3> HIDE DEF Others, e
    <3> QED  BY <3>1, <3>2, <3>3
  <2> QED  BY <2>6, <2>7
<1>5. Right(kept[Len(env)], Len(env))
  <2> HIDE DEF P
  <2>1. \A n \in Nat : n \in P
    BY <1>3, <1>4, SetInduction
  <2> QED  BY <1>2, <2>1 DEF P
<1>6. Others(Len(env)) = {e \in Range(env) : e[1] # key}
  BY <1>2 DEF Range
<1> HIDE DEF Others
<1> QED  BY <1>1, <1>5, <1>6

\* bear_env_insert: the new entry is there; no other key is lost or comes twice; and
\* of a key that came once only the new entry is left, wherever the old one was.
LEMMA Inserted ==
  ASSUME NEW env, IsSeq(env), NEW key, NEW value
  PROVE  LET r == EnvInsert(env, key, value)
         IN  /\ IsSeq(r)
             /\ <<key, value>> \in Range(r)
             /\ Range(r) \subseteq Range(env) \cup {<<key, value>>}
             /\ \A e \in Range(env) : e[1] # key => e \in Range(r)
             /\ Once(env, key) => \A e \in Range(r) : e[1] = key => e = <<key, value>>
             /\ \A k : k # key /\ Once(env, k) => Once(r, k)
<1> DEFINE front == env # <<>> /\ env[1][1] = key
           kept == IF front /\ Len(env) > 1
                   THEN <<env[2]>> \o Without(SubSeq(env, 3, Len(env)), key)
                   ELSE Without(env, key)
           entry == <<key, value>>
<1>1. PICK S0 : env \in Seq(S0)
  BY DEF IsSeq
<1> DEFINE S == S0 \cup {entry}
<1>2. env \in Seq(S) /\ entry \in S
  BY <1>1, SeqMonotonic
<1> HIDE DEF S
<1>3. Len(env) \in Nat /\ DOMAIN env = 1 .. Len(env) /\ \A n \in 1 .. Len(env) : env[n] \in S
  BY <1>2, LenProperties
<1>4. /\ kept \in Seq(S) /\ Range(kept) \subseteq Range(env)
      /\ \A e \in Range(env) : e[1] # key => e \in Range(kept)
      /\ Once(env, key) => \A e \in Range(kept) : e[1] # key
      /\ \A k : Once(env, k) => Once(kept, k)
  <2>1. CASE front /\ Len(env) > 1
    <3> DEFINE rest == SubSeq(env, 3, Len(env))
               w == Without(rest, key)
    <3>1. /\ rest \in Seq(S) /\ Len(rest) = Len(env) - 2
          /\ \A i \in 1 .. Len(env) - 2 : rest[i] = env[i + 2]
      <4>1. \A i \in 3 .. Len(env) : env[i] \in S
        BY <1>3
      <4>2. /\ rest \in Seq(S)
            /\ Len(rest) = IF 3 <= Len(env) THEN Len(env) - 3 + 1 ELSE 0
            /\ \A i \in 1 .. Len(env) - 3 + 1 : rest[i] = env[3 + i - 1]
        BY <1>3, <4>1, SubSeqProperties
      <4> HIDE DEF rest
      <4>3. Len(rest) = Len(env) - 2
        <5>1. Len(env) > 1  BY <2>1
        <5> HIDE DEF front
        <5>2. CASE 3 <= Len(env)  BY <1>3, <4>2, <5>2
        <5>3. CASE Len(env) = 2  BY <4>2, <5>3
        <5>4. \A l \in Nat : l > 1 => 3 <= l \/ l = 2
          OBVIOUS
        <5>5. Len(env) \in Nat  BY <1>3
        <5>6. 3 <= Len(env) \/ Len(env) = 2
          BY ONLY <5>1, <5>4, <5>5
        <5> QED  BY ONLY <5>2, <5>3, <5>6
      <4>4. ASSUME NEW i \in 1 .. Len(env) - 2 PROVE rest[i] = env[i + 2]
        <5>1. i \in 1 .. Len(env) - 3 + 1 /\ 3 + i - 1 = i + 2  BY <1>3
        <5> QED  BY <4>2, <5>1
      <4> QED  BY <4>2, <4>3, <4>4
    <3> HIDE DEF rest
    <3>2. DOMAIN rest = 1 .. Len(env) - 2
      BY <3>1, LenProperties
    <3>3. /\ w \in Seq(S) /\ Range(w) = {e \in Range(rest) : e[1] # key}
          /\ \A k : Once(rest, k) => Once(w, k)
      BY <3>1, WithoutKeeps
    <3> HIDE DEF w
    <3>4. kept = <<env[2]>> \o w /\ <<env[2]>> \in Seq(S) /\ Len(<<env[2]>>) = 1
          /\ <<env[2]>>[1] = env[2]
      BY <1>3, <2>1 DEF w, rest
    <3>5. Len(w) \in Nat /\ DOMAIN w = 1 .. Len(w)
      BY <3>3, LenProperties
    <3>6. /\ kept \in Seq(S) /\ Len(kept) = 1 + Len(w)
          /\ \A i \in 1 .. 1 + Len(w) : kept[i] = IF i <= 1 THEN env[2] ELSE w[i - 1]
      <4> HIDE DEF kept
      <4>1. PICK one : one = <<env[2]>>
        OBVIOUS
      <4>2. /\ one \o w \in Seq(S) /\ Len(one \o w) = Len(one) + Len(w)
            /\ \A i \in 1 .. Len(one) + Len(w) :
                 (one \o w)[i] = IF i <= Len(one) THEN one[i] ELSE w[i - Len(one)]
        BY <3>3, <3>4, <4>1, ConcatProperties
      <4>3. Len(one) = 1 /\ one[1] = env[2] /\ kept = one \o w
        BY <3>4, <4>1
      <4> QED  BY <3>5, <4>2, <4>3
    <3> HIDE DEF kept
    <3>7. DOMAIN kept = 1 .. 1 + Len(w)
      BY <3>6, LenProperties
    <3>8. Range(kept) = {env[2]} \cup Range(w)
      <4>1. \A x \in Range(kept) : x \in {env[2]} \cup Range(w)
        <5>1. ASSUME NEW i \in 1 .. 1 + Len(w) PROVE kept[i] \in {env[2]} \cup Range(w)
          <6>1. CASE i = 1  BY <3>6, <6>1
          <6>2. CASE i # 1
            <7>1. i - 1 \in 1 .. Len(w) /\ kept[i] = w[i - 1]  BY <3>5, <3>6, <6>2
            <7> QED  BY <3>5, <7>1 DEF Range
          <6> QED  BY <6>1, <6>2
        <5> QED  BY <3>7, <5>1 DEF Range
      <4>2. env[2] \in Range(kept)
        <5>1. 1 \in 1 .. 1 + Len(w) /\ kept[1] = env[2]  BY <3>5, <3>6
        <5> QED  BY <3>7, <5>1 DEF Range
      <4>3. ASSUME NEW i \in 1 .. Len(w) PROVE w[i] \in Range(kept)
        <5>1. i + 1 \in 1 .. 1 + Len(w) /\ kept[i + 1] = w[i]  BY <3>5, <3>6
        <5> QED  BY <3>7, <5>1 DEF Range
      <4> QED  BY <3>5, <4>1, <4>2, <4>3 DEF Range
    <3>9. Range(env) = {env[1], env[2]} \cup Range(rest)
      <4>1. ASSUME NEW i \in 1 .. Len(env) PROVE env[i] \in {env[1], env[2]} \cup Range(rest)
        <5>1. CASE i \in {1, 2}  BY <5>1
        <5>2. CASE i \notin {1, 2}
          <6>1. i - 2 \in 1 .. Len(env) - 2 /\ (i - 2) + 2 = i  BY <1>3, <5>2
          <6> QED  BY <3>1, <3>2, <6>1 DEF Range
        <5> QED  BY <5>1, <5>2
      <4>2. ASSUME NEW i \in 1 .. Len(env) - 2 PROVE rest[i] \in Range(env)
        <5>1. i + 2 \in 1 .. Len(env)  BY <1>3
        <5> QED  BY <1>3, <3>1, <5>1 DEF Range
      <4>3. 1 \in 1 .. Len(env) /\ 2 \in 1 .. Len(env)
        BY <1>3, <2>1
      <4> QED  BY <1>3, <3>2, <4>1, <4>2, <4>3 DEF Range
    <3>10. env[1][1] = key /\ 1 \in DOMAIN env /\ 2 \in DOMAIN env
      BY <1>3, <2>1
    <3>11. Once(env, key) => env[2][1] # key
      BY <3>10 DEF Once
    <3>12. ASSUME NEW k, Once(env, k) PROVE Once(kept, k)
      <4>1. \A i, j \in 1 .. Len(env) - 2 : rest[i][1] = k /\ rest[j][1] = k => i = j
        <5> SUFFICES ASSUME NEW i \in 1 .. Len(env) - 2, NEW j \in 1 .. Len(env) - 2,
                            rest[i][1] = k, rest[j][1] = k
                     PROVE  i = j
          OBVIOUS
        <5>1. i + 2 \in DOMAIN env /\ j + 2 \in DOMAIN env
          BY <1>3
        <5>2. env[i + 2][1] = k /\ env[j + 2][1] = k
          BY <3>1
        <5>3. i + 2 = j + 2  BY <3>12, <5>1, <5>2 DEF Once
        <5> QED  BY <5>3
      <4>2. Once(w, k)
        BY <3>2, <3>3, <4>1 DEF Once
      <4>3. env[2][1] = k => \A x \in Range(w) : x[1] # k
        <5> SUFFICES ASSUME env[2][1] = k, NEW x \in Range(rest), x[1] = k PROVE FALSE
          BY <3>3
        <5>1. PICK i \in 1 .. Len(env) - 2 : x = rest[i]
          BY <3>2 DEF Range
        <5>2. i + 2 \in DOMAIN env /\ env[i + 2][1] = k /\ i + 2 # 2
          BY <1>3, <3>1, <5>1
        <5> QED  BY <3>10, <3>12, <5>2 DEF Once
      <4>4. \A i \in 1 .. Len(w) : w[i] \in Range(w)
        BY <3>5 DEF Range
      <4>5. ASSUME NEW i \in 1 .. 1 + Len(w), NEW j \in 1 .. 1 + Len(w),
                   kept[i][1] = k, kept[j][1] = k
            PROVE  i = j
        <5>1. CASE i = 1 /\ j = 1  BY <5>1
        <5>2. CASE i = 1 /\ j # 1
          <6>1. j - 1 \in 1 .. Len(w) /\ kept[j] = w[j - 1] /\ kept[i] = env[2]
            BY <3>5, <3>6, <5>2
          <6> QED  BY <4>3, <4>4, <4>5, <6>1
        <5>3. CASE i # 1 /\ j = 1
          <6>1. i - 1 \in 1 .. Len(w) /\ kept[i] = w[i - 1] /\ kept[j] = env[2]
            BY <3>5, <3>6, <5>3
          <6> QED  BY <4>3, <4>4, <4>5, <6>1
        <5>4. CASE i # 1 /\ j # 1
          <6>1. /\ i - 1 \in 1 .. Len(w) /\ j - 1 \in 1 .. Len(w)
                /\ kept[i] = w[i - 1] /\ kept[j] = w[j - 1]
            BY <3>5, <3>6, <5>4
          <6>2. i - 1 = j - 1  BY <3>5, <4>2, <4>5, <6>1 DEF Once
          <6> QED  BY <6>2
        <5> QED  BY <5>1, <5>2, <5>3, <5>4
      <4> QED  BY <3>7, <4>5 DEF Once
    <3> QED  BY <3>3, <3>6, <3>8, <3>9, <3>10, <3>11, <3>12
  <2>2. CASE ~(front /\ Len(env) > 1)
    <3>1. kept = Without(env, key)
      BY <2>2
    <3> HIDE DEF kept
    <3>2. /\ kept \in Seq(S) /\ Range(kept) = {e \in Range(env) : e[1] # key}
          /\ \A k : Once(env, k) => Once(kept, k)
      BY <1>2, <3>1, WithoutKeeps
    <3> QED  BY <3>2
  <2> QED  BY <2>1, <2>2
<1>5. EnvInsert(env, key, value) = Append(kept, entry)
  BY DEF EnvInsert
<1> HIDE DEF kept
<1>6. /\ Append(kept, entry) \in Seq(S) /\ Range(Append(kept, entry)) = Range(kept) \cup {entry}
      /\ Len(kept) \in Nat /\ DOMAIN kept = 1 .. Len(kept)
      /\ DOMAIN Append(kept, entry) = 1 .. Len(kept) + 1 /\ Append(kept, entry)[Len(kept) + 1] = entry
      /\ \A i \in 1 .. Len(kept) : Append(kept, entry)[i] = kept[i]
  <2> HIDE DEF entry
  <2> QED  BY <1>2, <1>4, AppendElements, AppendProperties, LenProperties
<1>7. entry[1] = key
  OBVIOUS
<1>8. ASSUME NEW k, k # key, Once(env, k) PROVE Once(Append(kept, entry), k)
  <2>1. Once(kept, k)  BY <1>4, <1>8
  <2> HIDE DEF entry
  <2> QED  BY <1>6, <1>7, <1>8, <2>1 DEF Once
<1>9. IsSeq(Append(kept, entry))
  BY <1>6 DEF IsSeq
<1>10. /\ entry \in Range(Append(kept, entry))
       /\ Range(Append(kept, entry)) \subseteq Range(env) \cup {entry}
       /\ \A e \in Range(env) : e[1] # key => e \in Range(Append(kept, entry))
       /\ Once(env, key) => \A e \in Range(Append(kept, entry)) : e[1] = key => e = entry
  <2> HIDE DEF entry
  <2> QED  BY <1>4, <1>6
<1> QED  BY <1>5, <1>8, <1>9, <1>10

\* getenv finds the value that every entry of the key has.
LEMMA Found ==
  ASSUME NEW env, IsSeq(env), NEW key, NEW value, <<key, value>> \in Range(env),
         \A e \in Range(env) : e[1] = key => e = <<key, value>>
  PROVE  HasKey(env, key) /\ Getenv(env, key) = value
<1> DEFINE Places == {n \in DOMAIN env : env[n][1] = key}
           Least(n) == env[n][1] = key /\ \A m \in DOMAIN env : env[m][1] = key => n <= m
           entry == <<key, value>>
<1>1. Len(env) \in Nat /\ DOMAIN env = 1 .. Len(env)
  BY SeqParts
<1>2. PICK n \in DOMAIN env : env[n] = entry
  BY DEF Range
<1>3. entry[1] = key /\ entry[2] = value
  OBVIOUS
<1> HIDE DEF entry
<1>4. Places \in SUBSET (0 .. Len(env)) /\ Places # {}
  BY <1>1, <1>2, <1>3
<1>5. \E m \in Places : \A k \in Places : m <= k
  <2> HIDE DEF Places
  <2> QED  BY <1>1, <1>4, LeastExists
<1>6. \E m \in DOMAIN env : Least(m)
  BY <1>5
<1> DEFINE first == CHOOSE m \in DOMAIN env : Least(m)
<1>7. first \in DOMAIN env /\ Least(first)
  <2> HIDE DEF Least
  <2> QED  BY <1>6
<1>8. Getenv(env, key) = env[first][2]
  BY DEF Getenv
<1> HIDE DEF first
<1>9. env[first] \in Range(env) /\ env[first][1] = key
  BY <1>7 DEF Range
<1>10. env[first] = entry
  BY <1>9 DEF entry
<1> QED  BY <1>2, <1>3, <1>8, <1>10 DEF HasKey

\* What a wrapper passes on of a sequence is a sequence.
LEMMA PassedIsSeq ==
  ASSUME NEW fun, NEW env, IsSeq(env), NEW own
  PROVE  IsSeq(Passed(fun, env, own))
<1> DEFINE first == EnvInsert(env, Preload, Getenv(own, Preload))
           second == EnvInsert(first, Output, Getenv(own, Output))
<1>1. IsSeq(first)
  BY Inserted
<1>2. IsSeq(second)
  <2> HIDE DEF first
  <2> QED  BY <1>1, Inserted
<1> QED  BY <1>2 DEF Passed

\* A wrapper that inserts the variables of its own process hands the tracer on, if
\* its process has it and the given environment has neither of them twice.
LEMMA InsertingTraces ==
  ASSUME NEW fun \in Inserting, NEW env, IsSeq(env), ~Repeats(env), NEW own, Traced(own)
  PROVE  Traced(Passed(fun, env, own))
<1> DEFINE first == EnvInsert(env, Preload, Tracers)
           second == EnvInsert(first, Output, Tracers)
<1>1. Getenv(own, Preload) = Tracers /\ Getenv(own, Output) = Tracers
  BY DEF Traced
<1>2. Passed(fun, env, own) = second
  BY <1>1 DEF Passed
<1>3. Preload # Output /\ Preload # "other" /\ Output # "other"
  BY DEF Preload, Output
<1>4. Once(env, Preload) /\ Once(env, Output)
  BY <1>3 DEF Repeats, Once
<1>5. /\ IsSeq(first) /\ <<Preload, Tracers>> \in Range(first)
      /\ \A e \in Range(first) : e[1] = Preload => e = <<Preload, Tracers>>
      /\ Once(first, Output)
  BY <1>3, <1>4, Inserted
<1> HIDE DEF first
<1>6. /\ IsSeq(second) /\ <<Output, Tracers>> \in Range(second)
      /\ Range(second) \subseteq Range(first) \cup {<<Output, Tracers>>}
      /\ \A e \in Range(first) : e[1] # Output => e \in Range(second)
      /\ \A e \in Range(second) : e[1] = Output => e = <<Output, Tracers>>
  BY <1>5, Inserted
<1> HIDE DEF second
<1>7. /\ <<Preload, Tracers>> \in Range(second)
      /\ \A e \in Range(second) : e[1] = Preload => e = <<Preload, Tracers>>
  BY <1>3, <1>5, <1>6
<1>8. HasKey(second, Preload) /\ Getenv(second, Preload) = Tracers
  BY <1>6, <1>7, Found
<1>9. HasKey(second, Output) /\ Getenv(second, Output) = Tracers
  BY <1>6, Found
<1> QED  BY <1>2, <1>8, <1>9 DEF Traced

-----------------------------------------------------------------------------
(* The tracer is handed on.                                                *)

\* The environments of the calls of a process with the environment own: a wrapper
\* that inserts nothing was given that of its process.
EnvsKept(stack, own) ==
  /\ IsSeq(own)
  /\ \A n \in DOMAIN stack :
       IsSeq(stack[n].env) /\ (stack[n].fun \notin Inserting => stack[n].env = own)

EnvsInv ==
  /\ environ = [p \in Procs |-> environ[p]]
  /\ \A p \in Procs : EnvsKept(calls[p], environ[p])

TracedInv == IInv /\ EnvsInv /\ StaysTraced

\* A process that calls nothing has no environment to keep.
LEMMA EmptyEnvs == ASSUME NEW own, IsSeq(own) PROVE EnvsKept(<<>>, own)
<1>1. DOMAIN <<>> = {}
  BY EmptySeq
<1> QED  BY <1>1 DEF EnvsKept

\* The empty stack is a sequence.
LEMMA EmptyIsSeq == IsSeq(<<>>)
BY EmptySeq DEF IsSeq

\* At the start no process has called anything with an environment.
LEMMA InitTraced == Init => TracedInv
<1> SUFFICES ASSUME Init PROVE TracedInv
  OBVIOUS
<1>1. IsSeq(TracerEnv)
  <2>1. <<"other", "build">> \in Entries /\ <<Preload, Tracers>> \in Entries
        /\ <<Output, Tracers>> \in Entries
    BY DEF Entries, Preload, Output, Tracers
  <2>2. TracerEnv \in Seq(Entries)
    <3> HIDE DEF Entries
    <3>1. \A a, b, c \in Entries : <<a, b, c>> \in Seq(Entries)
      OBVIOUS
    <3> QED  BY <2>1, <3>1 DEF TracerEnv
  <2> QED  BY <2>2 DEF IsSeq
<1>2. ASSUME NEW p \in Procs PROVE EnvsKept(calls[p], environ[p])
  <2>1. calls[p] = <<>> /\ environ[p] \in {TracerEnv, <<>>}
    BY DEF Init
  <2> QED  BY <1>1, <2>1, EmptyEnvs, EmptyIsSeq
<1>3. environ = [p \in Procs |-> environ[p]]
  BY DEF Init
<1>4. StaysTraced
  BY DEF Init, StaysTraced
<1> QED  BY <1>2, <1>3, <1>4, InitInvariant DEF TracedInv, EnvsInv

\* The top of the stack is one of its wrappers.
LEMMA TopEnvs ==
  ASSUME TracedInv, NEW p \in Procs, ~Idle(p)
  PROVE  /\ IsSeq(Top(p).env) /\ IsSeq(PassedOn(p))
         /\ Top(p).fun \notin Inserting => Top(p).env = environ[p]
<1>1. IsSeq(calls[p]) /\ calls[p] # <<>> /\ EnvsKept(calls[p], environ[p])
  BY DEF TracedInv, IInv, Stacks, EnvsInv, Idle
<1>2. Len(calls[p]) \in DOMAIN calls[p]
  BY <1>1, SeqParts
<1>3. /\ IsSeq(Top(p).env)
      /\ Top(p).fun \notin Inserting => Top(p).env = environ[p]
  BY <1>1, <1>2 DEF EnvsKept, Top, Depth
<1>4. IsSeq(PassedOn(p))
  BY <1>3, PassedIsSeq DEF PassedOn
<1> QED  BY <1>3, <1>4

\* A new program is traced, if its caller kept the tracer's variables and gave no
\* environment that repeats one.
LEMMA NewProgramTraced ==
  ASSUME TracedInv, NEW p \in Procs, NEW q \in Procs, ~Idle(p), NewProgram(p, q)
  PROVE  StaysTraced' /\ IsSeq(IF Traced(PassedOn(p)) THEN PassedOn(p) ELSE <<>>)
<1>1. /\ IsSeq(Top(p).env) /\ IsSeq(PassedOn(p))
      /\ Top(p).fun \notin Inserting => Top(p).env = environ[p]
  BY TopEnvs
<1>2. /\ started'.traced = Traced(PassedOn(p)) /\ started'.changed = ~Traced(environ[p])
      /\ started'.repeated = Repeats(Top(p).env)
  BY DEF NewProgram
<1>3. ASSUME Traced(environ[p]), ~Repeats(Top(p).env) PROVE Traced(PassedOn(p))
  <2>1. CASE Top(p).fun \in Inserting
    BY <1>1, <1>3, <2>1, InsertingTraces DEF PassedOn
  <2>2. CASE Top(p).fun \notin Inserting
    <3>1. PassedOn(p) = environ[p]
      BY <1>1, <2>2 DEF PassedOn, Passed
    <3> QED  BY <1>3, <3>1
  <2> QED  BY <2>1, <2>2
<1> QED  BY <1>1, <1>2, <1>3, EmptyIsSeq DEF StaysTraced

\* The steps change the stack and the environment of one process.
LEMMA OneEnviron ==
  ASSUME EnvsInv, NEW q \in Procs, NEW stack, NEW own, EnvsKept(stack, own),
         DOMAIN calls = Procs, calls' = [calls EXCEPT ![q] = stack],
         environ' = [environ EXCEPT ![q] = own]
  PROVE  EnvsInv'
<1>1. environ' = [p \in Procs |-> environ'[p]]
  BY DEF EnvsInv
<1>2. \A p \in Procs : EnvsKept(calls'[p], environ'[p])
  BY DEF EnvsInv
<1> QED  BY <1>1, <1>2 DEF EnvsInv

\* Every step of the build keeps what is known of the environments.
LEMMA NextTraced == TracedInv /\ [Next]_vars => TracedInv'
<1> SUFFICES ASSUME TracedInv, [Next]_vars PROVE TracedInv'
  OBVIOUS
<1>i. IInv /\ IInv' /\ DOMAIN calls = Procs
      /\ environ = [p \in Procs |-> environ[p]]
      /\ \A p \in Procs : EnvsKept(calls[p], environ[p]) /\ IsSeq(calls[p])
  BY NextInvariant DEF TracedInv, EnvsInv, IInv, TypeOK, Stacks
<1>s. UNCHANGED started => StaysTraced'
  BY DEF TracedInv, StaysTraced
<1> SUFFICES EnvsInv' /\ StaysTraced'
  BY <1>i DEF TracedInv
<1>u. CASE UNCHANGED vars
  <2>1. UNCHANGED <<calls, environ, started>>
    BY <1>u DEF vars, processVars
  <2> QED  BY <1>s, <2>1 DEF TracedInv, EnvsInv
<1>1. ASSUME NEW p \in Procs, NEW fun \in Functions, NEW env \in Arguments(p, fun),
             Call(p, fun, env)
      PROVE  EnvsInv' /\ StaysTraced'
  <2>1. IsSeq(env) /\ (fun \notin Inserting => env = environ[p])
    <3>1. CASE Idle(p)
      <4>1. IsSeq(environ[p])
        BY <1>i DEF EnvsKept
      <4>2. \A e \in Envs : IsSeq(e)
        BY ExecAssumption DEF IsSeq
      <4>3. env \in Envs \cup {environ[p]}
            /\ (fun \notin GivenEnvironment => env = environ[p])
        BY <1>1, <3>1 DEF Arguments
      <4> QED  BY <4>1, <4>2, <4>3 DEF GivenEnvironment, Inserting
    <3>2. CASE ~Idle(p)
      <4>1. env = PassedOn(p) /\ fun \in Inserting
        BY <1>1, <3>2 DEF Arguments, Call, MayCall, Inner, Inserting
      <4> QED  BY <3>2, <4>1, TopEnvs
    <3> QED  BY <3>1, <3>2
  <2> DEFINE f == Frame(p, fun, env)
             s == calls[p]
  <2>2. f.fun = fun /\ f.env = env
    BY DEF Frame
  <2>3. EnvsKept(s, environ[p]) /\ IsSeq(s)
    BY <1>i
  <2> HIDE DEF f, s
  <2>4. EnvsKept(Append(s, f), environ[p])
    <3>1. /\ DOMAIN Append(s, f) = 1 .. Len(s) + 1
          /\ \A n \in 1 .. Len(s) + 1 : Append(s, f)[n] = IF n <= Len(s) THEN s[n] ELSE f
      BY <2>3, Pushed
    <3>2. Len(s) \in Nat /\ DOMAIN s = 1 .. Len(s)
      BY <2>3, SeqParts
    <3>3. ASSUME NEW n \in 1 .. Len(s) + 1
          PROVE  /\ IsSeq(Append(s, f)[n].env)
                 /\ Append(s, f)[n].fun \notin Inserting => Append(s, f)[n].env = environ[p]
      BY <2>1, <2>2, <2>3, <3>1, <3>2 DEF EnvsKept
    <3> QED  BY <2>3, <3>1, <3>3 DEF EnvsKept
  <2>5. calls' = [calls EXCEPT ![p] = Append(s, f)] /\ environ' = [environ EXCEPT ![p] = environ[p]]
        /\ UNCHANGED started
    BY <1>1, <1>i DEF Call, s, f
  <2> QED  BY <1>i, <1>s, <2>4, <2>5, OneEnviron DEF TracedInv
<1>2. ASSUME NEW p \in Procs, Gone(p) PROVE EnvsInv' /\ StaysTraced'
  <2>1. EnvsKept(<<>>, <<>>)
    BY EmptyEnvs, EmptyIsSeq
  <2> QED  BY <1>2, <1>i, <1>s, <2>1, OneEnviron DEF Gone, TracedInv
<1>3. ASSUME NEW p \in Procs, ~Idle(p) PROVE EnvsKept(Pop(p), environ[p])
  <2> DEFINE s == calls[p]
             r == SubSeq(s, 1, Len(s) - 1)
  <2>1. r = Pop(p) /\ s # <<>> /\ IsSeq(s) /\ EnvsKept(s, environ[p])
    BY <1>3, <1>i DEF Pop, Depth, Idle
  <2> HIDE DEF s
  <2>2. DOMAIN r = 1 .. Len(s) - 1 /\ \A n \in 1 .. Len(s) - 1 : r[n] = s[n]
    BY <2>1, Popped
  <2>3. Len(s) \in Nat /\ DOMAIN s = 1 .. Len(s)
    BY <2>1, SeqParts
  <2> HIDE DEF r
  <2>4. EnvsKept(r, environ[p])
    BY <2>1, <2>2, <2>3 DEF EnvsKept
  <2> QED  BY <2>1, <2>4
<1>4. ASSUME NEW p \in Procs, Fail(p) PROVE EnvsInv' /\ StaysTraced'
  <2>1. calls' = [calls EXCEPT ![p] = Pop(p)] /\ environ' = [environ EXCEPT ![p] = environ[p]]
        /\ UNCHANGED started /\ EnvsKept(Pop(p), environ[p])
    BY <1>3, <1>4, <1>i DEF Fail
  <2> QED  BY <1>i, <1>s, <2>1, OneEnviron DEF TracedInv
<1>5. ASSUME NEW p \in Procs, Exec(p) PROVE EnvsInv' /\ StaysTraced'
  <2> DEFINE own == IF Traced(PassedOn(p)) THEN PassedOn(p) ELSE <<>>
  <2>1. StaysTraced' /\ IsSeq(own)
    BY <1>5, NewProgramTraced DEF Exec
  <2>2. calls' = [calls EXCEPT ![p] = <<>>] /\ environ' = [environ EXCEPT ![p] = own]
    BY <1>5 DEF Exec, NewProgram
  <2> HIDE DEF own
  <2> QED  BY <1>i, <2>1, <2>2, EmptyEnvs, OneEnviron DEF TracedInv
<1>6. ASSUME NEW p \in Procs, NEW child \in Procs, Spawn(p, child) PROVE EnvsInv' /\ StaysTraced'
  <2> DEFINE own == IF Traced(PassedOn(p)) THEN PassedOn(p) ELSE <<>>
  <2>1. p # child /\ ~Idle(p) /\ NewProgram(p, child)
    BY <1>6 DEF Spawn
  <2>2. StaysTraced' /\ IsSeq(own)
    BY <2>1, NewProgramTraced
  <2>3. /\ calls' = [calls EXCEPT ![p] = Pop(p), ![child] = <<>>]
        /\ environ' = [environ EXCEPT ![child] = own]
    BY <1>6 DEF Spawn, NewProgram
  <2> HIDE DEF own
  <2>4. EnvsKept(Pop(p), environ[p]) /\ EnvsKept(<<>>, own)
    BY <1>3, <2>1, <2>2, EmptyEnvs
  <2>5. environ' = [r \in Procs |-> environ'[r]]
    BY <1>i, <2>3
  <2>6. \A r \in Procs : EnvsKept(calls'[r], environ'[r])
    BY <1>i, <2>1, <2>3, <2>4
  <2> QED  BY <2>2, <2>5, <2>6 DEF EnvsInv
<1>7. ASSUME NEW p \in Procs, NEW child \in Procs, Fork(p, child) PROVE EnvsInv' /\ StaysTraced'
  <2>1. IsSeq(environ[p])
    BY <1>i DEF EnvsKept
  <2>2. EnvsKept(<<>>, environ[p])
    BY <2>1, EmptyEnvs
  <2> QED  BY <1>7, <1>i, <1>s, <2>2, OneEnviron DEF Fork, TracedInv
<1>8. ASSUME NEW p \in Procs, NEW env \in Envs, Setenv(p, env) PROVE EnvsInv' /\ StaysTraced'
  <2>1. calls[p] = <<>> /\ environ' = [environ EXCEPT ![p] = env] /\ UNCHANGED <<calls, started>>
    BY <1>8 DEF Setenv, Idle
  <2>2. EnvsKept(<<>>, env)
    BY ExecAssumption, EmptyEnvs DEF IsSeq
  <2>3. calls' = [calls EXCEPT ![p] = <<>>]
    BY <1>i, <2>1 DEF IInv, TypeOK
  <2> QED  BY <1>i, <1>s, <2>1, <2>2, <2>3, OneEnviron DEF TracedInv
<1>9. ASSUME NEW p \in Procs, Step(p) PROVE EnvsInv' /\ StaysTraced'
  BY <1>9, <1>1, <1>2, <1>4, <1>5, <1>6, <1>7, <1>8 DEF Step, CallExits, End
<1> QED  BY <1>u, <1>9 DEF Next

\* The tracer keeps a program and its descendants: a program that starts untraced was
\* started by one that changed the tracer's variables of its own, or gave an environment
\* with one of them twice.  Every order of entries and every position of the ones that
\* bear_env_insert replaces is covered (execs.c, bear_env_insert).
THEOREM TracedStays == Spec => []StaysTraced
<1>1. TracedInv => StaysTraced
  BY DEF TracedInv
<1> QED  BY <1>1, InitTraced, NextTraced, PTL DEF Spec

=============================================================================
