----------------------------- MODULE MCPipeline -----------------------------
(* Pipeline on a small build and the shape of the linux-auto profile. *)
EXTENDS PipelineInvariant

CONSTANTS make, gxx, ld, gcc, rsp

At(dir, name) == [dir |-> dir, name |-> name]
Plain(text)   == [form |-> "plain", text |-> text]

\* g++ reads a response file and waits for ld; gcc runs on after make has ended.
BuildProcesses == {make, gxx, ld, gcc}
BuildParent    == (gxx :> make) @@ (ld :> gxx) @@ (gcc :> make)
WaitedFor      == {gxx, ld}
BuildFiles     == (gxx :> rsp) @@ [p \in {make, ld, gcc} |-> "none"]
FileContent    == rsp :> <<"a.c", "-c">>
BuildArguments ==
  (make :> <<Plain("make"), Plain("all")>>)
    @@ (gxx :> <<Plain("g++"), [form |-> "space", text |-> "-f"], Plain(rsp), Plain("-g")>>)
    @@ (ld :> <<Plain("ld"), [form |-> "equal", text |-> "--via"], Plain("x")>>)
    @@ (gcc :> <<Plain("gcc"), [form |-> "space", text |-> "-f"]>>)
BuildExecutable ==
  (make :> At("usr", "make.exe")) @@ (gxx :> At("usr", "g++.exe"))
    @@ (ld :> At("usr", "ld.exe")) @@ (gcc :> At("opt", "gcc.exe"))

\* The names that have an extension; the others are their own stems.
FileStem ==
  ("make.exe" :> "make") @@ ("g++.exe" :> "g++") @@ ("gcc.exe" :> "gcc") @@ ("ld.exe" :> "ld")
    @@ ("ld.gold" :> "ld") @@ ("gcc-4.8" :> "gcc-4")
    @@ [name \in {"make", "g++", "gcc", "gcc-4", "clang", "cc", "ld", "icc", "ild"} |-> name]
FileExtension ==
  ("ld.gold" :> ".gold") @@ ("gcc-4.8" :> ".8")
    @@ [name \in DOMAIN FileStem |-> IF FileStem[name] = name THEN "" ELSE ".exe"]

Entry(tool, origin) == [tool |-> tool, origin |-> origin]

ToolAliases ==
  [gcc |-> {"gcc", "g++"}, clang |-> {"clang"}, ld |-> {"ld", "ld.gold"}, icc |-> {"icc"},
   ild |-> {"ild"}]
ProfileData ==
  ("auto" :> <<Entry("clang", <<"clang">>), Entry("gcc", <<"gnu-cc">>),
               Entry("icc", <<"intel">>), Entry("ld", <<"gnu-cc", "clang">>)>>)
    @@ ("gnu-cc" :> <<Entry("gcc", <<>>) @@ [aliases |-> {"gcc", "g++", "gcc-4.8"}],
                      Entry("ld", <<>>)>>)
    @@ ("clang" :> <<Entry("clang", <<>>), Entry("ild", <<>>), Entry("ld", <<>>)>>)
    @@ ("intel" :> <<Entry("ild", <<>>), Entry("icc", <<>>)>>)
    @@ ("bare" :> <<>>)
OriginNames    == <<"clang", "gnu-cc", "intel">>
OwnAliases     ==
  [t \in {"gcc", "clang", "ld", "icc", "ild"} |->
     [cxx |-> IF t = "gcc" THEN {"g++"} ELSE {}, c |-> {}]]
Probes         ==
  [t \in {"gcc", "clang", "ld", "icc", "ild"} |->
     IF t = "gcc" THEN {"cxx", "c"} ELSE IF t = "clang" THEN {"c"} ELSE {}]
AllBinaries    ==
  Range(BuildExecutable)
    \cup {At("usr", "gcc.exe"), At("usr", "g++"), At("usr", "gcc"), At("opt", "gcc")}

\* clang is called by its name and as cc; make is nothing that a profile has.
Call(dir, file, name) == [path |-> At(dir, file), called |-> At(dir, name)]
UnixBuild      ==
  <<Call("usr", "g++", "g++"), Call("opt", "gcc", "gcc"), Call("usr", "clang", "clang"),
    Call("usr", "clang", "cc"), Call("usr", "ld.gold", "ld.gold"),
    Call("usr", "gcc-4.8", "gcc-4.8"), Call("usr", "make", "make")>>
EarlierBuild   == <<At("usr", "icc")>>
Exceptions     == (gxx :> "EXCEPTION_BREAKPOINT") @@ (gcc :> "EXCEPTION_ACCESS_VIOLATION")

\* The build is one of those RanMeansRecorded is proved of.
ASSUME BuildAssumption == OwnResponseFiles

\* The profiles are of those TracedMeansProcessed is proved of.
ASSUME OriginsAssumption ==
  \A name \in Profiles :
    /\ NamesBinaries(Load(name).tools)
    /\ name \in AutoProfiles => OriginsCover(Load(name).tools)

=============================================================================
