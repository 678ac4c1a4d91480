--------------------------- MODULE PipelineProofs ----------------------------
(* Machine-checked proofs about whole runs, for every build and every profile. *)
EXTENDS WinTracerProofs

-----------------------------------------------------------------------------
(* The helpers.                                                            *)

\* The tool of a command is one of those loaded, or none if no tool is for its binary.
LEMMA ToolFound ==
  ASSUME NEW ts, IsList(ts), NEW name
  PROVE  /\ ToolOf(ts, name) \in DOMAIN ts \cup {NoTool} /\ NoTool \notin DOMAIN ts
         /\ ToolOf(ts, name) # NoTool <=> Stem[name] \in BinariesToTrace(ts)
         /\ ToolOf(ts, name) # NoTool => Stem[name] \in Aliases(ts[ToolOf(ts, name)])
<1> DEFINE named == {i \in DOMAIN ts : Stem[name] \in Aliases(ts[i])}
<1>1. Len(ts) \in Nat /\ DOMAIN ts = 1 .. Len(ts)
  BY LenProperties DEF IsList
<1>2. ToolOf(ts, name) = IF named = {} THEN NoTool ELSE Max(named)
  BY DEF ToolOf
<1>3. ASSUME named # {} PROVE Max(named) \in named
  <2>1. named \in SUBSET (0 .. Len(ts))
    BY <1>1
  <2> HIDE DEF named
  <2>2. PICK g \in named : \A k \in named : k <= g
    BY <1>1, <1>3, <2>1, GreatestExists
  <2>3. \A k \in named : g >= k
    BY <1>1, <2>1, <2>2
  <2> QED  BY <2>2, <2>3 DEF Max
<1>4. Stem[name] \in BinariesToTrace(ts) <=> named # {}
  BY DEF BinariesToTrace
<1>5. NoTool \notin DOMAIN ts
  BY <1>1 DEF NoTool
<1> QED  BY <1>2, <1>3, <1>4, <1>5

\* An origin that is counted once per command at most, and as often as there are
\* commands, is an origin of each of them.
LEMMA OriginOfAll ==
  ASSUME NEW ts, NEW names, NEW N \in Nat, DOMAIN names = 1 .. N, NEW origin,
         \A n \in 1 .. N : IsInjective(OriginsOf(ts, names[n])),
         ~(OriginCount(ts, names, origin) < N)
  PROVE  \A n \in 1 .. N : origin \in Range(OriginsOf(ts, names[n]))
<1> DEFINE at(n)  == {k \in DOMAIN OriginsOf(ts, names[n]) : OriginsOf(ts, names[n])[k] = origin}
           Places == UNION {{n} \X at(n) : n \in 1 .. N}
<1>1. Places = UNION {{n} \X {k \in DOMAIN OriginsOf(ts, names[n]) :
                                OriginsOf(ts, names[n])[k] = origin} : n \in DOMAIN names}
  OBVIOUS
<1>2. ~(Cardinality(Places) < N)
  BY <1>1 DEF OriginCount
<1>3. \A n \in 1 .. N : \A j, k \in at(n) : j = k
  BY DEF IsInjective
<1>4. SUFFICES ASSUME NEW m \in 1 .. N, at(m) = {} PROVE FALSE
  BY DEF Range
<1> HIDE DEF at
<1> DEFINE Rest == {n \in (1 .. N) \ {m} : at(n) # {}}
           place == [n \in Rest |-> <<n, CHOOSE k \in at(n) : TRUE>>]
<1>5. \A n \in Rest : (CHOOSE k \in at(n) : TRUE) \in at(n)
  OBVIOUS
<1>6. place \in Surjection(Rest, Places)
  <2>1. place \in [Rest -> Places]
    BY <1>5
  <2>2. ASSUME NEW p \in Places PROVE \E n \in Rest : place[n] = p
    <3>1. PICK n \in 1 .. N : p \in {n} \X at(n)
      OBVIOUS
    <3>2. PICK k \in at(n) : p = <<n, k>>
      BY <3>1
    <3>3. n \in Rest
      BY <1>4, <3>2
    <3>4. (CHOOSE j \in at(n) : TRUE) = k
      BY <1>3, <1>5, <3>2, <3>3
    <3> QED  BY <3>2, <3>3, <3>4
  <2> QED  BY <2>1, <2>2 DEF Surjection
<1>7. IsFiniteSet((1 .. N) \ {m}) /\ Cardinality((1 .. N) \ {m}) = N - 1
  <2>1. IsFiniteSet(1 .. N) /\ Cardinality(1 .. N) = N
    BY FS_Interval
  <2> QED  BY <2>1, FS_RemoveElement
<1>8. IsFiniteSet(Rest) /\ Cardinality(Rest) <= N - 1 /\ Cardinality(Rest) \in Nat
  BY <1>7, FS_Subset, FS_CardinalityType
<1> HIDE DEF Places, Rest, place
<1>9. Cardinality(Places) <= N - 1 /\ Cardinality(Places) \in Nat
  BY <1>6, <1>8, FS_Surjection, FS_CardinalityType
<1> QED  BY <1>2, <1>9

LEMMA EmptyList == IsList(<<>>)
BY EmptySeq DEF IsList

\* If some origin is counted as often as there are commands, detection finds one that is.
LEMMA FullOriginDetected ==
  ASSUME NEW ts, NEW names, Len(names) \in Nat \ {0}, NEW origin \in Range(Origins),
         OriginCount(ts, names, origin) = Len(names)
  PROVE  OriginCount(ts, names, Detect(ts, names)) = Len(names)
<1> DEFINE count(i) == OriginCount(ts, names, Origins[i])
           found == {i \in DOMAIN Origins : count(i) > 0}
           full  == {i \in found : count(i) = Len(names)}
<1>1. Len(Origins) \in Nat /\ DOMAIN Origins = 1 .. Len(Origins)
  BY ProfileAssumption, LenProperties
<1>2. PICK i \in DOMAIN Origins : origin = Origins[i]
  BY DEF Range
<1>3. i \in full
  BY <1>2
<1>4. Detect(ts, names) = Origins[Min(full)]
  BY <1>3 DEF Detect
<1>5. full \in SUBSET (0 .. Len(Origins))
  BY <1>1
<1>6. \A m \in full : count(m) = Len(names)
  OBVIOUS
<1> HIDE DEF full, count
<1>7. PICK m \in full : \A k \in full : m <= k
  BY <1>1, <1>3, <1>5, LeastExists
<1>8. Min(full) \in full
  BY <1>7 DEF Min
<1> QED  BY <1>4, <1>6, <1>8 DEF count

\* A binary that a toolchain has and its loading did not come to: it stopped before.
LEMMA NotLoaded ==
  ASSUME NEW name, NEW binary,
         name \in DOMAIN Toolchains => Stem[binary] \in BinariesToTrace(Toolchains[name]),
         Stem[binary] \notin BinariesToTrace(Load(name).tools)
  PROVE  LoadStops(name, binary)
<1> SUFFICES ASSUME name \in DOMAIN Toolchains PROVE LoadStops(name, binary)
  BY DEF LoadStops
<1> DEFINE all == Toolchains[name]
           bad == {i \in DOMAIN all : all[i].tool \in Broken}
<1>1. all \in Seq(Range(all)) /\ Len(all) \in Nat /\ DOMAIN all = 1 .. Len(all)
  BY ProfileAssumption, LenProperties
<1>2. Load(name).tools = IF bad = {} THEN all ELSE SubSeq(all, 1, Min(bad) - 1)
  BY DEF Load
<1>3. bad # {}
  BY <1>2
<1>4. bad \in SUBSET (0 .. Len(all)) /\ 0 \notin bad
  BY <1>1
<1>5. Min(bad) \in bad
  <2> HIDE DEF bad
  <2>1. PICK m \in bad : \A k \in bad : m <= k
    BY <1>1, <1>3, <1>4, LeastExists
  <2> QED  BY <2>1 DEF Min
<1>6. Min(bad) \in 1 .. Len(all) /\ all[Min(bad)].tool \in Broken
  BY <1>1, <1>5
<1>7. ASSUME NEW j \in 1 .. Min(bad) - 1 PROVE Stem[binary] \notin Aliases(all[j])
  <2> HIDE DEF bad
  <2> DEFINE loaded == SubSeq(all, 1, Min(bad) - 1)
  <2>1. Len(loaded) = Min(bad) - 1 /\ loaded[j] = all[j] /\ loaded \in Seq(Range(all))
    BY <1>1, <1>6, SubSeqProperties
  <2> HIDE DEF loaded
  <2>2. j \in DOMAIN loaded
    BY <2>1, LenProperties
  <2>3. Load(name).tools = loaded
    BY <1>2, <1>3 DEF loaded
  <2> QED  BY <2>1, <2>2, <2>3 DEF BinariesToTrace
<1> HIDE DEF bad
<1> QED  BY <1>1, <1>6, <1>7 DEF LoadStops

\* The tools a profile loads are in a list.
LEMMA LoadedList ==
  ASSUME NEW name
  PROVE  IsList(Load(name).tools) /\ Load(name).ok \in BOOLEAN
<1>1. CASE name \notin DOMAIN Toolchains
  BY <1>1, EmptySeq DEF Load, IsList
<1>2. CASE name \in DOMAIN Toolchains
  <2> DEFINE all == Toolchains[name]
             bad == {i \in DOMAIN all : all[i].tool \in Broken}
             loaded == IF bad = {} THEN all ELSE SubSeq(all, 1, Min(bad) - 1)
  <2>1. all \in Seq(Range(all)) /\ Len(all) \in Nat /\ DOMAIN all = 1 .. Len(all)
    BY <1>2, ProfileAssumption, LenProperties
  <2>2. Load(name).tools = loaded /\ Load(name).ok \in BOOLEAN
    BY <1>2 DEF Load
  <2>3. CASE bad = {}
    BY <2>1, <2>2, <2>3 DEF IsList
  <2>4. CASE bad # {}
    <3>1. bad \in SUBSET (0 .. Len(all)) /\ 0 \notin bad
      BY <2>1
    <3>2. Min(bad) \in bad
      <4> HIDE DEF bad
      <4>1. PICK m \in bad : \A k \in bad : m <= k
        BY <2>1, <2>4, <3>1, LeastExists
      <4> QED  BY <4>1 DEF Min
    <3>3. Min(bad) - 1 \in 0 .. Len(all) /\ Min(bad) \in 1 .. Len(all)
      BY <2>1, <3>1, <3>2
    <3> HIDE DEF bad
    <3>4. SubSeq(all, 1, Min(bad) - 1) \in Seq(Range(all))
      BY <2>1, <3>3, SubSeqProperties
    <3>5. loaded \in Seq(Range(loaded))
      <4>1. loaded \in Seq(Range(all))
        BY <2>4, <3>4
      <4> HIDE DEF loaded
      <4> QED  BY <4>1, SeqOfRange
    <3> QED  BY <2>2, <3>5 DEF IsList
  <2> QED  BY <2>3, <2>4
<1> QED  BY <1>1, <1>2

\* What a Unix tracer writes is a list of commands it looks for.
LEMMA CommandsTraced ==
  ASSUME NEW wanted \in SUBSET DOMAIN BuildOrder, NEW s \in Commands(wanted)
  PROVE  IsList(s) /\ \A b \in Range(s) : \E i \in wanted : b = BuildOrder[i].called
<1> DEFINE Growing(n) == {at \in [1 .. n -> wanted] : \A k \in 2 .. n : at[k - 1] < at[k]}
<1>1. BuildOrder \in Seq(Range(BuildOrder)) /\ Len(BuildOrder) \in Nat
  BY PipelineAssumption, LenProperties
<1>2. PICK n \in 0 .. Len(BuildOrder) :
        s \in {[k \in 1 .. n |-> BuildOrder[at[k]].called] : at \in Growing(n)}
  BY DEF Commands
<1>3. PICK at \in Growing(n) : s = [k \in 1 .. n |-> BuildOrder[at[k]].called]
  BY <1>2
<1>4. at \in [1 .. n -> wanted] /\ n \in Nat
  BY <1>1
<1> HIDE DEF Growing
<1>5. DOMAIN s = 1 .. n /\ \A k \in 1 .. n : s[k] = BuildOrder[at[k]].called
  BY <1>3
<1>6. IsList(s)
  <2> DEFINE S == {BuildOrder[i].called : i \in wanted}
  <2>1. \A k \in 1 .. n : BuildOrder[at[k]].called \in S
    BY <1>4
  <2> HIDE DEF S
  <2>2. s \in Seq(S)
    BY <1>3, <1>4, <2>1
  <2> QED  BY <2>2, SeqOfRange DEF IsList
<1>7. ASSUME NEW b \in Range(s) PROVE \E i \in wanted : b = BuildOrder[i].called
  <2>1. PICK k \in 1 .. n : b = s[k]
    BY <1>5 DEF Range
  <2> QED  BY <1>4, <1>5, <2>1
<1> QED  BY <1>6, <1>7

\* Bear writes commands with these names.
LEMMA BearCommandsTraced ==
  ASSUME NEW names, NEW s \in BearCommands(names)
  PROVE  IsList(s) /\ \A b \in Range(s) : b.name \in names
BY CommandsTraced DEF BearCommands

LEMMA StraceCommandsTraced ==
  ASSUME NEW names, NEW s \in StraceCommands(names)
  PROVE  IsList(s)
BY CommandsTraced DEF StraceCommands

\* The languages to probe of a tool, each once.
LEMMA LanguagesProbed ==
  ASSUME NEW tool
  PROVE  ToProbe(tool) \in Seq(Languages) /\ IsInjective(ToProbe(tool))
<1> DEFINE probing(lang) == IF lang \in ProbedLanguages[tool] THEN <<lang>> ELSE <<>>
           cxx == probing("cxx")  c == probing("c")
<1>1. /\ cxx \in Seq(Languages) /\ Len(cxx) \in {0, 1} /\ \A i \in 1 .. Len(cxx) : cxx[i] = "cxx"
      /\ c \in Seq(Languages) /\ Len(c) \in {0, 1} /\ \A i \in 1 .. Len(c) : c[i] = "c"
  <2>1. ASSUME NEW lang \in Languages
        PROVE  /\ probing(lang) \in Seq(Languages) /\ Len(probing(lang)) \in {0, 1}
               /\ \A i \in 1 .. Len(probing(lang)) : probing(lang)[i] = lang
    <3>1. CASE lang \in ProbedLanguages[tool]
      <4>1. probing(lang) = <<lang>>
        BY <3>1
      <4>2. <<lang>> \in Seq(Languages) /\ Len(<<lang>>) = 1 /\ <<lang>>[1] = lang
        OBVIOUS
      <4>3. \A i \in 1 .. 1 : i = 1
        OBVIOUS
      <4> HIDE DEF probing
      <4> QED  BY <4>1, <4>2, <4>3
    <3>2. CASE lang \notin ProbedLanguages[tool]
      <4>1. probing(lang) = <<>> /\ Len(<<>>) = 0 /\ <<>> \in Seq(Languages)
        BY <3>2, EmptySeq
      <4> HIDE DEF probing
      <4> QED  BY <4>1
    <3> QED  BY <3>1, <3>2
  <2> QED  BY <2>1 DEF Languages
<1>2. ToProbe(tool) = cxx \o c
  BY DEF ToProbe
<1> HIDE DEF cxx, c
<1>3. /\ cxx \o c \in Seq(Languages) /\ Len(cxx \o c) = Len(cxx) + Len(c)
      /\ \A i \in 1 .. Len(cxx \o c) : (cxx \o c)[i] = IF i <= Len(cxx) THEN cxx[i] ELSE c[i - Len(cxx)]
  BY <1>1, ConcatProperties
<1>4. IsInjective(cxx \o c)
  <2>1. DOMAIN (cxx \o c) = 1 .. Len(cxx \o c)
    BY <1>3, LenProperties
  <2>2. CASE Len(cxx) = 1 /\ Len(c) = 1
    <3>1. Len(cxx \o c) = 2 /\ (cxx \o c)[1] = "cxx" /\ (cxx \o c)[2] = "c"
      BY <1>1, <1>3, <2>2
    <3>2. 1 .. 2 = {1, 2} /\ "cxx" # "c"
      OBVIOUS
    <3> QED  BY <2>1, <3>1, <3>2 DEF IsInjective
  <2>3. CASE ~(Len(cxx) = 1 /\ Len(c) = 1)
    <3>1. Len(cxx \o c) \in {0, 1}
      BY <1>1, <1>3, <2>3
    <3>2. \A i, j \in DOMAIN (cxx \o c) : i = j
      BY <2>1, <3>1
    <3> QED  BY <3>2 DEF IsInjective
  <2> QED  BY <2>2, <2>3
<1> QED  BY <1>2, <1>3, <1>4

-----------------------------------------------------------------------------
(* The prober.                                                             *)

Probing == {"probe", "work", "generate", "returned", "aborted"}

Temporaries == {"config", "strace", "probe"}

\* A step that leaves the prober alone, before its phase or after it.
LEMMA FrameProberInv ==
  ASSUME ProberInv, UNCHANGED <<tools, cdb, proberVars>>,
         toolchain_profile' = toolchain_profile \/ IsList(toolchain_profile'),
         temporaries' \subseteq Temporaries,
         phase' \notin Probing => phase \notin Probing,
         phase' = "probe" => phase = "probe"
  PROVE  ProberInv'
<1>1. ProberTypeOK' /\ ProberTypes'
  BY DEF ProberInv, ProberTypeOK, ProberTypes, proberVars, Temporaries, IsList
<1>2. ToolsMet' /\ AnsweredOnce'
  BY DEF ProberInv, ToolsMet, AnsweredOnce, AnsweredBy, IsFirst, Tool, proberVars
<1>3. OptionsFromJson' /\ ProberPhases'
  BY DEF ProberInv, OptionsFromJson, ProberPhases, proberVars, Probing
<1> QED  BY <1>1, <1>2, <1>3 DEF ProberInv

\* Before its phase, all the prober knows is in its initial values.
EarlyProber ==
  /\ item = 1 /\ probed = {} /\ pending = <<>> /\ config = <<>> /\ options = <<>>
  /\ IsList(runs)
  /\ \A k \in DOMAIN runs : runs[k].answer \in {"fails", "nothing", "options", "throws"}
  /\ IsList(tools) /\ IsList(toolchain_profile) /\ IsList(cdb)
  /\ temporaries \subseteq Temporaries /\ phase # "probe"

\* Before the probe nothing has been asked of a tool.
LEMMA EarlyProberInv == EarlyProber => ProberInv
<1> SUFFICES ASSUME EarlyProber PROVE ProberInv
  OBVIOUS
<1>1. Len(cdb) \in Nat
  BY LenProperties DEF EarlyProber
<1>2. ProberTypeOK
  BY <1>1 DEF ProberTypeOK, EarlyProber, Temporaries, Range
<1>3. DOMAIN config = {}
  BY DEF EarlyProber
<1>4. ProberTypes
  BY <1>3, EmptySeq DEF ProberTypes, EarlyProber
<1>5. ToolsMet /\ AnsweredOnce /\ OptionsFromJson /\ ProberPhases
  BY <1>3 DEF ToolsMet, AnsweredOnce, OptionsFromJson, ProberPhases, EarlyProber
<1> QED  BY <1>2, <1>4, <1>5 DEF ProberInv

\* A step after which nothing has been asked keeps the invariant of the prober.
LEMMA EarlyProberNext == EarlyProber' => ProberInv'
BY EarlyProberInv, PTL

\* At the start nothing has been asked of a tool.
LEMMA InitProberInv == Init => ProberInv
<1> SUFFICES ASSUME Init PROVE ProberInv
  OBVIOUS
<1>1. /\ item = 1 /\ probed = {} /\ pending = <<>> /\ config = <<>> /\ options = <<>>
      /\ runs = <<>> /\ tools = <<>> /\ cdb = <<>> /\ toolchain_profile = <<>> /\ temporaries = {}
      /\ phase = "command"
  BY DEF Init, ProberInit
<1>2. IsList(<<>>) /\ DOMAIN <<>> = {}
  BY EmptySeq DEF IsList
<1> QED  BY <1>1, <1>2, EarlyProberInv DEF EarlyProber

\* The database is loaded while the prober has not begun.
LEMMA LoadProberInv ==
  ASSUME ProberInv, LoadCdb, IsList(out_file.items)
  PROVE  ProberInv'
<1>1. /\ item = 1 /\ probed = {} /\ pending = <<>> /\ config = <<>>
      /\ \A k \in DOMAIN runs : runs[k].answer \in {"fails", "nothing", "options", "throws"}
      /\ IsList(runs) /\ IsList(tools) /\ IsList(toolchain_profile) /\ IsList(cdb)
      /\ temporaries \subseteq Temporaries
  BY DEF ProberInv, ProberTypeOK, ProberTypes, ProberPhases, LoadCdb, Temporaries
<1>2. options = <<>>
  BY <1>1 DEF ProberInv, OptionsFromJson
<1>3. /\ cdb' \in {cdb, out_file.items} /\ phase' # "probe"
      /\ UNCHANGED <<tools, proberVars, temporaries, toolchain_profile>>
  BY DEF LoadCdb, Return
<1>4. EarlyProber'
  BY <1>1, <1>2, <1>3 DEF EarlyProber, proberVars
<1> QED  BY <1>4, EarlyProberNext

\* A toolchain is chosen, and all lists of options are empty.
LEMMA DetectProberInv ==
  ASSUME ProberInv, DetectProfile
  PROVE  ProberInv'
<1>1. /\ item = 1 /\ probed = {} /\ pending = <<>>
      /\ \A k \in DOMAIN runs : runs[k].answer \in {"fails", "nothing", "options", "throws"}
      /\ IsList(runs) /\ IsList(toolchain_profile) /\ IsList(cdb)
      /\ temporaries \subseteq Temporaries
  BY DEF ProberInv, ProberTypeOK, ProberTypes, ProberPhases, DetectProfile, Temporaries
<1>2. /\ UNCHANGED <<item, probed, pending, runs, cdb, temporaries, toolchain_profile>>
      /\ phase' = "probe" /\ config' = NoOptions(tools') /\ options' = NoOptions(tools')
  BY DEF DetectProfile, ProberStart
<1>3. IsList(tools')
  <2>1. CASE profile \in AutoProfiles
    BY <2>1, LoadedList DEF DetectProfile
  <2>2. CASE profile \notin AutoProfiles
    BY <1>1, <2>2 DEF DetectProfile
  <2> QED  BY <2>1, <2>2
<1>4. /\ DOMAIN config' = DOMAIN tools' /\ options' = config'
      /\ config' = [t \in DOMAIN tools' |-> [lang \in Languages |-> <<>>]]
  BY <1>2 DEF NoOptions
<1>5. \A t \in DOMAIN config' : \A lang \in Languages : config'[t][lang] = <<>> /\ options'[t][lang] = <<>>
  BY <1>4
<1>6. ProberTypeOK'
  BY <1>1, <1>2, <1>4, LenProperties DEF ProberTypeOK, Temporaries, Range
<1>7. ProberTypes'
  <2>1. IsList(<<>>)
    BY EmptySeq DEF IsList
  <2>2. \A t \in DOMAIN config' : \A lang \in Languages : IsList(config'[t][lang])
    BY <1>5, <2>1
  <2>3. config' = [t \in DOMAIN config' |-> [lang \in Languages |-> config'[t][lang]]]
    BY <1>4
  <2>4. IsList(tools)' /\ IsList(toolchain_profile)' /\ IsList(cdb)'
        /\ (pending \in Seq(Languages))' /\ IsList(runs)'
    BY <1>1, <1>2, <1>3, EmptySeq DEF IsList
  <2> QED  BY <1>4, <2>2, <2>3, <2>4 DEF ProberTypes, IsList
<1>8. ToolsMet'
  BY <1>1, <1>2 DEF ToolsMet
<1>9. AnsweredOnce'
  BY <1>5 DEF AnsweredOnce
<1>10. OptionsFromJson'
  BY <1>4, <1>5 DEF OptionsFromJson
<1>11. ProberPhases'
  BY <1>2, <1>4, <1>5 DEF ProberPhases
<1> QED  BY <1>6, <1>7, <1>8, <1>9, <1>10, <1>11 DEF ProberInv

\* What one run of a compiler adds.
Probes(answer, binary) ==
  /\ runs' = Append(runs, [tool |-> Tool, lang |-> Head(pending), binary |-> binary,
                           answer |-> answer])
  /\ config' = IF answer = "options"
               THEN [config EXCEPT ![Tool][Head(pending)] = <<binary>>] ELSE config
  /\ temporaries' = IF answer = "throws" THEN temporaries \cup {"probe"} ELSE temporaries

\* What a probe of one language is about: a tool that was met, a language without an answer.
LEMMA ProbeMoves ==
  ASSUME ProberInv, phase = "probe", pending # <<>>,
         NEW answer \in {"fails", "nothing", "options", "throws"}, ProbeMacros(answer)
  PROVE  /\ item \in 1 .. Len(cdb) /\ Len(cdb) \in Nat /\ DOMAIN cdb = 1 .. Len(cdb)
         /\ Tool \in probed /\ Tool \in DOMAIN config /\ Tool \in DOMAIN tools
         /\ Head(pending) \in Languages /\ config[Tool][Head(pending)] = <<>>
         /\ \E binary \in ProbeBinaries(tools[Tool].tool, cdb[item], Head(pending)) :
              Probes(answer, binary)
<1>1. item \in 1 .. Len(cdb) /\ Len(cdb) \in Nat /\ DOMAIN cdb = 1 .. Len(cdb)
  BY LenProperties DEF ProberInv, ProberTypeOK, ProberTypes, ToolsMet
<1>2. Tool \in probed /\ Tool \in DOMAIN config /\ Tool \in DOMAIN tools
  BY DEF ProberInv, ProberTypeOK, ToolsMet, ProberPhases
<1>3. Head(pending) \in Languages /\ Head(pending) \in Range(pending)
  BY TailElements DEF ProberInv, ProberTypes
<1>4. config[Tool][Head(pending)] = <<>>
  BY <1>2, <1>3 DEF ProberInv, ToolsMet
<1>5. PICK binary \in ProbeBinaries(tools[Tool].tool, cdb[item], Head(pending)) :
        /\ runs' = Append(runs, [tool |-> Tool, lang |-> Head(pending), binary |-> binary,
                                 answer |-> answer])
        /\ config' = IF answer = "options"
                     THEN [config EXCEPT ![Tool][Head(pending)] =
                             Prepend(config[Tool][Head(pending)], binary)] ELSE config
        /\ temporaries' = IF answer = "throws" THEN temporaries \cup {"probe"} ELSE temporaries
  BY DEF ProbeMacros
<1>6. Prepend(<<>>, binary) = <<binary>>
  BY ConcatEmptySeq, <1>5 DEF Prepend
<1>7. Probes(answer, binary)
  BY <1>4, <1>5, <1>6 DEF Probes
<1> QED  BY <1>1, <1>2, <1>3, <1>4, <1>7

\* An answer becomes the one entry of a list that was empty.
LEMMA AnswersKept ==
  ASSUME ProberInv, phase = "probe", pending # <<>>,
         NEW answer \in {"fails", "nothing", "options", "throws"},
         NEW binary \in ProbeBinaries(tools[Tool].tool, cdb[item], Head(pending)),
         Probes(answer, binary),
         item \in 1 .. Len(cdb), DOMAIN cdb = 1 .. Len(cdb),
         Tool \in probed, Tool \in DOMAIN config, Head(pending) \in Languages,
         UNCHANGED <<tools, cdb, probed, options>>
  PROVE  /\ IsList(runs')
         /\ \A k \in DOMAIN runs' : runs'[k].answer \in {"fails", "nothing", "options", "throws"}
         /\ temporaries' \subseteq Temporaries
         /\ DOMAIN config' = DOMAIN config
         /\ config' = [t \in DOMAIN config' |-> [lang \in Languages |-> config'[t][lang]]]
         /\ \A t \in DOMAIN config' : \A lang \in Languages : IsList(config'[t][lang])
         /\ \A lang \in Languages \ {Head(pending)} : config'[Tool][lang] = config[Tool][lang]
         /\ AnsweredOnce' /\ OptionsFromJson'
<1> DEFINE tool == Tool  here == Head(pending)
<1>1. /\ \A k \in DOMAIN runs : runs[k].answer \in {"fails", "nothing", "options", "throws"}
      /\ IsList(runs) /\ temporaries \subseteq Temporaries
      /\ config = [t \in DOMAIN config |-> [lang \in Languages |-> config[t][lang]]]
      /\ \A t \in DOMAIN config : \A lang \in Languages : IsList(config[t][lang])
      /\ options = [t \in DOMAIN config |-> [lang \in Languages |-> options[t][lang]]]
      /\ \A t \in DOMAIN config : \A lang \in Languages : options[t][lang] = <<>>
      /\ AnsweredOnce
  BY DEF ProberInv, ProberTypeOK, ProberTypes, OptionsFromJson, ProberPhases, Temporaries
<1>2. /\ IsList(runs')
      /\ \A k \in DOMAIN runs' : runs'[k].answer \in {"fails", "nothing", "options", "throws"}
  <2> DEFINE run == [tool |-> tool, lang |-> here, binary |-> binary, answer |-> answer]
  <2>1. runs' = Append(runs, run) /\ run.answer = answer
    BY DEF Probes
  <2> HIDE DEF run
  <2>2. /\ IsList(runs') /\ DOMAIN runs' = 1 .. Len(runs) + 1 /\ Len(runs) \in Nat
        /\ DOMAIN runs = 1 .. Len(runs)
        /\ \A k \in 1 .. Len(runs) : runs'[k] = runs[k]
        /\ runs'[Len(runs) + 1] = run
    BY <1>1, <2>1, AppendAny DEF IsList
  <2>3. \A k \in DOMAIN runs' : k \in 1 .. Len(runs) \/ k = Len(runs) + 1
    BY <2>2
  <2> QED  BY <1>1, <2>1, <2>2, <2>3
<1>3. temporaries' \subseteq Temporaries
  BY <1>1 DEF Probes, Temporaries
<1>4. /\ DOMAIN config' = DOMAIN config
      /\ \A t \in DOMAIN config : DOMAIN config'[t] = Languages
      /\ \A t \in DOMAIN config : \A lang \in Languages :
           config'[t][lang] = IF answer = "options" /\ t = tool /\ lang = here
                              THEN <<binary>> ELSE config[t][lang]
      /\ config' = [t \in DOMAIN config' |-> [lang \in Languages |-> config'[t][lang]]]
  <2> HIDE DEF tool, here
  <2>1. tool \in DOMAIN config /\ here \in Languages
    BY DEF tool, here
  <2>2. CASE answer = "options"
    <3>1. config' = [config EXCEPT ![tool][here] = <<binary>>]
      BY <2>2 DEF Probes, tool, here
    <3>2. \A t \in DOMAIN config : config[t] = [lang \in Languages |-> config[t][lang]]
      BY <1>1
    <3> QED  BY <2>1, <2>2, <3>1, <3>2
  <2>3. CASE answer # "options"
    <3>1. config' = config
      BY <2>3 DEF Probes
    <3>2. \A t \in DOMAIN config : config[t] = [lang \in Languages |-> config[t][lang]]
      BY <1>1
    <3> QED  BY <1>1, <2>3, <3>1, <3>2
  <2> QED  BY <2>2, <2>3
<1>5. IsList(<<binary>>) /\ Len(<<binary>>) = 1 /\ <<binary>>[1] = binary
  BY DEF IsList, Range
<1>6. \A t \in DOMAIN config' : \A lang \in Languages : IsList(config'[t][lang])
  BY <1>1, <1>4, <1>5
<1>7. \A lang \in Languages \ {here} : config'[tool][lang] = config[tool][lang]
  BY <1>4
<1>8. IsFirst(item, tool)
  BY DEF ProberInv, ToolsMet
<1>9. \A i, t : IsFirst(i, t)' = IsFirst(i, t)
  BY DEF IsFirst
<1>10. AnsweredOnce'
  <2> SUFFICES ASSUME NEW t \in DOMAIN config, NEW lang \in Languages, config'[t][lang] # <<>>
               PROVE  /\ t \in probed' /\ Len(config'[t][lang]) = 1
                      /\ \E i \in DOMAIN cdb' : AnsweredBy(i, t, lang)'
    BY <1>4 DEF AnsweredOnce
  <2>1. CASE answer = "options" /\ t = tool /\ lang = here
    <3>1. config'[t][lang] = <<binary>>
      BY <1>4, <2>1
    <3>2. PICK i \in DOMAIN cdb : i = item
      OBVIOUS
    <3>3. IsFirst(i, t)'
      BY <1>8, <1>9, <2>1, <3>2
    <3>4. AnsweredBy(i, t, lang)'
      BY <1>5, <2>1, <3>1, <3>2, <3>3 DEF AnsweredBy
    <3> QED  BY <1>5, <2>1, <3>1, <3>4
  <2>2. CASE ~(answer = "options" /\ t = tool /\ lang = here)
    <3>1. config'[t][lang] = config[t][lang]
      BY <1>4, <2>2
    <3>2. t \in probed /\ Len(config[t][lang]) = 1
      BY <1>1, <3>1 DEF AnsweredOnce
    <3>3. PICK i \in DOMAIN cdb : AnsweredBy(i, t, lang)
      BY <1>1, <3>1 DEF AnsweredOnce
    <3>4. AnsweredBy(i, t, lang)'
      BY <1>9, <3>1, <3>3 DEF AnsweredBy
    <3> QED  BY <3>1, <3>2, <3>3, <3>4
  <2> QED  BY <2>1, <2>2
<1>11. OptionsFromJson'
  BY <1>1, <1>4 DEF OptionsFromJson
<1> QED  BY <1>2, <1>3, <1>4, <1>6, <1>7, <1>10, <1>11

\* A probe of one language, answered, failing or thrown out of, keeps the invariant.
LEMMA LanguageProberInv ==
  ASSUME ProberInv, phase = "probe", UNCHANGED <<tools, cdb, toolchain_profile>>,
         \/ ProbeLanguage /\ phase' = "probe"
         \/ ProbeThrows /\ phase' = "returned"
  PROVE  ProberInv'
<1>1. PICK answer \in {"fails", "nothing", "options", "throws"} :
        pending # <<>> /\ ProbeMacros(answer)
  BY DEF ProbeLanguage, ProbeThrows
<1>2. /\ item \in 1 .. Len(cdb) /\ Len(cdb) \in Nat /\ DOMAIN cdb = 1 .. Len(cdb)
      /\ Tool \in probed /\ Tool \in DOMAIN config /\ Tool \in DOMAIN tools
      /\ Head(pending) \in Languages /\ config[Tool][Head(pending)] = <<>>
  BY <1>1, ProbeMoves
<1>3. PICK binary \in ProbeBinaries(tools[Tool].tool, cdb[item], Head(pending)) :
        Probes(answer, binary)
  BY <1>1, ProbeMoves
<1>4. UNCHANGED <<probed, options>>
  BY DEF ProbeLanguage, ProbeThrows
<1>5. /\ IsList(runs')
      /\ \A k \in DOMAIN runs' : runs'[k].answer \in {"fails", "nothing", "options", "throws"}
      /\ temporaries' \subseteq Temporaries
      /\ DOMAIN config' = DOMAIN config
      /\ config' = [t \in DOMAIN config' |-> [lang \in Languages |-> config'[t][lang]]]
      /\ \A t \in DOMAIN config' : \A lang \in Languages : IsList(config'[t][lang])
      /\ \A lang \in Languages \ {Head(pending)} : config'[Tool][lang] = config[Tool][lang]
      /\ AnsweredOnce' /\ OptionsFromJson'
  BY <1>1, <1>2, <1>3, <1>4, AnswersKept
<1>6. /\ pending \in Seq(Languages) /\ IsInjective(pending) /\ probed \subseteq DOMAIN tools
      /\ DOMAIN config = DOMAIN options /\ DOMAIN config \subseteq DOMAIN tools
      /\ IsList(tools) /\ IsList(toolchain_profile) /\ IsList(cdb)
      /\ IsFirst(item, Tool)
      /\ \A i \in 1 .. item - 1 : ToolOf(tools, cdb[i].name) \in probed \cup {NoTool}
      /\ \A lang \in Range(pending) : config[Tool][lang] = <<>>
      /\ \A t \in DOMAIN config : \A lang \in Languages : options[t][lang] = <<>>
      /\ DOMAIN config = DOMAIN tools
  BY <1>1, <1>2 DEF ProberInv, ProberTypeOK, ProberTypes, ToolsMet, ProberPhases
<1>7. /\ Tail(pending) \in Seq(Languages)
      /\ Range(pending) = {Head(pending)} \cup Range(Tail(pending))
      /\ IsInjective(Tail(pending)) /\ Head(pending) \notin Range(Tail(pending))
  BY <1>1, <1>6, TailElements
<1>8. CASE ProbeLanguage /\ phase' = "probe"
  <2>1. /\ pending' = Tail(pending) /\ item' = IF pending' = <<>> THEN item + 1 ELSE item
        /\ phase' = "probe"
    BY <1>8 DEF ProbeLanguage
  <2>2. ProberTypeOK'
    <3>1. Range(pending') \subseteq Languages
      BY <1>7, <2>1, LenProperties DEF Range
    <3> QED  BY <1>2, <1>4, <1>5, <1>6, <2>1, <3>1 DEF ProberTypeOK, Temporaries
  <2>3. ProberTypes'
    BY <1>5, <1>6, <1>7, <2>1 DEF ProberTypes, IsList
  <2>4. ToolsMet'
    <3>1. \A i \in 1 .. item' - 1 : ToolOf(tools, cdb[i].name) \in probed \cup {NoTool}
      <4>1. ToolOf(tools, cdb[item].name) \in probed
        BY <1>2 DEF Tool
      <4>2. \A i \in 1 .. item' - 1 : i \in 1 .. item - 1 \/ i = item
        BY <1>2, <2>1
      <4> QED  BY <1>6, <4>1, <4>2
    <3>2. ASSUME pending' # <<>>
          PROVE  /\ item' = item /\ Tool' = Tool /\ IsFirst(item, Tool)'
                 /\ \A lang \in Range(pending') : config'[Tool][lang] = <<>>
      <4>1. item' = item
        BY <2>1, <3>2
      <4>2. Tool' = Tool
        BY <4>1 DEF Tool
      <4>3. IsFirst(item, Tool)'
        BY <1>6, <4>1, <4>2 DEF IsFirst
      <4>4. \A lang \in Range(pending') : lang \in Languages \ {Head(pending)} /\ lang \in Range(pending)
        BY <1>7, <2>1, LenProperties DEF Range
      <4>5. \A lang \in Range(pending') : config'[Tool][lang] = <<>>
        BY <1>5, <1>6, <4>4
      <4> QED  BY <4>1, <4>2, <4>3, <4>5
    <3>3. \A i \in 1 .. item' - 1 : ToolOf(tools', cdb'[i].name) \in probed' \cup {NoTool}
      BY <1>4, <3>1
    <3>4. pending' # <<>> =>
            /\ item' <= Len(cdb') /\ Tool' \in probed' /\ IsFirst(item, Tool)'
            /\ IsInjective(pending')
            /\ \A lang \in Range(pending') : config'[Tool'][lang] = <<>>
      BY <1>2, <1>4, <1>7, <2>1, <3>2
    <3> QED  BY <3>3, <3>4 DEF ToolsMet
  <2>5. ProberPhases'
    BY <1>4, <1>5, <1>6, <2>1 DEF ProberPhases
  <2> QED  BY <1>5, <2>2, <2>3, <2>4, <2>5 DEF ProberInv
<1>9. CASE ProbeThrows /\ phase' = "returned"
  <2>1. UNCHANGED <<item, pending>> /\ phase' = "returned"
    BY <1>9 DEF ProbeThrows
  <2>2. ProbeMacros("throws") /\ config' = config
    BY <1>9 DEF ProbeThrows, ProbeMacros
  <2>3. ProberTypeOK'
    BY <1>4, <1>5, <1>6, <2>1, <2>2 DEF ProberTypeOK, ProberInv, Temporaries
  <2>4. ProberTypes'
    BY <1>5, <1>6, <2>1 DEF ProberTypes, IsList
  <2>5. ToolsMet'
    BY <1>4, <2>1, <2>2 DEF ToolsMet, ProberInv, IsFirst, Tool
  <2>6. ProberPhases'
    BY <2>1 DEF ProberPhases
  <2> QED  BY <1>5, <2>3, <2>4, <2>5, <2>6 DEF ProberInv
<1> QED  BY <1>8, <1>9

\* Going on to the next command of the trace keeps the invariant.
LEMMA ItemProberInv ==
  ASSUME ProberInv, phase = "probe", ProbeItem,
         UNCHANGED <<tools, cdb, toolchain_profile, phase>>
  PROVE  ProberInv'
<1> DEFINE new == Tool # NoTool /\ Tool \notin probed /\ tools[Tool].tool \in OutputOption
<1>1. /\ pending = <<>> /\ item <= Len(cdb)
      /\ pending' = IF new THEN ToProbe(tools[Tool].tool) ELSE pending
      /\ probed' = IF Tool = NoTool THEN probed ELSE probed \cup {Tool}
      /\ item' = IF pending' = <<>> THEN item + 1 ELSE item
      /\ UNCHANGED <<config, options, runs, temporaries>>
  BY DEF ProbeItem
<1>2. /\ probed \subseteq DOMAIN tools /\ IsList(tools) /\ IsList(cdb)
      /\ Len(cdb) \in Nat /\ DOMAIN cdb = 1 .. Len(cdb) /\ item \in 1 .. Len(cdb)
      /\ \A i \in 1 .. item - 1 : ToolOf(tools, cdb[i].name) \in probed \cup {NoTool}
      /\ AnsweredOnce
  BY <1>1, LenProperties DEF ProberInv, ProberTypeOK, ProberTypes, ToolsMet
<1>3. Tool \in DOMAIN tools \cup {NoTool} /\ NoTool \notin DOMAIN tools
      /\ Tool = ToolOf(tools, cdb[item].name)
  BY <1>2, ToolFound DEF Tool
<1>4. pending' \in Seq(Languages) /\ IsInjective(pending')
  <2>1. CASE new
    BY <1>1, <2>1, LanguagesProbed
  <2>2. CASE ~new
    BY <1>1, <2>2, EmptySeq DEF IsInjective
  <2> QED  BY <2>1, <2>2
<1>5. probed' \subseteq DOMAIN tools /\ probed \subseteq probed'
  BY <1>1, <1>2, <1>3
<1>6. item' \in 1 .. Len(cdb) + 1 /\ (pending' # <<>> => item' = item /\ new)
  BY <1>1, <1>2
<1>7. ProberTypeOK'
  <2>1. Range(pending') \subseteq Languages
    BY <1>4, LenProperties DEF Range
  <2> QED  BY <1>1, <1>5, <1>6, <2>1 DEF ProberTypeOK, ProberInv
<1>8. ProberTypes'
  BY <1>1, <1>4 DEF ProberTypes, ProberInv, IsList
<1>9. \A i, t : IsFirst(i, t)' = IsFirst(i, t)
  BY DEF IsFirst
<1>10. ToolsMet'
  <2>1. \A i \in 1 .. item' - 1 : ToolOf(tools', cdb'[i].name) \in probed' \cup {NoTool}
    <3>1. \A i \in 1 .. item' - 1 : i \in 1 .. item - 1 \/ i = item
      BY <1>1, <1>2
    <3>2. ToolOf(tools, cdb[item].name) \in probed' \cup {NoTool}
      BY <1>1, <1>3
    <3> QED  BY <1>2, <1>5, <3>1, <3>2
  <2>2. ASSUME pending' # <<>>
        PROVE  /\ item' <= Len(cdb') /\ Tool' \in probed' /\ IsFirst(item, Tool)'
               /\ Tool' \in DOMAIN config' => \A lang \in Range(pending') : config'[Tool'][lang] = <<>>
    <3>1. item' = item /\ new
      BY <1>6, <2>2
    <3>2. Tool' = Tool
      BY <3>1 DEF Tool
    <3>3. IsFirst(item, Tool)'
      BY <1>2, <1>3, <3>1, <3>2 DEF IsFirst
    <3>4. \A lang \in Range(pending') : lang \in Languages
      BY <1>4, LenProperties DEF Range
    <3>5. Tool \in DOMAIN config => \A lang \in Languages : config[Tool][lang] = <<>>
      BY <1>2, <3>1 DEF AnsweredOnce
    <3>6. Tool \in probed'
      BY <1>1, <3>1
    <3> QED  BY <1>1, <1>2, <3>1, <3>2, <3>3, <3>4, <3>5, <3>6
  <2> QED  BY <1>4, <2>1, <2>2 DEF ToolsMet
<1>11. AnsweredOnce'
  <2>1. \A i, t, lang : AnsweredBy(i, t, lang)' = AnsweredBy(i, t, lang)
    BY <1>1, <1>9 DEF AnsweredBy
  <2> QED  BY <1>1, <1>2, <1>5, <2>1 DEF AnsweredOnce
<1>12. OptionsFromJson' /\ ProberPhases'
  BY <1>1 DEF ProberInv, OptionsFromJson, ProberPhases
<1> QED  BY <1>7, <1>8, <1>10, <1>11, <1>12 DEF ProberInv

\* The options of the work items become those of the JSON.
LEMMA LoadActionableProberInv ==
  ASSUME ProberInv, phase = "probe", LoadActionable, phase' = "work",
         UNCHANGED <<tools, cdb, toolchain_profile>>
  PROVE  ProberInv'
<1>1. /\ options' = [t \in DOMAIN tools |->
                       [lang \in Languages |-> options[t][lang] \o config[t][lang]]]
      /\ UNCHANGED <<item, probed, pending, config, runs, temporaries>>
  BY DEF LoadActionable
<1>2. /\ DOMAIN config = DOMAIN tools
      /\ \A t \in DOMAIN config : \A lang \in Languages :
           options[t][lang] = <<>> /\ IsList(config[t][lang])
  BY DEF ProberInv, ProberPhases, ProberTypes
<1>3. ASSUME NEW t \in DOMAIN config, NEW lang \in Languages
      PROVE  options[t][lang] \o config[t][lang] = config[t][lang]
  BY <1>2, ConcatEmptySeq DEF IsList
<1>4. options' = [t \in DOMAIN config |-> [lang \in Languages |-> config[t][lang]]]
  BY <1>1, <1>2, <1>3
<1>5. OptionsFromJson'
  <2>1. \A t \in DOMAIN config : \A lang \in Languages : options'[t][lang] = config[t][lang]
    BY <1>4
  <2>2. options' = [t \in DOMAIN config |-> [lang \in Languages |-> options'[t][lang]]]
    BY <1>4, <2>1
  <2> QED  BY <1>1, <2>1, <2>2 DEF OptionsFromJson
<1>6. ProberTypeOK' /\ ProberTypes'
  BY <1>1, <1>2, <1>4 DEF ProberInv, ProberTypeOK, ProberTypes, IsList
<1>7. ToolsMet' /\ AnsweredOnce'
  BY <1>1 DEF ProberInv, ToolsMet, AnsweredOnce, AnsweredBy, IsFirst, Tool
<1>8. ProberPhases'
  BY DEF ProberPhases
<1> QED  BY <1>5, <1>6, <1>7, <1>8 DEF ProberInv

\* No command but one is the first of a tool.
LEMMA FirstFound ==
  ASSUME IsList(cdb), NEW t, NEW i \in DOMAIN cdb, IsFirst(i, t)
  PROVE  FirstItemOf(t) = i
<1>1. DOMAIN cdb = 1 .. Len(cdb) /\ Len(cdb) \in Nat
  BY LenProperties
<1>2. FirstItemOf(t) \in DOMAIN cdb /\ IsFirst(FirstItemOf(t), t)
  BY DEF FirstItemOf, IsFirst
<1>3. ASSUME NEW k \in DOMAIN cdb, NEW n \in DOMAIN cdb, IsFirst(k, t), IsFirst(n, t), k < n
      PROVE  FALSE
  <2>1. k \in 1 .. n - 1
    BY <1>1, <1>3
  <2> QED  BY <1>3, <2>1 DEF IsFirst
<1>4. ~(FirstItemOf(t) < i) /\ ~(i < FirstItemOf(t))
  BY <1>2, <1>3
<1>5. i \in Nat /\ FirstItemOf(t) \in Nat
  BY <1>1, <1>2
<1> QED  BY <1>4, <1>5

\* The options of a tool are those of the first binary of it.
LEMMA FirstBinary == ProberInv => OptionsOfFirstBinary
<1> SUFFICES ASSUME ProberInv, NEW t \in DOMAIN options, NEW lang \in Languages,
                    NEW k \in DOMAIN options[t][lang]
             PROVE  /\ Len(options[t][lang]) = 1
                    /\ options[t][lang][k] \in
                         ProbeBinaries(tools[t].tool, cdb[FirstItemOf(t)], lang)
  BY DEF OptionsOfFirstBinary
<1>1. t \in DOMAIN config /\ options[t][lang] \in {<<>>, config[t][lang]}
  BY DEF ProberInv, ProberTypeOK, OptionsFromJson
<1>2. options[t][lang] = config[t][lang] /\ config[t][lang] # <<>>
  BY <1>1
<1>3. Len(config[t][lang]) = 1 /\ IsList(config[t][lang])
  BY <1>1, <1>2 DEF ProberInv, AnsweredOnce, ProberTypes
<1>4. k = 1
  BY <1>2, <1>3, LenProperties DEF IsList
<1>5. PICK i \in DOMAIN cdb : AnsweredBy(i, t, lang)
  BY <1>1, <1>2 DEF ProberInv, AnsweredOnce
<1>6. FirstItemOf(t) = i
  BY <1>5, FirstFound DEF AnsweredBy, ProberInv, ProberTypes
<1> QED  BY <1>2, <1>3, <1>4, <1>5, <1>6 DEF AnsweredBy

-----------------------------------------------------------------------------
(* The run.                                                                *)

\* Main's steps before the trace, which write no file.
LEMMA QuietRunInv ==
  ASSUME IInv, WinInv', ProberInv',
         ParseCommandLine \/ ParseConfig \/ LoadProfile \/ MakeTracer \/ StraceMissing \/ Strace
  PROVE  RunInv'
<1>1. /\ UNCHANGED <<winVars, cdb, tools, source, results>>
      /\ phase \in Tracing /\ phase' \in Tracing \cup {"returned"}
      /\ phase' = "command" => phase = "command"
  BY DEF ParseCommandLine, ParseConfig, LoadProfile, MakeTracer, StraceMissing, Strace, Return,
         Tracing, toolVars
<1>2. /\ method' \in Methods \cup {"-"} /\ profile' \in Profiles \cup {"-"}
      /\ phase' \notin {"command", "returned"} => method' \in Methods
      /\ phase' = "strace" => method' = "static"
  BY DEF ParseCommandLine, ParseConfig, LoadProfile, MakeTracer, StraceMissing, Strace, Return,
         IInv, RunInv, RunTypes, TypeOK, TracerPhases
<1>3. /\ lpc = "off" /\ out_file.by \in {"nobody", "earlier"}
      /\ UNCHANGED <<lpc, array, out_file, root_process_exit_status, archive, source_list>>
      /\ phase # "windbg"
  BY <1>1 DEF IInv, RunInv, TracerPhases, winVars, loopVars, results, Tracing
<1>4. /\ phase' = "strace" => temporaries' \subseteq {"strace"}
      /\ phase' # "strace" => temporaries' = {}
  BY DEF ParseCommandLine, ParseConfig, LoadProfile, MakeTracer, StraceMissing, Strace, Return,
         IInv, RunInv, TempsPhased
<1>5. RunTypes'
  BY <1>1, <1>2, <1>3 DEF RunTypes, TypeOK, IInv, RunInv, WinInv, WinTypes, ProberInv, Tracing
<1>6. TracerPhases'
  BY <1>1, <1>2, <1>3 DEF TracerPhases, Tracing
<1>7. TraceWritten'
  BY <1>3 DEF TraceWritten
<1>8. RunFiles'
  <2>1. /\ ~Processed /\ phase # "returned"
        /\ archive.by \in {"nobody", "earlier"} /\ source_list \in {"nobody", "earlier"}
    BY <1>1 DEF IInv, RunInv, RunFiles, MadeOfLoaded, Tracing
  <2> QED  BY <1>1, <1>3, <2>1 DEF RunFiles, Processed, Tracing, Processing
<1>9. TempsPhased'
  BY <1>1, <1>4 DEF TempsPhased, TempFilesRemoved, Tracing, Processing
<1> QED  BY <1>5, <1>6, <1>7, <1>8, <1>9 DEF RunInv

\* The Unix tracers: a build that has passed under the default one has left its trace.
LEMMA UnixTraceMoves ==
  ASSUME IInv, TraceWithBear \/ StraceEnds
  PROVE  /\ phase \in {"trace", "strace"} /\ method \in {"dynamic", "static"}
         /\ phase' \in {"load", "returned"}
         /\ UNCHANGED <<buildVars, lpc, loopVars, compilers, tools, cdb, proberVars, method, profile,
                        toolchain_profile, source, archive, source_list>>
         /\ out_file' = [by |-> out_file'.by, items |-> out_file'.items]
         /\ IsList(out_file'.items)
         /\ out_file'.by \in {"nobody", "earlier", "this", "broken"}
         /\ phase' = "load" /\ method = "dynamic" => out_file'.by = "this"
         /\ temporaries' = {} \/ (phase' = "returned" /\ ec' = "EC_UNKOWN")
         /\ temporaries' \subseteq Temporaries
<1>1. /\ out_file = [by |-> out_file.by, items |-> out_file.items] /\ IsList(out_file.items)
      /\ out_file.by \in {"nobody", "earlier", "this", "broken"}
      /\ IsList(<<>>)
  BY EmptyList DEF IInv, RunInv, RunTypes, TypeOK
<1>2. ASSUME NEW names,
             \/ out_file' \in [by : {"this"}, items : BearCommands(names)]
             \/ out_file' \in [by : {"this"}, items : StraceCommands(names)]
      PROVE  /\ out_file' = [by |-> "this", items |-> out_file'.items]
             /\ out_file'.by = "this" /\ IsList(out_file'.items)
  <2>1. /\ out_file' = [by |-> "this", items |-> out_file'.items] /\ out_file'.by = "this"
        /\ out_file'.items \in BearCommands(names) \cup StraceCommands(names)
    BY <1>2
  <2> QED  BY <2>1, BearCommandsTraced, StraceCommandsTraced
<1>3. ASSUME out_file' \in {out_file, [by |-> "broken", items |-> <<>>]}
      PROVE  /\ out_file' = [by |-> out_file'.by, items |-> out_file'.items]
             /\ out_file'.by \in {"nobody", "earlier", "this", "broken"}
             /\ IsList(out_file'.items)
  <2>1. CASE out_file' = out_file
    BY <1>1, <2>1
  <2>2. CASE out_file' = [by |-> "broken", items |-> <<>>]
    <3>1. out_file'.by = "broken" /\ out_file'.items = <<>>
      BY <2>2
    <3> QED  BY <1>1, <2>2, <3>1
  <2> QED  BY <1>3, <2>1, <2>2
<1>4. \A status : Traced(status) =>
        /\ status = 0 => phase' = "load"
        /\ status # 0 => phase' = "returned"
  BY DEF Traced, Return
<1>5. CASE TraceWithBear
  <2>1. /\ phase = "trace" /\ method = "dynamic"
        /\ UNCHANGED <<buildVars, lpc, loopVars, compilers, tools, cdb, proberVars, method, profile,
                       toolchain_profile, source, archive, source_list>>
        /\ temporaries' = temporaries /\ temporaries = {}
    BY <1>5 DEF TraceWithBear, IInv, RunInv, TempsPhased, toolVars, results
  <2>2. CASE Traced(EXIT_FAILURE) /\ out_file' \in {out_file, [by |-> "broken", items |-> <<>>]}
    <3>1. phase' = "returned"
      BY <1>4, <2>2 DEF EXIT_FAILURE
    <3> QED  BY <1>3, <2>1, <2>2, <3>1
  <2>3. CASE /\ \E status \in ExitStatuses : Traced(status)
             /\ out_file' \in [by : {"this"},
                               items : BearCommands(IF Binaries = {} THEN DefaultBinaries ELSE Binaries)]
    <3>1. phase' \in {"load", "returned"}
      BY <1>4, <2>3
    <3>2. /\ out_file' = [by |-> "this", items |-> out_file'.items]
          /\ out_file'.by = "this" /\ IsList(out_file'.items)
      BY <1>2, <2>3
    <3> QED  BY <2>1, <3>1, <3>2
  <2> QED  BY <1>5, <2>2, <2>3 DEF TraceWithBear
<1>6. CASE StraceEnds
  <2>1. /\ phase = "strace" /\ method = "static"
        /\ UNCHANGED <<buildVars, lpc, loopVars, compilers, tools, cdb, proberVars, method, profile,
                       toolchain_profile, source, archive, source_list>>
        /\ temporaries \subseteq {"strace"}
    BY <1>6 DEF StraceEnds, IInv, RunInv, TempsPhased, TracerPhases, toolVars, results
  <2>2. CASE /\ \E status \in ExitStatuses \cup {EXIT_FAILURE} : status # 0 /\ Traced(status)
             /\ temporaries' = temporaries \ {"strace"} /\ UNCHANGED out_file
    BY <1>1, <1>4, <2>1, <2>2
  <2>3. CASE /\ Traced(0)
             /\ out_file' \in {out_file} \cup [by : {"this"}, items : StraceCommands(Binaries)]
             /\ temporaries' = temporaries \ {"strace"}
    <3>1. phase' = "load" /\ temporaries' = {}
      BY <1>4, <2>1, <2>3
    <3>2. CASE out_file' = out_file
      BY <1>1, <2>1, <3>1, <3>2
    <3>3. CASE out_file' \in [by : {"this"}, items : StraceCommands(Binaries)]
      BY <1>2, <2>1, <3>1, <3>3
    <3> QED  BY <2>3, <3>2, <3>3
  <2>4. CASE /\ Return("EC_UNKOWN")
             /\ out_file' \in {out_file, [by |-> "broken", items |-> <<>>]}
             /\ UNCHANGED temporaries
    BY <1>3, <2>1, <2>4 DEF Return, Temporaries
  <2> QED  BY <1>6, <2>2, <2>3, <2>4 DEF StraceEnds
<1> QED  BY <1>5, <1>6

\* The Unix tracers keep what is known of the files of the run.
LEMMA UnixTraceRunInv ==
  ASSUME IInv, WinInv', ProberInv', TraceWithBear \/ StraceEnds
  PROVE  RunInv'
<1>1. /\ lpc = "off" /\ method # "windbg" /\ method \in Methods
      /\ method \in Methods \cup {"-"} /\ profile \in Profiles \cup {"-"}
      /\ archive.by \in {"nobody", "earlier"} /\ archive.source \in {"nobody", "earlier", "this"}
      /\ archive = [by |-> archive.by, source |-> archive.source, items |-> archive.items]
      /\ source_list \in {"nobody", "earlier", "this", "broken"}
      /\ ~Processed /\ source_list \in {"nobody", "earlier"}
  BY UnixTraceMoves DEF IInv, RunInv, RunTypes, TypeOK, TracerPhases, Tracing, RunFiles, MadeOfLoaded, Methods
<1>2. RunTypes'
  BY <1>1, UnixTraceMoves DEF RunTypes, TypeOK, IInv, WinInv, WinTypes, ProberInv
<1>3. TracerPhases'
  BY <1>1, UnixTraceMoves DEF TracerPhases, Tracing
<1>4. TraceWritten'
  BY <1>1, UnixTraceMoves DEF TraceWritten
<1>5. RunFiles'
  BY <1>1, UnixTraceMoves DEF RunFiles, Processed, BuildPassed, Processing
<1>6. TempsPhased'
  BY UnixTraceMoves DEF TempsPhased, TempFilesRemoved, Processing
<1> QED  BY <1>2, <1>3, <1>4, <1>5, <1>6 DEF RunInv

\* What RunInv says of the run's files while nothing writes them.
LEMMA RunFacts ==
  ASSUME IInv
  PROVE  /\ method \in Methods \cup {"-"} /\ profile \in Profiles \cup {"-"}
         /\ out_file.by \in {"nobody", "earlier", "this", "broken"}
         /\ out_file = [by |-> out_file.by, items |-> out_file.items] /\ IsList(out_file.items)
         /\ archive.by \in {"nobody", "earlier", "this", "broken"}
         /\ archive.source \in {"nobody", "earlier", "this"}
         /\ archive = [by |-> archive.by, source |-> archive.source, items |-> archive.items]
         /\ source_list \in {"nobody", "earlier", "this", "broken"}
         /\ lpc # "off" => method = "windbg"
         /\ phase # "returned" =>
              /\ ~Processed /\ archive.by \in {"nobody", "earlier"}
              /\ source_list \in {"nobody", "earlier"}
         /\ phase \notin {"command", "returned"} => method \in Methods
         /\ phase # "windbg" => lpc \in {"off", "done"}
BY DEF IInv, RunInv, RunTypes, TypeOK, TracerPhases, RunFiles, MadeOfLoaded

\* The start and the end of the Windows tracer keep what is known of the files.
LEMMA WindbgRunInv ==
  ASSUME IInv, WinInv', ProberInv', TraceWithWindbg \/ WindbgEnds
  PROVE  RunInv'
<1>1. CASE TraceWithWindbg
  <2>1. /\ phase = "trace" /\ phase' = "windbg" /\ method = "windbg" /\ lpc' # "off"
        /\ temporaries' = {"config"} /\ out_file.by \in {"nobody", "earlier"} /\ ~Processed
        /\ UNCHANGED <<out_file, tools, cdb, method, profile, source, archive, source_list>>
    BY <1>1, RunFacts DEF TraceWithWindbg, IInv, RunInv, TempsPhased, TracerPhases, Tracing, toolVars, results
  <2>2. RunTypes'
    BY <2>1, RunFacts DEF RunTypes, TypeOK, IInv, WinInv, WinTypes, ProberInv
  <2>3. TracerPhases' /\ TraceWritten'
    BY <2>1, RunFacts DEF TracerPhases, TraceWritten, Tracing
  <2>4. RunFiles' /\ TempsPhased'
    BY <2>1, RunFacts DEF RunFiles, TempsPhased, TempFilesRemoved, Processed, Processing
  <2> QED  BY <2>2, <2>3, <2>4 DEF RunInv
<1>2. CASE WindbgEnds
  <2>1. /\ phase = "windbg" /\ lpc = "done" /\ method = "windbg"
        /\ temporaries' = {} /\ ~Processed
        /\ UNCHANGED <<winVars, tools, cdb, method, profile, source, archive, source_list>>
        /\ phase' \in {"load", "returned"}
        /\ phase' = "load" => root_process_exit_status = 0
    BY <1>2, RunFacts DEF WindbgEnds, IInv, RunInv, TempsPhased, TracerPhases, toolVars, results, Traced, Return
  <2>2. UNCHANGED <<out_file, lpc, array, root_process_exit_status>>
    BY <2>1 DEF winVars, loopVars
  <2>3. RunTypes'
    BY <2>1, <2>2, RunFacts DEF RunTypes, TypeOK, IInv, WinInv, WinTypes, ProberInv
  <2>4. TracerPhases' /\ TraceWritten'
    BY <2>1, <2>2, RunFacts DEF TracerPhases, TraceWritten, Tracing, IInv, RunInv
  <2>5. RunFiles' /\ TempsPhased'
    BY <2>1, <2>2, RunFacts DEF RunFiles, TempsPhased, TempFilesRemoved, Processed, BuildPassed, Processing
  <2> QED  BY <2>3, <2>4, <2>5 DEF RunInv
<1> QED  BY <1>1, <1>2

\* From the database to the work items: each step knows what the one before it did.
LEMMA ProcessRunInv ==
  ASSUME IInv, WinInv', ProberInv', LoadCdb \/ DetectProfile \/ Probe \/ Work
  PROVE  RunInv'
<1>1. /\ phase \in Processing \ {"generate"} /\ ~Processed /\ BuildPassed
      /\ phase \in Processing \ {"load"} => Loaded
      /\ temporaries = {} /\ archive.by \in {"nobody", "earlier"}
      /\ source_list \in {"nobody", "earlier"}
  BY RunFacts DEF IInv, RunInv, RunFiles, TempsPhased, LoadCdb, DetectProfile, Probe, Work, Processing
<1>2. /\ UNCHANGED <<out_file, lpc, array, root_process_exit_status, method, profile, archive, source_list>>
      /\ phase' \in Processing \cup {"returned", "aborted"} /\ phase' # "load"
  BY DEF LoadCdb, DetectProfile, Probe, Work, Return, winVars, loopVars, results, Processing
<1>3. phase' \in Processing => Loaded'
  <2>1. CASE LoadCdb
    BY <1>2, <2>1 DEF LoadCdb, Loaded, Return, Processing
  <2>2. CASE ~LoadCdb
    <3>1. UNCHANGED <<source, cdb>> /\ phase # "load"
      BY <2>2 DEF DetectProfile, Probe, Work, toolVars
    <3> QED  BY <1>1, <1>2, <3>1 DEF Loaded
  <2> QED  BY <2>1, <2>2
<1>4. /\ phase' \in Processing => temporaries' = {}
      /\ phase' = "returned" /\ ec' # "EC_UNKOWN" => temporaries' = {}
  <2>1. CASE Probe
    <3>1. CASE (ProbeItem \/ ProbeLanguage) /\ UNCHANGED <<phase, ec>>
      BY <1>1, <3>1 DEF ProbeItem, ProbeLanguage, ProbeMacros
    <3>2. CASE ProbeThrows /\ Return("EC_UNKOWN")
      BY <3>2 DEF Return, Processing
    <3>3. CASE LoadActionable
      BY <1>1, <3>3 DEF LoadActionable
    <3> QED  BY <2>1, <3>1, <3>2, <3>3 DEF Probe
  <2>2. CASE LoadCdb \/ DetectProfile \/ Work
    BY <1>1, <2>2 DEF LoadCdb, DetectProfile, Work
  <2> QED  BY <2>1, <2>2
<1>5. RunTypes'
  BY <1>2, RunFacts DEF RunTypes, TypeOK, IInv, WinInv, WinTypes, ProberInv, Processing
<1>6. TracerPhases' /\ TraceWritten'
  BY <1>1, <1>2, RunFacts DEF TracerPhases, TraceWritten, Tracing, Processing, IInv, RunInv
<1>7. RunFiles' /\ TempsPhased'
  BY <1>1, <1>2, <1>3, <1>4 DEF RunFiles, TempsPhased, TempFilesRemoved, Processed, BuildPassed, Processing
<1> QED  BY <1>5, <1>6, <1>7 DEF RunInv

\* Writing the result keeps what is known of the files.
LEMMA GenerateRunInv ==
  ASSUME IInv, WinInv', ProberInv', Generate
  PROVE  RunInv'
<1>1. /\ phase = "generate" /\ phase' = "returned" /\ ~Processed /\ BuildPassed /\ Loaded
      /\ temporaries = {} /\ temporaries' = {}
      /\ UNCHANGED <<out_file, lpc, array, root_process_exit_status, method, profile, source, cdb, tools>>
  BY RunFacts DEF IInv, RunInv, RunFiles, TempsPhased, Generate, Return, Processing, toolVars, winVars,
                  loopVars
<1>2. DEFINE made == {b \in Range(cdb) : ToolOf(tools, b.name) # NoTool}
<1>3. \/ archive' = [by |-> "this", source |-> source, items |-> made]
      \/ archive' = archive
      \/ archive' = [by |-> "broken", source |-> source, items |-> {}]
  BY DEF Generate
<1>4. source_list' \in {source_list, "this", "broken"}
  BY DEF Generate
<1> HIDE DEF made
<1>5. RunTypes'
  <2>1. /\ archive'.by \in {"nobody", "earlier", "this", "broken"}
        /\ archive'.source \in {"nobody", "earlier", "this"}
        /\ archive' = [by |-> archive'.by, source |-> archive'.source, items |-> archive'.items]
    BY <1>1, <1>3, RunFacts DEF Loaded
  <2> QED  BY <1>1, <1>4, <2>1, RunFacts DEF RunTypes, TypeOK, IInv, WinInv, WinTypes, ProberInv
<1>6. TracerPhases' /\ TraceWritten'
  BY <1>1, RunFacts DEF TracerPhases, TraceWritten, Tracing, IInv, RunInv
<1>7. Processed' => MadeOfLoaded'
  <2>1. Processed' => archive' = [by |-> "this", source |-> source, items |-> made]
    BY <1>1, <1>3 DEF Processed
  <2> QED  BY <1>1, <2>1 DEF MadeOfLoaded, made
<1>8. BuildPassed' /\ Loaded'
  BY <1>1 DEF BuildPassed, Loaded
<1>9. RunFiles' /\ TempsPhased'
  BY <1>1, <1>7, <1>8 DEF RunFiles, TempsPhased, TempFilesRemoved, Processing
<1> QED  BY <1>5, <1>6, <1>9 DEF RunInv

\* What win-tracer does to the files of the run: its end writes the database.
Written == [by |-> "this", items |-> [i \in DOMAIN array |-> Executable[array[i].process]]]

\* What the Windows tracer can do to the database: nothing, or write it at its end.
LEMMA TracerMoves ==
  ASSUME IInv, WinNext
  PROVE  \/ UNCHANGED <<lpc, loopVars, out_file>>
         \/ /\ phase = "windbg" /\ method = "windbg" /\ lpc # "done" /\ lpc' # "off"
            /\ \/ out_file' = out_file /\ out_file.by # "this"
               \/ /\ lpc' = "done" /\ array' = array
                  /\ out_file' \in {Written, [by |-> "broken", items |-> <<>>]}
<1>1. CASE Build
  BY <1>1, BuildMoves DEF IInv
<1>2. CASE Tracer
  <2>1. lpc \notin {"off", "done"} /\ lpc' # "off"
    BY <1>2 DEF Tracer, Works, CreateRoot, WaitForDebugEvent, WaitFails, OpenFails, HandleCreate,
       HandleExit, HandleException, ContinueDebugEvent, WriteOutput, LogThrows, DumpThrows, Dies
  <2>2. phase = "windbg" /\ method = "windbg" /\ out_file.by # "this"
    BY <2>1, RunFacts DEF IInv, RunInv, TraceWritten
  <2>3. \/ out_file' = out_file
        \/ WriteOutput \/ DumpThrows
    BY <1>2 DEF Tracer, Works, CreateRoot, WaitForDebugEvent, WaitFails, OpenFails, HandleCreate,
       HandleExit, HandleException, ContinueDebugEvent, LogThrows
  <2>4. CASE WriteOutput
    BY <2>1, <2>2, <2>4 DEF WriteOutput, Written, loopVars
  <2>5. CASE DumpThrows
    BY <2>1, <2>2, <2>5 DEF DumpThrows, Dies
  <2> QED  BY <2>1, <2>2, <2>3, <2>4, <2>5
<1> QED  BY <1>1, <1>2 DEF WinNext

\* The steps of the Windows tracer keep what is known of the files of the run.
LEMMA TracerRunInv ==
  ASSUME IInv, WinInv', ProberInv', Windbg
  PROVE  RunInv'
<1>1. /\ WinNext
      /\ UNCHANGED <<tools, cdb, phase, method, profile, ec, source, archive, source_list, temporaries>>
  BY DEF Windbg, toolVars, mainVars, results
<1>2. CASE UNCHANGED <<lpc, loopVars, out_file>>
  <2>1. UNCHANGED <<lpc, array, root_process_exit_status, out_file>>
    BY <1>2 DEF loopVars
  <2>2. RunTypes'
    BY <1>1, <2>1, RunFacts DEF RunTypes, TypeOK, IInv, RunInv, WinInv, WinTypes, ProberInv
  <2>3. TracerPhases' /\ TraceWritten'
    BY <1>1, <2>1 DEF TracerPhases, TraceWritten, IInv, RunInv
  <2>4. RunFiles' /\ TempsPhased'
    BY <1>1, <2>1 DEF RunFiles, TempsPhased, TempFilesRemoved, Processed, BuildPassed, Loaded,
                      MadeOfLoaded, IInv, RunInv
  <2> QED  BY <2>2, <2>3, <2>4 DEF RunInv
<1>3. CASE /\ phase = "windbg" /\ method = "windbg" /\ lpc # "done" /\ lpc' # "off"
           /\ \/ out_file' = out_file /\ out_file.by # "this"
              \/ /\ lpc' = "done" /\ array' = array
                 /\ out_file' \in {Written, [by |-> "broken", items |-> <<>>]}
  <2>1. IsList(Written.items) /\ IsList(<<>>)
    <3>1. DOMAIN array = 1 .. Len(array) /\ Len(array) \in Nat
      BY LenProperties DEF IInv, WinInv, WinTypes, IsList
    <3>2. Written.items = [i \in DOMAIN array |-> Executable[array[i].process]]
      BY DEF Written
    <3>3. Written.items \in Seq({Executable[array[i].process] : i \in DOMAIN array})
      BY <3>1, <3>2
    <3> QED  BY <3>3, SeqOfRange, EmptyList DEF IsList
  <2>2. /\ out_file'.by \in {"nobody", "earlier", "this", "broken"}
        /\ out_file' = [by |-> out_file'.by, items |-> out_file'.items]
        /\ IsList(out_file'.items)
    <3>1. CASE out_file' = out_file
      BY <3>1, RunFacts
    <3>2. CASE out_file' = Written
      <4>1. out_file'.by = "this" /\ out_file'.items = Written.items
        BY <3>2 DEF Written
      <4> QED  BY <2>1, <3>2, <4>1 DEF Written
    <3>3. CASE out_file' = [by |-> "broken", items |-> <<>>]
      <4>1. out_file'.by = "broken" /\ out_file'.items = <<>>
        BY <3>3
      <4> QED  BY <2>1, <3>3, <4>1
    <3> QED  BY <1>3, <3>1, <3>2, <3>3
  <2>3. RunTypes'
    BY <1>1, <1>3, <2>2, RunFacts DEF RunTypes, TypeOK, IInv, WinInv, WinTypes, ProberInv
  <2>4. TraceWritten'
    <3>1. out_file'.by = "this" => lpc' = "done" /\ array' = array /\ out_file' = Written
      BY <1>3
    <3> QED  BY <3>1 DEF TraceWritten, Written
  <2>5. TracerPhases'
    BY <1>1, <1>3 DEF TracerPhases, Tracing, Methods
  <2>6. RunFiles' /\ TempsPhased'
    BY <1>1, <1>3, RunFacts DEF RunFiles, TempsPhased, TempFilesRemoved, Processed, Processing,
                                IInv, RunInv
  <2> QED  BY <2>3, <2>4, <2>5, <2>6 DEF RunInv
<1> QED  BY <1>1, <1>2, <1>3, TracerMoves

\* At the start a run has no files of its own.
LEMMA InitRunInv == Init => RunInv
<1> SUFFICES ASSUME Init PROVE RunInv
  OBVIOUS
<1>1. /\ phase = "command" /\ method = "-" /\ profile = "-" /\ lpc = "off" /\ temporaries = {}
      /\ WinTypeOK /\ ProberTypeOK
  BY InitWinInv, InitProberInv DEF Init, WinInit, WinInv, WinTypes, ProberInv
<1>2. /\ out_file.by \in {"nobody", "earlier"} /\ out_file = [by |-> out_file.by, items |-> out_file.items]
      /\ IsList(out_file.items)
      /\ archive.by \in {"nobody", "earlier"} /\ archive.source \in {"nobody", "earlier"}
      /\ archive = [by |-> archive.by, source |-> archive.source, items |-> archive.items]
      /\ source_list \in {"nobody", "earlier"}
  <2>1. CASE out_file = NoFileYet /\ archive = NoArchive /\ source_list = "nobody"
    BY <2>1, EmptyList DEF NoFileYet, NoArchive
  <2>2. CASE /\ out_file = [by |-> "earlier", items |-> EarlierItems]
             /\ archive = [by |-> "earlier", source |-> "earlier", items |-> Range(EarlierItems)]
             /\ source_list = "earlier"
    BY <2>2, PipelineAssumption DEF IsList
  <2> QED  BY <2>1, <2>2 DEF Init
<1>3. RunTypes
  BY <1>1, <1>2 DEF RunTypes, TypeOK
<1>4. TracerPhases /\ TraceWritten
  BY <1>1, <1>2 DEF TracerPhases, TraceWritten, Tracing
<1>5. RunFiles /\ TempsPhased
  BY <1>1, <1>2 DEF RunFiles, Processed, TempsPhased, TempFilesRemoved, Processing
<1> QED  BY <1>3, <1>4, <1>5 DEF RunInv

-----------------------------------------------------------------------------
(* The tools.                                                              *)

\* Before the trace nothing is logged, and the profile is the one just loaded.
LEMMA QuietToolsInv ==
  ASSUME IInv, ParseCommandLine \/ ParseConfig \/ LoadProfile \/ MakeTracer \/ StraceMissing \/ Strace
  PROVE  ToolsInv'
<1>1. /\ UNCHANGED <<winVars, tools, results>> /\ phase \in Tracing
      /\ phase' \in {"config", "profile", "tracer", "trace", "strace", "returned"}
  BY DEF ParseCommandLine, ParseConfig, LoadProfile, MakeTracer, StraceMissing, Strace, Return,
         Tracing, toolVars
<1>2. /\ lpc' = "off" /\ out_file'.by # "this" /\ array' = <<>> /\ ~Processed'
  BY <1>1, RunFacts DEF IInv, RunInv, TracerPhases, WinInv, DebuggeesOwned, winVars, loopVars, results,
                        Processed, Tracing
<1>3. phase' # "returned" => profile' \in Profiles
  <2>1. CASE ParseCommandLine
    BY <2>1 DEF ParseCommandLine, Return
  <2>2. CASE ~ParseCommandLine
    <3>1. phase \notin {"command", "returned"} /\ profile' = profile
      BY <2>2 DEF ParseConfig, LoadProfile, MakeTracer, StraceMissing, Strace
    <3> QED  BY <3>1 DEF IInv, ToolsInv, ProfileLoaded
  <2> QED  BY <2>1, <2>2
<1>4. ProfileLoaded'
  <2> SUFFICES ASSUME phase' \in {"tracer", "trace", "strace"}
               PROVE  toolchain_profile' = Load(profile').tools /\ Load(profile').ok
    BY <1>1, <1>2, <1>3 DEF ProfileLoaded, Processing
  <2>1. CASE LoadProfile
    <3>1. Load(profile).ok /\ toolchain_profile' = Load(profile).tools /\ profile' = profile
      BY <2>1 DEF LoadProfile, Return
    <3> QED  BY <3>1
  <2>2. CASE MakeTracer \/ StraceMissing \/ Strace
    <3>1. phase \in {"tracer", "trace"} /\ UNCHANGED <<toolchain_profile, profile>>
      BY <2>2 DEF MakeTracer, StraceMissing, Strace
    <3>2. toolchain_profile = Load(profile).tools /\ Load(profile).ok
      BY <3>1 DEF IInv, ToolsInv, ProfileLoaded
    <3> QED  BY <3>1, <3>2
  <2>3. CASE ParseCommandLine \/ ParseConfig
    BY <2>3 DEF ParseCommandLine, ParseConfig, Return
  <2> QED  BY <2>1, <2>2, <2>3
<1>5. TracedWanted'
  <2>1. Logged' = {}
    BY <1>2, EmptySeq DEF Logged
  <2> QED  BY <1>2, <2>1 DEF TracedWanted
<1>6. ToolsChosen'
  BY <1>1, <1>2 DEF ToolsChosen
<1> QED  BY <1>4, <1>5, <1>6 DEF ToolsInv

\* The Unix tracers record what the profile has them look for.
LEMMA UnixTraceToolsInv ==
  ASSUME IInv, TraceWithBear \/ StraceEnds
  PROVE  ToolsInv'
<1>1. /\ lpc = "off" /\ out_file.by # "this" /\ ~Processed /\ phase \in {"trace", "strace"}
      /\ UNCHANGED <<array, compilers, lpc, tools, profile, toolchain_profile, archive>>
      /\ phase' \in {"load", "returned"}
  BY UnixTraceMoves, RunFacts DEF IInv, RunInv, TracerPhases, Tracing, loopVars
<1>2. ProfileLoaded'
  BY <1>1 DEF ProfileLoaded, Processed, IInv, ToolsInv
<1>3. ASSUME out_file'.by = "this", Binaries # {}
      PROVE  /\ method' \in {"dynamic", "static"}
             /\ method' = "dynamic" => \A b \in Range(out_file'.items) : b.name \in Binaries
  <2>1. CASE TraceWithBear
    <3>1. out_file' # out_file /\ out_file' # [by |-> "broken", items |-> <<>>]
      <4>1. [by |-> "broken", items |-> <<>>].by # "this"
        OBVIOUS
      <4> QED  BY <1>1, <1>3, <4>1
    <3>2. out_file' \in [by : {"this"}, items : BearCommands(Binaries)]
      BY <1>3, <2>1, <3>1 DEF TraceWithBear
    <3>3. out_file'.items \in BearCommands(Binaries) /\ method' = "dynamic"
      BY <2>1, <3>2 DEF TraceWithBear
    <3> QED  BY <3>3, BearCommandsTraced
  <2>2. CASE StraceEnds
    <3>1. method' = "static"
      BY <2>2 DEF StraceEnds, IInv, RunInv, TracerPhases
    <3> QED  BY <3>1
  <2> QED  BY <2>1, <2>2
<1>4. Binaries' = Binaries /\ Logged' = Logged
  BY <1>1 DEF Binaries, Logged
<1>5. TracedWanted'
  BY <1>1, <1>3, <1>4 DEF TracedWanted, IInv, ToolsInv, IsInterestingBinary
<1>6. ToolsChosen'
  BY <1>1 DEF ToolsChosen, Processed
<1> QED  BY <1>2, <1>5, <1>6 DEF ToolsInv

\* The Windows tracer is told of the binaries of the profile before it logs anything.
LEMMA WindbgToolsInv ==
  ASSUME IInv, TraceWithWindbg \/ WindbgEnds
  PROVE  ToolsInv'
<1>1. /\ phase \in {"trace", "windbg"} /\ phase' \in {"windbg", "load", "returned"} /\ ~Processed
      /\ UNCHANGED <<array, out_file, tools, method, profile, toolchain_profile, archive>>
  BY RunFacts DEF TraceWithWindbg, WindbgEnds, Traced, Return, toolVars, winVars, loopVars, results
<1>2. ProfileLoaded' /\ ToolsChosen'
  BY <1>1 DEF ProfileLoaded, ToolsChosen, Processed, IInv, ToolsInv
<1>3. Binaries' = Binaries /\ Logged' = Logged
  BY <1>1 DEF Binaries, Logged
<1>4. CASE TraceWithWindbg
  <2>1. /\ lpc = "off" /\ compilers' = Binaries
    BY <1>4 DEF TraceWithWindbg, IInv, RunInv, TracerPhases, Tracing
  <2>2. Logged' = {}
    <3>1. array = <<>>
      BY <2>1 DEF IInv, WinInv, DebuggeesOwned
    <3>2. Logged = {}
      BY <3>1, EmptySeq DEF Logged
    <3> QED  BY <1>3, <3>2
  <2> QED  BY <1>1, <1>2, <1>3, <2>1, <2>2 DEF ToolsInv, TracedWanted, IInv
<1>5. CASE WindbgEnds
  <2>1. UNCHANGED <<lpc, compilers>>
    BY <1>5 DEF WindbgEnds, winVars
  <2> QED  BY <1>1, <1>2, <1>3, <2>1 DEF ToolsInv, TracedWanted, IInv, IsInterestingBinary
<1> QED  BY <1>4, <1>5

\* What is processed is processed with the profile, or with the one that was detected.
LEMMA ProcessToolsInv ==
  ASSUME IInv, LoadCdb \/ DetectProfile \/ Probe \/ Work \/ Generate
  PROVE  ToolsInv'
<1>1. /\ phase \in Processing /\ UNCHANGED <<winVars, method, profile, toolchain_profile>>
  BY DEF LoadCdb, DetectProfile, Probe, Work, Generate, Processing
<1>2. UNCHANGED <<lpc, compilers, array, out_file>>
  BY <1>1 DEF winVars, loopVars
<1>3. ProfileLoaded'
  <2>1. profile \in Profiles /\ toolchain_profile = Load(profile).tools /\ Load(profile).ok
    BY <1>1 DEF ProfileLoaded, IInv, ToolsInv, Processing
  <2>2. UNCHANGED <<profile, toolchain_profile>>
    BY <1>1
  <2> QED  BY <2>1, <2>2 DEF ProfileLoaded
<1>4. TracedWanted'
  BY <1>1, <1>2 DEF TracedWanted, IInv, ToolsInv, Binaries, Logged, IsInterestingBinary
<1>5. ToolsChosen'
  <2>1. CASE LoadCdb
    <3>1. phase' \in {"detect", "returned"} /\ ~Processed'
      BY <2>1, RunFacts DEF LoadCdb, Return, results, Processed
    <3> QED  BY <3>1 DEF ToolsChosen
  <2>2. CASE DetectProfile
    <3>1. profile' = profile /\ toolchain_profile' = toolchain_profile
      BY <1>1
    <3>2. profile \in AutoProfiles =>
            detected' = Detect(toolchain_profile, Names) /\ tools' = Load(detected').tools
      BY <2>2 DEF DetectProfile
    <3>3. profile \notin AutoProfiles => tools' = toolchain_profile
      BY <2>2 DEF DetectProfile
    <3>4. Names' = Names
      BY <2>2 DEF DetectProfile, Names
    <3> QED  BY <3>1, <3>2, <3>3, <3>4 DEF ToolsChosen
  <2>3. CASE Probe \/ Work \/ Generate
    <3>1. phase \in {"probe", "work", "generate"} /\ UNCHANGED <<tools, detected, Names>>
      BY <2>3 DEF Probe, Work, Generate, toolVars, Names
    <3>2. IF profile \in AutoProfiles
          THEN detected = Detect(toolchain_profile, Names) /\ tools = Load(detected).tools
          ELSE tools = toolchain_profile
      BY <3>1 DEF ToolsChosen, IInv, ToolsInv
    <3> QED  BY <1>1, <3>1, <3>2 DEF ToolsChosen
  <2> QED  BY <2>1, <2>2, <2>3
<1> QED  BY <1>3, <1>4, <1>5 DEF ToolsInv

\* A process is logged only if it is wanted, and the tracer is told once what is.
LEMMA LoggedWanted ==
  ASSUME WinInv, WinNext, \A p \in Logged : IsInterestingBinary(Binary(p))
  PROVE  /\ compilers' = compilers
         /\ \A p \in Logged' : IsInterestingBinary(Binary(p))
<1>1. CASE ~HandleCreate
  <2>1. UNCHANGED <<array, compilers>>
    <3>1. CASE Build
      BY <3>1, BuildMoves DEF loopVars
    <3>2. CASE ContinueDebugEvent
      BY <3>2, ContinueMoves
    <3> QED  BY <1>1, <3>1, <3>2, StepKinds DEF CreateRoot, WaitForDebugEvent, WaitFails, OpenFails,
              HandleExit, HandleException, Ends, loopVars
  <2> QED  BY <2>1 DEF Logged
<1>2. CASE HandleCreate
  BY <1>2, ArrayMoves DEF LogCreateProcess
<1> QED  BY <1>1, <1>2

\* The database of the Windows tracer holds what it has logged.
LEMMA TracerToolsInv ==
  ASSUME IInv, Windbg
  PROVE  ToolsInv'
<1>1. /\ WinNext
      /\ UNCHANGED <<tools, phase, profile, toolchain_profile, detected, archive, Names>>
  BY DEF Windbg, toolVars, mainVars, results, Names
<1>2. ProfileLoaded' /\ ToolsChosen'
  BY <1>1 DEF ProfileLoaded, ToolsChosen, Processed, IInv, ToolsInv
<1>3. /\ compilers' = compilers
      /\ \A p \in Logged' : IsInterestingBinary(Binary(p))
  BY <1>1, LoggedWanted DEF IInv, ToolsInv, TracedWanted
<1>4. Binaries' = Binaries
  BY <1>1 DEF Binaries
<1>5. lpc' # "off" => lpc # "off"
  BY <1>1, TracerMoves, RunFacts DEF IInv, RunInv, TracerPhases
<1>6. ASSUME out_file'.by = "this", Binaries # {}, NEW b \in Range(out_file'.items)
      PROVE  /\ method' = "dynamic" => b.name \in Binaries
             /\ method' = "windbg" => Stem[b.name] \in Binaries
  <2> method' = method
    BY DEF Windbg, mainVars
  <2>1. CASE out_file' = out_file
    BY <1>6, <2>1 DEF IInv, ToolsInv, TracedWanted
  <2>2. CASE out_file' # out_file
    <3>1. /\ phase = "windbg" /\ method = "windbg"
          /\ array' = array /\ out_file' \in {Written, [by |-> "broken", items |-> <<>>]}
      BY <1>1, <2>2, TracerMoves
    <3>2. [by |-> "broken", items |-> <<>>].by # "this"
      OBVIOUS
    <3>3. out_file' = Written
      BY <1>6, <3>1, <3>2
    <3>4. out_file'.items = [i \in DOMAIN array |-> Executable[array[i].process]]
      BY <3>3 DEF Written
    <3>5. compilers = Binaries
      BY <3>1 DEF IInv, RunInv, TracerPhases, ToolsInv, TracedWanted
    <3>6. \A i \in DOMAIN array : Stem[Executable[array[i].process].name] \in Binaries
      BY <1>6, <3>5 DEF IInv, ToolsInv, TracedWanted, Logged, IsInterestingBinary, Binary
    <3> QED  BY <1>6, <3>1, <3>4, <3>6 DEF Range
  <2> QED  BY <2>1, <2>2
<1>7. TracedWanted'
  BY <1>3, <1>4, <1>5, <1>6 DEF TracedWanted, IInv, ToolsInv, IsInterestingBinary
<1> QED  BY <1>2, <1>7 DEF ToolsInv

\* At the start nothing is loaded, logged or processed.
LEMMA InitToolsInv == Init => ToolsInv
<1> SUFFICES ASSUME Init PROVE ToolsInv
  OBVIOUS
<1>1. phase = "command" /\ lpc = "off" /\ array = <<>>
  BY DEF Init, WinInit
<1>2. out_file.by # "this" /\ ~Processed
  <2>1. CASE out_file = NoFileYet /\ archive = NoArchive
    BY <2>1 DEF NoFileYet, NoArchive, Processed
  <2>2. CASE /\ out_file = [by |-> "earlier", items |-> EarlierItems]
             /\ archive = [by |-> "earlier", source |-> "earlier", items |-> Range(EarlierItems)]
    BY <2>2 DEF Processed
  <2> QED  BY <2>1, <2>2 DEF Init
<1>3. Logged = {}
  BY <1>1, EmptySeq DEF Logged
<1> QED  BY <1>1, <1>2, <1>3 DEF ToolsInv, ProfileLoaded, TracedWanted, ToolsChosen, Processing

-----------------------------------------------------------------------------
(* The steps taken together.                                               *)

\* The steps of main start the Windows tracer or leave it alone.
LEMMA MainWinInv == ASSUME IInv, Main PROVE WinInv'
<1>1. WinInv
  BY DEF IInv
<1>2. CASE ParseCommandLine \/ ParseConfig \/ LoadProfile \/ MakeTracer \/ StraceMissing \/ Strace
           \/ WindbgEnds \/ LoadCdb \/ DetectProfile \/ Probe \/ Work \/ Generate
  BY <1>1, <1>2, FrameWinInv DEF ParseCommandLine, ParseConfig, LoadProfile, MakeTracer, StraceMissing,
     Strace, WindbgEnds, LoadCdb, DetectProfile, Probe, Work, Generate, winVars
<1>3. CASE TraceWithBear \/ StraceEnds
  BY <1>1, <1>3, FrameWinInv, UnixTraceMoves
<1>4. CASE TraceWithWindbg
  <2>1. lpc = "off"
    BY <1>4 DEF TraceWithWindbg, IInv, RunInv, TracerPhases, Tracing
  <2> QED  BY <1>1, <1>4, <2>1, StartWinInv DEF TraceWithWindbg
<1> QED  BY <1>2, <1>3, <1>4 DEF Main

\* What main does before and after the prober leaves what it knows alone.
LEMMA MainProberInv == ASSUME IInv, Main PROVE ProberInv'
<1>1. /\ ProberInv /\ IsList(toolchain_profile) /\ temporaries \subseteq Temporaries
      /\ IsList(out_file.items)
  BY RunFacts DEF IInv, ProberInv, ProberTypes, ProberTypeOK, Temporaries
<1>2. CASE ParseCommandLine \/ ParseConfig \/ LoadProfile \/ MakeTracer \/ StraceMissing \/ Strace
  <2>1. /\ UNCHANGED <<tools, cdb, proberVars>>
        /\ phase \notin Probing /\ phase' # "probe"
        /\ temporaries' \subseteq temporaries \cup {"strace"}
    BY <1>2 DEF ParseCommandLine, ParseConfig, LoadProfile, MakeTracer, StraceMissing, Strace, Return,
                toolVars, Probing
  <2>2. toolchain_profile' = toolchain_profile \/ IsList(toolchain_profile')
    <3>1. CASE LoadProfile
      <4>1. PICK name : name = profile
        OBVIOUS
      <4>2. toolchain_profile' = Load(name).tools
        BY <3>1, <4>1 DEF LoadProfile
      <4>3. IsList(Load(name).tools)
        BY LoadedList
      <4> QED  BY <4>2, <4>3 DEF IsList
    <3>2. CASE ~LoadProfile
      BY <1>2, <3>2 DEF ParseCommandLine, ParseConfig, MakeTracer, StraceMissing, Strace
    <3> QED  BY <3>1, <3>2
  <2>3. temporaries' \subseteq Temporaries
    BY <1>1, <2>1 DEF Temporaries
  <2> QED  BY <1>1, <2>1, <2>2, <2>3, FrameProberInv
<1>3. CASE TraceWithBear \/ StraceEnds
  <2>1. phase \notin Probing /\ phase' # "probe" /\ temporaries' \subseteq Temporaries
    BY <1>3, UnixTraceMoves DEF Probing
  <2> QED  BY <1>1, <1>3, <2>1, UnixTraceMoves, FrameProberInv
<1>4. CASE TraceWithWindbg \/ WindbgEnds
  <2>1. /\ UNCHANGED <<tools, cdb, proberVars, toolchain_profile>>
        /\ phase \notin Probing /\ phase' # "probe"
        /\ temporaries' \subseteq temporaries \cup {"config"}
    BY <1>4 DEF TraceWithWindbg, WindbgEnds, Traced, Return, toolVars, Probing
  <2>2. temporaries' \subseteq Temporaries
    BY <1>1, <2>1 DEF Temporaries
  <2> QED  BY <1>1, <2>1, <2>2, FrameProberInv
<1>5. CASE LoadCdb
  BY <1>1, <1>5, LoadProberInv
<1>6. CASE DetectProfile
  BY <1>1, <1>6, DetectProberInv
<1>7. CASE Probe
  <2>1. /\ phase = "probe" /\ UNCHANGED <<tools, cdb, toolchain_profile>>
    BY <1>7 DEF Probe
  <2>2. CASE ProbeItem /\ UNCHANGED <<phase, ec>>
    BY <1>1, <2>1, <2>2, ItemProberInv
  <2>3. CASE ProbeLanguage /\ UNCHANGED <<phase, ec>>
    BY <1>1, <2>1, <2>3, LanguageProberInv
  <2>4. CASE ProbeThrows /\ Return("EC_UNKOWN")
    BY <1>1, <2>1, <2>4, LanguageProberInv DEF Return
  <2>5. CASE Probed /\ LoadActionable /\ phase' = "work" /\ UNCHANGED ec
    BY <1>1, <2>1, <2>5, LoadActionableProberInv
  <2> QED  BY <1>7, <2>2, <2>3, <2>4, <2>5 DEF Probe
<1>8. CASE Work \/ Generate
  <2>1. /\ UNCHANGED <<tools, cdb, proberVars, toolchain_profile, temporaries>>
        /\ phase \in Probing /\ phase' # "probe"
    BY <1>8 DEF Work, Generate, Return, toolVars, Probing
  <2>2. phase' \in Probing
    BY <1>8 DEF Work, Generate, Return, Probing
  <2> QED  BY <1>1, <2>1, <2>2, FrameProberInv
<1> QED  BY <1>2, <1>3, <1>4, <1>5, <1>6, <1>7, <1>8 DEF Main

\* The invariant holds at the start of a run.
LEMMA InitInvariant == Init => IInv
BY InitWinInv, InitProberInv, InitRunInv, InitToolsInv DEF Init, IInv

\* A step that changes nothing keeps the invariant.
LEMMA StutterInvariant == ASSUME IInv, UNCHANGED vars PROVE IInv'
<1>1. UNCHANGED <<winVars, toolVars, temporaries, mainVars>>
  BY DEF vars
<1>2. WinInv'
  BY <1>1, FrameWinInv DEF IInv, winVars
<1>3. ProberInv'
  <2>1. /\ UNCHANGED <<tools, cdb, proberVars, toolchain_profile, temporaries, phase>>
        /\ temporaries \subseteq Temporaries
    BY <1>1 DEF toolVars, mainVars, IInv, ProberInv, ProberTypeOK, Temporaries
  <2> QED  BY <2>1, FrameProberInv DEF IInv
<1>4. RunInv'
  <2>1. UNCHANGED <<lpc, array, root_process_exit_status, out_file, tools, cdb, temporaries,
                    phase, method, profile, ec, source, archive, source_list>>
    BY <1>1 DEF winVars, loopVars, toolVars, mainVars, results
  <2>2. RunTypes'
    BY <1>2, <1>3, <2>1, RunFacts DEF RunTypes, TypeOK, IInv, RunInv, WinInv, WinTypes, ProberInv
  <2>3. TracerPhases' /\ TraceWritten'
    BY <2>1 DEF TracerPhases, TraceWritten, IInv, RunInv
  <2>4. RunFiles' /\ TempsPhased'
    BY <2>1 DEF RunFiles, TempsPhased, TempFilesRemoved, Processed, BuildPassed, Loaded,
                MadeOfLoaded, IInv, RunInv
  <2> QED  BY <2>2, <2>3, <2>4 DEF RunInv
<1>5. ToolsInv'
  <2>1. UNCHANGED <<lpc, compilers, array, out_file, tools, phase, method, profile,
                    toolchain_profile, detected, archive, Names>>
    BY <1>1 DEF winVars, loopVars, toolVars, mainVars, results, Names
  <2> QED  BY <2>1 DEF IInv, ToolsInv, ProfileLoaded, TracedWanted, ToolsChosen, Processed, Binaries,
                       Logged, IsInterestingBinary
<1> QED  BY <1>2, <1>3, <1>4, <1>5 DEF IInv

\* Every step of a run keeps the invariant.
LEMMA NextInvariant == IInv /\ [Next]_vars => IInv'
<1> SUFFICES ASSUME IInv, [Next]_vars PROVE IInv'
  OBVIOUS
<1>1. CASE Main
  <2>1. WinInv' /\ ProberInv'
    BY <1>1, MainWinInv, MainProberInv
  <2>2. RunInv'
    BY <1>1, <2>1, QuietRunInv, UnixTraceRunInv, WindbgRunInv, ProcessRunInv, GenerateRunInv DEF Main
  <2>3. ToolsInv'
    BY <1>1, QuietToolsInv, UnixTraceToolsInv, WindbgToolsInv, ProcessToolsInv DEF Main
  <2> QED  BY <2>1, <2>2, <2>3 DEF IInv
<1>2. CASE Windbg
  <2>1. WinInv'
    BY <1>2, StepWinInv DEF Windbg, IInv
  <2>2. ProberInv'
    <3>1. /\ UNCHANGED <<tools, cdb, proberVars, toolchain_profile, temporaries, phase>>
          /\ temporaries \subseteq Temporaries
      BY <1>2 DEF Windbg, toolVars, mainVars, IInv, ProberInv, ProberTypeOK, Temporaries
    <3> QED  BY <3>1, FrameProberInv DEF IInv
  <2>3. RunInv'
    BY <1>2, <2>1, <2>2, TracerRunInv
  <2>4. ToolsInv'
    BY <1>2, TracerToolsInv
  <2> QED  BY <2>1, <2>2, <2>3, <2>4 DEF IInv
<1>3. CASE UNCHANGED vars
  BY <1>3, StutterInvariant
<1> QED  BY <1>1, <1>2, <1>3 DEF Next

\* Every state of every run satisfies the invariant: of the processes under the
\* debugger and their events (win-tracer.cpp:490-540), of the tools probed and what
\* they answered (prober.cpp:143-195), and of the files that the phases of a run
\* hand on to each other (main.cpp:29-95, tracer.cpp:78-276).
THEOREM InvariantHolds == Spec => []IInv
<1>1. Init => IInv
  BY InitInvariant
<1>2. IInv /\ [Next]_vars => IInv'
  BY NextInvariant
<1> QED  BY <1>1, <1>2, PTL DEF Spec

-----------------------------------------------------------------------------
(* The properties.                                                         *)

\* The end of the Windows tracer cuts off no process that somebody waits for, unless
\* its parent is cut off too, and never the root, when its loop has ended by itself:
\* because of the loop condition, which only the root's end makes false.
\* (win-tracer.cpp:517)
THEOREM OnlyDetachedAreKilled == Spec => []OnlyDetachedKilled
<1>1. IInv => OnlyDetachedKilled
  BY DetachedKilled DEF IInv
<1> QED  BY <1>1, InvariantHolds, PTL

\* A process that ran an instruction of its own is in the array, if it is wanted and
\* could be read: it is logged from its event, before it is continued.
\* (win-tracer.cpp:509 before 534)
THEOREM RanIsLogged == Spec => []RanMeansLogged
<1>1. IInv => RanMeansLogged
  BY DEF IInv, WinInv, LogMatches
<1> QED  BY <1>1, InvariantHolds, PTL

\* The steps of main leave the build and its log alone, and choose the compilers only
\* while nothing is logged.
LEMMA MainArguments == ASSUME IInv, ArgsInv, Main PROVE ArgsInv'
<1>1. CASE ParseCommandLine \/ ParseConfig \/ LoadProfile \/ MakeTracer \/ StraceMissing \/ Strace
           \/ WindbgEnds \/ LoadCdb \/ DetectProfile \/ Probe \/ Work \/ Generate
  BY <1>1, FrameArguments DEF ParseCommandLine, ParseConfig, LoadProfile, MakeTracer, StraceMissing,
     Strace, WindbgEnds, LoadCdb, DetectProfile, Probe, Work, Generate, winVars
<1>2. CASE TraceWithBear \/ StraceEnds
  BY <1>2, FrameArguments, UnixTraceMoves
<1>3. CASE TraceWithWindbg
  <2>1. lpc = "off"
    BY <1>3 DEF TraceWithWindbg, IInv, RunInv, TracerPhases, Tracing
  <2>2. array = <<>>
    BY <2>1 DEF IInv, WinInv, DebuggeesOwned
  <2> QED  BY <1>3, <2>2, FrameArguments DEF TraceWithWindbg
<1> QED  BY <1>1, <1>2, <1>3 DEF Main

\* With it, its entry has all of its arguments and those of its response file, which is
\* read while the process stands still for its first event: in every build whose compilers
\* have their response files to themselves.
\* (win-tracer.cpp:385-423, called from 509, before 534)
THEOREM RanIsRecorded == OwnResponseFiles => (Spec => []RanMeansRecorded)
<1> SUFFICES ASSUME OwnResponseFiles PROVE Spec => []RanMeansRecorded
  OBVIOUS
<1>1. Init => ArgsInv
  BY InitArguments DEF Init
<1>2. IInv /\ ArgsInv /\ [Next]_vars => ArgsInv'
  <2> SUFFICES ASSUME IInv, ArgsInv, [Next]_vars PROVE ArgsInv'
    OBVIOUS
  <2>1. CASE Main
    BY <2>1, MainArguments
  <2>2. CASE Windbg
    BY <2>2, StepArguments DEF Windbg, IInv
  <2>3. CASE UNCHANGED vars
    BY <2>3, FrameArguments DEF vars, winVars
  <2> QED  BY <2>1, <2>2, <2>3 DEF Next
<1>3. IInv /\ ArgsInv => RanMeansRecorded
  BY DEF IInv, WinInv, LogMatches, ArgsInv, RanMeansRecorded
<1> QED  BY <1>1, <1>2, <1>3, InvariantHolds, PTL DEF Spec

\* The options of a tool are those one probe asked for, of the binary of its first
\* command, in each database and with each profile. (prober.cpp:175)
THEOREM OptionsAreOfFirstBinary == Spec => []OptionsOfFirstBinary
<1>1. IInv => OptionsOfFirstBinary
  BY FirstBinary DEF IInv
<1> QED  BY <1>1, InvariantHolds, PTL

\* With the default Unix tracer no archive is made from the database of an earlier run:
\* a build that has passed has written its own. (build-processor.cpp:80, tracer.cpp:179)
THEOREM OwnTraceProcessed == Spec => []ProcessedOwnTrace
<1>1. IInv => ProcessedOwnTrace
  <2> SUFFICES ASSUME IInv, Processed, archive.source = "earlier"
               PROVE  method \in {"static", "windbg"}
    BY DEF ProcessedOwnTrace
  <2>1. source = "earlier" /\ out_file.by = "earlier" /\ BuildPassed /\ phase = "returned"
    BY DEF IInv, RunInv, RunFiles, Loaded, MadeOfLoaded
  <2> QED  BY <2>1 DEF BuildPassed, Methods
<1> QED  BY <1>1, InvariantHolds, PTL

\* A result made from a Windows trace is made from all of it: the root has ended with 0
\* and each compiler of a known tool that ran is in the archive, since only the root's
\* end makes the status 0 and each process is logged before it runs.
\* (win-tracer.cpp:453, tracer.cpp:268-276)
THEOREM WholeTraceProcessed == Spec => []WholeTrace
<1>1. IInv => WholeTrace
  <2> SUFFICES ASSUME IInv, Processed, archive.source = "this", method = "windbg"
               PROVE  /\ proc[Root] = "gone" /\ root_process_exit_status = 0
                      /\ \A p \in Processes \ Unreadable :
                           Ran(p) /\ IsInterestingBinary(Binary(p))
                           /\ ToolOf(tools, Executable[p].name) # NoTool => Executable[p] \in archive.items
    BY DEF WholeTrace
  <2>1. /\ BuildPassed /\ Loaded /\ MadeOfLoaded /\ out_file.by = "this"
        /\ cdb = [i \in DOMAIN array |-> Executable[array[i].process]]
    BY DEF IInv, RunInv, RunFiles, Loaded, MadeOfLoaded, TraceWritten
  <2>2. lpc = "done" /\ root_process_exit_status = 0
    BY <2>1 DEF BuildPassed
  <2>3. proc[Root] = "gone"
    BY <2>2 DEF IInv, WinInv, RootSeen
  <2>4. ASSUME NEW p \in Processes \ Unreadable, Ran(p), IsInterestingBinary(Binary(p)),
               ToolOf(tools, Executable[p].name) # NoTool
        PROVE  Executable[p] \in archive.items
    <3>1. p \in Logged
      BY <2>4 DEF IInv, WinInv, LogMatches, RanMeansLogged
    <3>2. PICK i \in DOMAIN array : array[i].process = p
      BY <3>1 DEF Logged
    <3>3. Executable[p] \in Range(cdb)
      BY <2>1, <3>2 DEF Range
    <3> QED  BY <2>1, <2>4, <3>3 DEF MadeOfLoaded
  <2> QED  BY <2>2, <2>3, <2>4
<1> QED  BY <1>1, InvariantHolds, PTL

\* A command of a trace that is known by its name has a tool when it is processed with
\* the profile it was traced for, and with the one detected, if this is an origin of its
\* tool and is loaded up to a tool for it; and it is an origin of every command's tool if
\* any is.  This is so for profiles whose tools are for some binary and whose origins
\* are toolchains for the binaries of the tools they are named of; how a command can be
\* traced and not be known by its name is CalledOtherwise.
\* (toolchain-profile.cpp:124 and 156, build-processor.cpp:108-146 and 219)
THEOREM TracedIsProcessed ==
  ASSUME \A name \in Profiles :
           /\ NamesBinaries(Load(name).tools)
           /\ name \in AutoProfiles => OriginsCover(Load(name).tools)
  PROVE  Spec => []TracedMeansProcessed
<1>1. IInv => TracedMeansProcessed
  <2> SUFFICES ASSUME IInv, Processed, archive.source = "this", toolchain_profile # <<>>,
                      NEW b \in Range(cdb) \ archive.items, ~CalledOtherwise(b)
               PROVE  /\ profile \in AutoProfiles
                      /\ \/ LoadStops(detected, b.name)
                         \/ /\ detected \notin Range(OriginsOf(toolchain_profile, b.name))
                            /\ \A origin \in Range(Origins) :
                                 OriginCount(toolchain_profile, Names, origin) # Len(cdb)
    BY DEF TracedMeansProcessed
  <2>1. /\ out_file.by = "this" /\ cdb = out_file.items
        /\ archive.items = {c \in Range(cdb) : ToolOf(tools, c.name) # NoTool}
        /\ toolchain_profile = Load(profile).tools /\ Load(profile).ok
        /\ IF profile \in AutoProfiles
           THEN detected = Detect(toolchain_profile, Names) /\ tools = Load(detected).tools
           ELSE tools = toolchain_profile
        /\ phase = "returned" /\ BuildPassed
    BY DEF IInv, RunInv, RunFiles, Loaded, MadeOfLoaded, ToolsInv, ProfileLoaded, ToolsChosen
  <2>2. Binaries # {} /\ (profile \in AutoProfiles => OriginsCover(toolchain_profile))
    <3>1. profile \in Profiles
      BY DEF IInv, ToolsInv, ProfileLoaded
    <3> QED  BY <2>1, <3>1 DEF NamesBinaries, Binaries
  <2>3. IsList(tools) /\ IsList(toolchain_profile) /\ IsList(cdb)
    BY DEF IInv, ProberInv, ProberTypes
  <2>4. Stem[b.name] \in BinariesToTrace(toolchain_profile)
    BY <2>1, <2>2 DEF IInv, ToolsInv, TracedWanted, Binaries, CalledOtherwise, BuildPassed, Methods
  <2>5. Stem[b.name] \notin BinariesToTrace(tools)
    BY <2>1, <2>3, ToolFound
  <2>6. profile \in AutoProfiles /\ tools = Load(detected).tools
    BY <2>1, <2>4, <2>5
  <2>7. CASE detected \in Range(OriginsOf(toolchain_profile, b.name))
    <3> DEFINE t == ToolOf(toolchain_profile, b.name)
    <3>1. /\ t \in DOMAIN toolchain_profile /\ t # NoTool
          /\ Stem[b.name] \in Aliases(toolchain_profile[t])
      BY <2>3, <2>4, ToolFound
    <3>2. detected \in Range(toolchain_profile[t].origin)
      BY <2>7, <3>1 DEF OriginsOf
    <3> HIDE DEF t
    <3>3. detected \in DOMAIN Toolchains => Stem[b.name] \in BinariesToTrace(Toolchains[detected])
      BY <2>2, <2>6, <3>1, <3>2 DEF OriginsCover
    <3>4. LoadStops(detected, b.name)
      BY <2>5, <2>6, <3>3, NotLoaded
    <3> QED  BY <2>6, <3>4
  <2>8. ASSUME NEW origin \in Range(Origins), OriginCount(toolchain_profile, Names, origin) = Len(cdb)
        PROVE  detected \in Range(OriginsOf(toolchain_profile, b.name))
    <3> DEFINE N == Len(cdb)
    <3>1. N \in Nat \ {0} /\ DOMAIN cdb = 1 .. N
      BY <2>3, LenProperties DEF IsList, Range
    <3>2. DOMAIN Names = 1 .. N /\ \A n \in 1 .. N : Names[n] = cdb[n].name
      BY <3>1 DEF Names
    <3>3. Len(Names) = N
      <4> HIDE DEF N
      <4>1. Names = [n \in 1 .. N |-> cdb[n].name]
        BY <3>1 DEF Names
      <4>2. Names \in Seq({cdb[n].name : n \in 1 .. N})
        BY <3>1, <4>1
      <4> QED  BY <3>1, <3>2, <4>2, LenProperties
    <3>4. detected = Detect(toolchain_profile, Names)
      BY <2>1, <2>6
    <3>5. OriginCount(toolchain_profile, Names, detected) = N
      BY <2>8, <3>1, <3>3, <3>4, FullOriginDetected
    <3>6. \A n \in 1 .. N : IsInjective(OriginsOf(toolchain_profile, Names[n]))
      <4> SUFFICES ASSUME NEW n \in 1 .. N PROVE IsInjective(OriginsOf(toolchain_profile, Names[n]))
        OBVIOUS
      <4>1. IsInjective(<<>>)
        BY EmptySeq DEF IsInjective
      <4> QED  BY <2>2, <2>3, <2>6, <4>1, ToolFound DEF OriginsOf, OriginsCover
    <3>7. \A n \in 1 .. N : detected \in Range(OriginsOf(toolchain_profile, Names[n]))
      <4> HIDE DEF N
      <4>1. N \in Nat /\ ~(OriginCount(toolchain_profile, Names, detected) < N)
        BY <3>1, <3>5
      <4>2. DOMAIN Names = 1 .. N
        BY <3>2
      <4> QED  BY <3>6, <4>1, <4>2, OriginOfAll
    <3>8. PICK n \in 1 .. N : b = cdb[n]
      BY <3>1 DEF Range
    <3> QED  BY <3>2, <3>7, <3>8
  <2> QED  BY <2>6, <2>7, <2>8
<1> QED  BY <1>1, InvariantHolds, PTL

\* A run that returns has removed the files its tracer and its prober made, unless an
\* exception ended it. (tracer.cpp:136, 183 and 214, prober.cpp:126 and 139)
THEOREM TempFilesAreRemoved == Spec => []TempFilesRemoved
<1>1. IInv => TempFilesRemoved
  BY DEF IInv, RunInv, TempsPhased
<1> QED  BY <1>1, InvariantHolds, PTL

\* Only the last step of a run touches the result of an earlier one; if it leaves half
\* of one the run fails, and if it fails the list of sources is not of this run.
\* (build-processor.cpp:272-502)
THEOREM ErrorKeepsEarlierArchive == Spec => ErrorKeepsArchive
<1>1. ASSUME IInv, [Next]_vars
      PROVE  [results' # results =>
                /\ phase' = "returned"
                /\ \/ ec' = "EC_NONE" /\ archive'.by # "broken"
                   \/ ec' = "EC_UNKOWN" /\ source_list' # "this"]_vars
  <2>1. CASE Generate
    <3>1. source_list \in {"nobody", "earlier"}
      BY <1>1, <2>1, RunFacts DEF Generate
    <3>2. phase' = "returned" /\ (ec' = "EC_NONE" \/ (ec' = "EC_UNKOWN" /\ source_list' # "this"))
      BY <2>1, <3>1 DEF Generate, Return
    <3>3. ASSUME ec' = "EC_NONE" PROVE archive'.by # "broken"
      <4> DEFINE made == {b \in Range(cdb) : ToolOf(tools, b.name) # NoTool}
      <4> HIDE DEF made
      <4>1. archive' = archive \/ archive' = [by |-> "this", source |-> source, items |-> made]
        BY <2>1, <3>3 DEF Generate, Return, made
      <4>2. archive.by # "broken"
        BY <1>1, <2>1, RunFacts DEF Generate
      <4> QED  BY <4>1, <4>2
    <3> QED  BY <3>2, <3>3
  <2>2. CASE ParseCommandLine \/ ParseConfig \/ LoadProfile \/ MakeTracer \/ StraceMissing \/ Strace
             \/ TraceWithBear \/ StraceEnds \/ TraceWithWindbg \/ WindbgEnds
             \/ LoadCdb \/ DetectProfile \/ Probe \/ Work
    BY <2>2 DEF ParseCommandLine, ParseConfig, LoadProfile, MakeTracer, StraceMissing, Strace,
       TraceWithBear, StraceEnds, TraceWithWindbg, WindbgEnds, LoadCdb, DetectProfile, Probe, Work
  <2>3. CASE Windbg \/ UNCHANGED vars
    BY <2>3 DEF Windbg, mainVars, vars
  <2> QED  BY <1>1, <2>1, <2>2, <2>3 DEF Next, Main
<1> QED  BY <1>1, InvariantHolds, PTL DEF Spec, ErrorKeepsArchive

-----------------------------------------------------------------------------
(* The Windows tracer implements the log.                                  *)

\* The steps of main do not log, and end the log at most by not starting the tracer.
LEMMA MainImplementsLog == ASSUME IInv, Main PROVE [WinLog!Next]_(WinLog!vars)
<1>1. CASE TraceWithWindbg
  <2>1. lpc = "off" /\ UNCHANGED <<proc, array>>
    BY <1>1 DEF TraceWithWindbg, IInv, RunInv, TracerPhases, Tracing, buildVars, loopVars
  <2>2. Issued' = Issued
    BY <2>1 DEF Issued
  <2> QED  BY <2>1, <2>2, LogStutters
<1>2. CASE TraceWithBear \/ StraceEnds
  <2>1. lpc # "done" /\ UNCHANGED <<proc, array>>
    BY <1>2, UnixTraceMoves, RunFacts DEF buildVars, loopVars
  <2>2. Issued' = Issued
    BY <2>1 DEF Issued
  <2> QED  BY <2>1, <2>2, LogStutters
<1>3. CASE ParseCommandLine \/ ParseConfig \/ LoadProfile \/ MakeTracer \/ StraceMissing \/ Strace
           \/ WindbgEnds \/ LoadCdb \/ DetectProfile \/ Probe \/ Work \/ Generate
  <2>1. UNCHANGED <<proc, array, lpc, out_file>>
    BY <1>3 DEF ParseCommandLine, ParseConfig, LoadProfile, MakeTracer, StraceMissing, Strace,
       WindbgEnds, LoadCdb, DetectProfile, Probe, Work, Generate, winVars, buildVars, loopVars
  <2>2. Issued' = Issued
    BY <2>1 DEF Issued
  <2> QED  BY <2>1, <2>2, LogStutters
<1> QED  BY <1>1, <1>2, <1>3 DEF Main

\* Under the debugger, too, each process is recorded at most once and only after it
\* reported itself, in one log that grows until it ends, once: the promise of the Unix
\* tracer, kept by the debug loop of another. (win-tracer.cpp:490-540)
THEOREM WinTracerImplementsTraceLog == Spec => WinImplementsTraceLog
<1>1. Init => WinLog!Init
  BY InitImplementsLog DEF Init
<1>2. ASSUME IInv, [Next]_vars PROVE [WinLog!Next]_(WinLog!vars)
  <2>1. CASE Main
    BY <1>2, <2>1, MainImplementsLog
  <2>2. CASE Windbg
    BY <1>2, <2>2, StepImplementsLog DEF Windbg, IInv
  <2>3. CASE UNCHANGED vars
    <3>1. UNCHANGED <<proc, array, lpc, out_file>>
      BY <2>3 DEF vars, winVars, buildVars, loopVars
    <3>2. Issued' = Issued
      BY <3>1 DEF Issued
    <3> QED  BY <3>1, <3>2, LogStutters
  <2> QED  BY <1>2, <2>1, <2>2, <2>3 DEF Next
<1> QED  BY <1>1, <1>2, InvariantHolds, PTL DEF Spec, WinImplementsTraceLog, WinLog!Spec

=============================================================================
