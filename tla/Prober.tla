------------------------------- MODULE Prober -------------------------------
(***************************************************************************)
(* The prober (prober/prober.cpp): before the work items are processed it  *)
(* runs the compiler of each tool profile once, on a file of macros, and   *)
(* prepends to the profile's JSON what the expansions ask for;             *)
(* load_actionable (profile/tool-profile.cpp) then reads the options the   *)
(* work items are to use from that JSON.                                   *)
(*                                                                         *)
(* The answer of a compiler is abstracted to the binary that gave it: the  *)
(* options its macros ask for are those of that binary and no other.       *)
(***************************************************************************)
EXTENDS ToolchainProfiles

CONSTANTS
  LanguageAliases, \* of each tool, per language, the aliases of that language only
  ProbedLanguages, \* the languages each tool has macros to probe for
  OutputOption,    \* the tools that have an output option
  Installed        \* the binaries there are: [dir, name]

Languages == {"cxx", "c"}
Other(lang) == IF lang = "cxx" THEN "c" ELSE "cxx"

VARIABLES
  tools,        \* the tool profiles of the toolchain in use
  cdb,          \* the binaries of the database's commands
  item,         \* the command the prober is at
  probed,       \* the tools it has come across
  pending,      \* the languages still to probe of the tool of this command
  config,       \* per tool and language, the option list of the profile's JSON
  options,      \* the same as the work items see it
  runs,         \* the probes that were run: [tool, lang, binary, answer]
  temporaries   \* files made for the program's own use

proberVars == <<item, probed, pending, config, options, runs>>

NoOptions(ts) == [t \in DOMAIN ts |-> [lang \in Languages |-> <<>>]]

ProberInit ==
  /\ item = 1 /\ probed = {} /\ pending = <<>> /\ runs = <<>>
  /\ config = <<>> /\ options = <<>>

\* A toolchain has been chosen for the database.
ProberStart(ts) ==
  /\ config' = NoOptions(ts) /\ options' = NoOptions(ts)
  /\ UNCHANGED <<item, probed, pending, runs>>

Tool == ToolOf(tools, cdb[item].name)

\* The languages a tool is probed for: C++ comes first.
ToProbe(tool) ==
  LET probing(lang) == IF lang \in ProbedLanguages[tool] THEN <<lang>> ELSE <<>>
  IN probing("cxx") \o probing("c")

\* Mutant of ProbeItem: each binary of a tool is probed.
ProbeEachItem ==
  /\ pending = <<>> /\ item <= Len(cdb)
  /\ IF Tool # NoTool /\ tools[Tool].tool \in OutputOption
     THEN /\ pending' = ToProbe(tools[Tool].tool)
          /\ probed' = probed \cup {Tool}
          /\ item' = IF pending' = <<>> THEN item + 1 ELSE item
     ELSE item' = item + 1 /\ UNCHANGED <<pending, probed>>
  /\ UNCHANGED <<config, options, runs, temporaries>>

\* Mutant of ProbeItem: the set gets the profile before it is known to be one.
ProbeItemUnknown ==
  /\ pending = <<>> /\ item <= Len(cdb)
  /\ IF Tool # NoTool /\ Tool \notin probed /\ tools[Tool].tool \in OutputOption
     THEN pending' = ToProbe(tools[Tool].tool)
     ELSE UNCHANGED pending
  /\ probed' = probed \cup {Tool}
  /\ item' = IF pending' = <<>> THEN item + 1 ELSE item
  /\ UNCHANGED <<config, options, runs, temporaries>>

\* The loop of probe_toolchain: a command of a tool not met before, which is
\* marked as probed before it is known whether its binary can be run.
ProbeItem ==
  /\ pending = <<>> /\ item <= Len(cdb)
  /\ IF Tool # NoTool /\ Tool \notin probed /\ tools[Tool].tool \in OutputOption
     THEN pending' = ToProbe(tools[Tool].tool)
     ELSE UNCHANGED pending
  /\ probed' = IF Tool = NoTool THEN probed ELSE probed \cup {Tool}
  /\ item' = IF pending' = <<>> THEN item + 1 ELSE item
  /\ UNCHANGED <<config, options, runs, temporaries>>

\* The binary probe_macros runs for a language: one of the other language's
\* aliases gives way to one of this language's, with the same extension and in
\* the same directory, or, if the tool has none, to a generic one.
ProbeBinaries(tool, binary, lang) ==
  LET filter == LanguageAliases[tool][Other(lang)]
      needed == LanguageAliases[tool][lang]
      names  == IF needed # {} THEN needed ELSE DefaultAliases[tool] \ filter
      there  == {b \in Installed :
                   b.dir = binary.dir
                   /\ \E alias \in names : IsChanged(b.name, alias, Extension[binary.name])}
  IN IF Stem[binary.name] \in filter /\ there # {} THEN there ELSE {binary}

\* ToolProfile::apply_action of what the expansions of a binary ask for.
Prepend(list, binary) == <<binary>> \o list

\* Mutant of ProbeMacros: the files stay when the compiler fails.
ProbeMacrosKeepFiles(answer) ==
  LET tool == tools[Tool].tool  lang == Head(pending) IN
  \E binary \in ProbeBinaries(tool, cdb[item], lang) :
    /\ runs' = Append(runs, [tool |-> Tool, lang |-> lang, binary |-> binary, answer |-> answer])
    /\ config' = IF answer = "options"
                 THEN [config EXCEPT ![Tool][lang] = Prepend(@, binary)] ELSE config
    /\ temporaries' = IF answer = "fails" THEN temporaries \cup {"probe"} ELSE temporaries

\* probe_macros for the next language: the compiler fails, its expansions ask for
\* nothing, for options, or cannot be split (substr throws: the files stay).
ProbeMacros(answer) ==
  LET tool == tools[Tool].tool  lang == Head(pending) IN
  \E binary \in ProbeBinaries(tool, cdb[item], lang) :
    /\ runs' = Append(runs, [tool |-> Tool, lang |-> lang, binary |-> binary, answer |-> answer])
    /\ config' = IF answer = "options"
                 THEN [config EXCEPT ![Tool][lang] = Prepend(@, binary)] ELSE config
    /\ temporaries' = IF answer = "throws" THEN temporaries \cup {"probe"} ELSE temporaries

ProbeLanguage ==
  /\ pending # <<>>
  /\ \E answer \in {"fails", "nothing", "options"} : ProbeMacros(answer)
  /\ pending' = Tail(pending)
  /\ item' = IF pending' = <<>> THEN item + 1 ELSE item
  /\ UNCHANGED <<probed, options>>

ProbeThrows ==
  /\ pending # <<>> /\ ProbeMacros("throws")
  /\ UNCHANGED <<item, probed, pending, options>>

Probed == item > Len(cdb)

\* load_actionable adds to the lists what the profile's JSON holds by now.
LoadActionable ==
  /\ options' = [t \in DOMAIN tools |->
                   [lang \in Languages |-> options[t][lang] \o config[t][lang]]]
  /\ UNCHANGED <<item, probed, pending, config, runs, temporaries>>

-----------------------------------------------------------------------------
(* Properties.                                                             *)

FirstItemOf(t) == CHOOSE i \in DOMAIN cdb :
  /\ ToolOf(tools, cdb[i].name) = t
  /\ \A j \in 1 .. i - 1 : ToolOf(tools, cdb[j].name) # t

\* Whatever compilers of a tool the build used, the options its work items get
\* are what one probe of one of them asked for, or none: a compiler that came
\* later in the database never adds to or overrides what the first one said.
\* (prober.cpp:175, "Filter unknown or handled profiles")
OptionsOfFirstBinary ==
  \A t \in DOMAIN options : \A lang \in Languages :
    \A k \in DOMAIN options[t][lang] :
      /\ Len(options[t][lang]) = 1
      /\ options[t][lang][k] \in ProbeBinaries(tools[t].tool, cdb[FirstItemOf(t)], lang)

ProberTypeOK ==
  /\ item \in 1 .. Len(cdb) + 1
  /\ probed \subseteq DOMAIN tools
  /\ Range(pending) \subseteq Languages
  /\ DOMAIN config = DOMAIN options
  /\ \A k \in DOMAIN runs : runs[k].answer \in {"fails", "nothing", "options", "throws"}
  /\ temporaries \subseteq {"config", "strace", "probe"}

=============================================================================
