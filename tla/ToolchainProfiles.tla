------------------------- MODULE ToolchainProfiles --------------------------
(***************************************************************************)
(* Toolchain profiles: how they are loaded (profile/toolchain-profile.cpp),*)
(* what they make the tracer look for, which tool profile a command gets,  *)
(* and which toolchain the commands of a build are taken to come from      *)
(* (build-processor.cpp, detect_toolchain_profile).                        *)
(*                                                                         *)
(* A toolchain is the "tools" array of its profile.json: a sequence of     *)
(* [tool, aliases, origin], the name of a tool profile, the binaries it is *)
(* for and the toolchains it comes from.  A command is known by the name   *)
(* of its binary, its first argument, without the extension.               *)
(***************************************************************************)
EXTENDS Naturals, Sequences, FiniteSets, SequencesExt, FileNames

CONSTANTS
  Toolchains,     \* what each profile.json that can be parsed holds
  DefaultAliases, \* the default aliases of each tool profile
  Broken,         \* the tool profiles that do not pass validation
  Origins         \* the toolchains an "origin" names, in the order of their names

ASSUME ProfileAssumption ==
  /\ Origins \in Seq(Range(Origins))
  /\ \A name \in DOMAIN Toolchains :
       /\ Toolchains[name] \in Seq(Range(Toolchains[name]))
       /\ \A i \in DOMAIN Toolchains[name] :
            /\ Toolchains[name][i].tool \in DOMAIN DefaultAliases
            /\ Range(Toolchains[name][i].origin) \subseteq Range(Origins)

\* ToolchainProfile::load of profiles/<name>: a tool profile that fails ends it,
\* and those before it stay loaded.
Load(name) ==
  IF name \notin DOMAIN Toolchains THEN [tools |-> <<>>, ok |-> FALSE]
  ELSE LET all == Toolchains[name]
           bad == {i \in DOMAIN all : all[i].tool \in Broken}
       IN [tools |-> IF bad = {} THEN all ELSE SubSeq(all, 1, Min(bad) - 1),
           ok    |-> bad = {}]

NoTool == 0

\* The aliases of a toolchain's entry override those of the tool profile.
Aliases(entry) ==
  IF "aliases" \in DOMAIN entry THEN entry.aliases ELSE DefaultAliases[entry.tool]

\* Mutant of ToolOf: the name is looked up as it is.
ToolOfFullName(tools, name) ==
  LET named == {i \in DOMAIN tools : name \in Aliases(tools[i])}
  IN IF named = {} THEN NoTool ELSE Max(named)

\* get_mutable_tool_profile_and_binary_path: what is looked up is the name without
\* its extension, whatever the extension is; an alias that has one is found only if
\* its stem is an alias.  binaries[alias] is assigned by each tool in turn, so the
\* last one that has the alias gets the command.
ToolOf(tools, name) ==
  LET named == {i \in DOMAIN tools : Stem[name] \in Aliases(tools[i])}
  IN IF named = {} THEN NoTool ELSE Max(named)

\* get_binaries_to_trace.
BinariesToTrace(tools) == UNION {Aliases(tools[i]) : i \in DOMAIN tools}

\* get_profile_origins of the tool of a command; none for a command without.
OriginsOf(tools, name) ==
  LET t == ToolOf(tools, name) IN IF t = NoTool THEN <<>> ELSE tools[t].origin

\* origin_counts[origin] after the commands of the database: how often the origin
\* is named by them, as the k-th one of the n-th command.
OriginCount(tools, names, origin) ==
  Cardinality(UNION {{n} \X {k \in DOMAIN OriginsOf(tools, names[n]) :
                                OriginsOf(tools, names[n])[k] = origin} : n \in DOMAIN names})

\* detect_toolchain_profile: the first origin of all the commands or, if there is
\* none, the first of those that most of them have; "" without any.
Detect(tools, names) ==
  LET count(i) == OriginCount(tools, names, Origins[i])
      found    == {i \in DOMAIN Origins : count(i) > 0}
      full     == {i \in found : count(i) = Len(names)}
      most     == {i \in found : \A j \in found : count(j) <= count(i)}
  IN IF full # {} THEN Origins[Min(full)] ELSE IF most # {} THEN Origins[Min(most)] ELSE ""

-----------------------------------------------------------------------------
\* What the theorem about detection assumes of the tools of a profile: an origin is
\* named once, and the toolchain it names has, as it is written, the binaries of the tool.
OriginsCover(tools) ==
  \A i \in DOMAIN tools :
    /\ IsInjective(tools[i].origin)
    /\ \A origin \in Range(tools[i].origin) :
         origin \in DOMAIN Toolchains =>
           Aliases(tools[i]) \subseteq BinariesToTrace(Toolchains[origin])

\* And of every profile: it is for some binary, if it has a tool.
NamesBinaries(tools) == tools # <<>> => BinariesToTrace(tools) # {}

\* The loading of a toolchain stops before it comes to a tool for a binary.
LoadStops(name, binary) ==
  \/ name \notin DOMAIN Toolchains
  \/ \E i \in DOMAIN Toolchains[name] :
       /\ Toolchains[name][i].tool \in Broken
       /\ \A j \in 1 .. i - 1 : Stem[binary] \notin Aliases(Toolchains[name][j])

=============================================================================
