---------------------------- MODULE ParseWorkItem ----------------------------
(***************************************************************************)
(* ToolProfile::parse_work_item and Option::match: what a tool profile     *)
(* makes of the command line of one traced command.                        *)
(*                                                                         *)
(* The properties compare it with the meaning the command line has for the *)
(* tool: a line is a sequence of elements, such as an option with its      *)
(* argument in one or in two words, or a source file, and the parser sees  *)
(* the words of it only.  The names of files stand for their full paths    *)
(* from the directory of the command.                                      *)
(***************************************************************************)
EXTENDS Naturals, Sequences, SequencesExt

CONSTANTS
  Options,     \* the options of the profile in their order: [aliases, type, formats,
               \* values, scan]
  Dashed,      \* the aliases and values that start with the optionPrefix of the profile
  Extension,   \* the extension of each value; it may be none
  SourceExtensions, TargetExtensions,    \* the first is a function to file formats
  Binaries,    \* the tool names, a function: the format an alias stands for, or "ext"
  DefaultKind, \* defaultCommandKind
  Elements,    \* the elements of command lines: [alias, form, value, content]
  MaxElements, \* the length of command lines in elements
  Added        \* prepended, isystem, preincluded and appended: functions from formats
               \* to sequences, the first and the last of words

NoValue == ""
Garbage == "garbage"   \* what a read past the end of the words gives

Forms == {"none", "space", "equal", "attached"}
OptionTypes ==
  {"cmd", "language", "response", "delete", "scan", "preprocess", "output", "include",
   "isystem", "other"}

\* An element without an alias is a value that is no option.
IsElement(e) ==
  /\ e.form \in Forms
  /\ e.alias = NoValue => e.form = "none" /\ e.value \notin Dashed
  /\ e.alias # NoValue /\ e.form = "none" => e.value = NoValue
  /\ e.content # <<>> => e.value # NoValue

\* The validation of a profile accepts neither an empty alias nor an empty prefix.
ASSUME ParseAssumption ==
  /\ MaxElements \in Nat
  /\ Options \in Seq(Range(Options))
  /\ \A o \in Range(Options) :
       /\ o.aliases \in Seq(Range(o.aliases)) \ {<<>>} /\ NoValue \notin Range(o.aliases)
       /\ o.type \in OptionTypes /\ o.formats \subseteq Forms \ {"none"}
  /\ NoValue \notin Dashed
  /\ \A e \in Elements : IsElement(e) /\ e.content \in Seq(Elements)

VARIABLES
  line,      \* the elements of the command
  respfile,  \* whether the content of the response file was traced or is still there
  args,      \* raw_args: the words, after unfolding
  it,        \* the place of the iterator in args
  parsed,    \* the ParsedWorkItem; words in pp_options are places in args
  pc

vars == <<line, respfile, args, it, parsed, pc>>

-----------------------------------------------------------------------------
(* Words.  A word is an alias of an option with what follows it, or a      *)
(* value alone, when its head is NoValue.                                  *)

Word(head, rest, value) == [head |-> head, rest |-> rest, value |-> value, content |-> <<>>]
Plain(value) == Word(NoValue, "none", value)

\* The words an element is written in.
Written(e) ==
  IF e.form = "space"
  THEN << Word(e.alias, "none", NoValue), [Plain(e.value) EXCEPT !.content = e.content] >>
  ELSE << [Word(e.alias, e.form, e.value) EXCEPT !.content = e.content] >>

WordsOf(elements) == FlattenSeq([n \in DOMAIN elements |-> Written(elements[n])])

StartsWithPrefix(w) == (IF w.head = NoValue THEN w.value ELSE w.head) \in Dashed
Ext(w) == IF w.head = NoValue THEN Extension[w.value] ELSE NoValue
IsEmpty(w) == w.head = NoValue /\ w.value = NoValue

-----------------------------------------------------------------------------
(* Option::match_and_get_arg.                                              *)

\* What comes of an option alone at place n of the words: its argument and the next place.
\* The next word is the argument if it has no prefix.  Behind the last word there
\* may be anything, and the iterator may move beyond the end.
Separate(words, n) ==
  LET next == words[n + 1]
      Read(arg) == [arg |-> arg, next |-> n + 2]
      Unread == [arg |-> NoValue, next |-> n + 1]
  IN IF n = Len(words) THEN {Unread, Read(Garbage)}
     ELSE IF StartsWithPrefix(next) THEN {Unread}
     ELSE {Read(next.value)}

MatchAndGetArg(o, words, n) ==
  LET w == words[n]
      alone == w.rest = "none"
      Match(arg) == {[arg |-> arg, next |-> n + 1]}
      asSpace == alone /\ "space" \in o.formats
      asEqual == w.rest = "equal" /\ "equal" \in o.formats
  IN IF w.head \notin Range(o.aliases) THEN {}
     ELSE IF o.formats = {} THEN IF alone THEN Match(NoValue) ELSE {}
     ELSE IF asSpace THEN Separate(words, n)
     ELSE IF asEqual THEN Match(w.value)
     ELSE IF "attached" \in o.formats THEN Match(IF w.rest = "equal" THEN Garbage ELSE w.value)
     ELSE {}

-----------------------------------------------------------------------------
(* Unfolding the response file, and the start of the parse.                *)

\* The last response option of the profile is the one that is unfolded.
ResponseOptions == {n \in DOMAIN Options : Options[n].type = "response"}
ResponseOption == Options[Max(ResponseOptions)]

ResponsePlaces(words) ==
  {n \in DOMAIN words :
     ResponseOptions # {} /\ MatchAndGetArg(ResponseOption, words, n) # {}}

\* The words of the file that a match of the response option names: it stands in the
\* last word the match has taken, if the argument was read from there.  Splitting
\* nothing gives one empty word.
ResponseWords(words, match) ==
  LET named == words[match.next - 1]
      content == IF respfile /\ match.arg = named.value THEN WordsOf(named.content) ELSE <<>>
  IN IF content = <<>> THEN << Plain(NoValue) >> ELSE content

Unfolded(words, n, match) ==
  SubSeq(words, 1, n - 1) \o ResponseWords(words, match) \o SubSeq(words, match.next, Len(words))

\* Only the first response option is unfolded.  The reads past the end of the words
\* are those of MatchAndGetArg.
Unfold ==
  /\ pc = "unfold"
  /\ LET words == WordsOf(line)
         places == ResponsePlaces(words)
         n == Min(places)
     IN IF places = {} THEN args' = words /\ pc' = "parse"
        ELSE \E m \in MatchAndGetArg(ResponseOption, words, n) :
               IF m.next > Len(words) + 1 THEN args' = words /\ pc' = "undefined"
               ELSE args' = Unfolded(words, n, m) /\ pc' = "parse"
  /\ UNCHANGED <<line, respfile, it, parsed>>

-----------------------------------------------------------------------------
(* The loop over the words.                                                *)

MoreWords == pc = "parse" /\ it <= Len(args)

\* The first option of the profile that matches, and its outcomes.
Matching == {n \in DOMAIN Options : MatchAndGetArg(Options[n], args, it) # {}}
FirstMatch == Options[Min(Matching)]

\* Mutant of KeptTypes: output options as well.
KeptTypesAndOutput == {"cmd", "scan", "include", "isystem", "other", "output"}

KeptTypes == {"cmd", "scan", "include", "isystem", "other"}

FullPath(arg) == IF arg = NoValue THEN "directory" ELSE arg

\* The file format after a language option with this argument.
Language(o, arg, format) == IF arg \in DOMAIN o.values THEN o.values[arg] ELSE format

\* What a scan option gives the scanner of each language, in words: the name the profile
\* has for that language, with the argument unless there is no scanArgFormat.
ScanOption(o, arg) ==
  [of \in {"c", "cxx"} |->
     LET values == o.scan.values[of]
         scanned == IF arg \in DOMAIN values THEN values[arg] ELSE arg
     IN Written([alias |-> o.scan.name[of], form |-> o.scan.format, content |-> <<>>,
                 value |-> IF o.scan.format = "none" THEN NoValue ELSE scanned])]

\* Mutant of Processed: a language option that comes late also counts for the
\* sources before it.
ProcessedLate(o, arg) ==
  CASE o.type = "cmd" -> [parsed EXCEPT !.kind = o.values[NoValue]]
    [] o.type = "language" ->
         [parsed EXCEPT !.file_format = Language(o, arg, @),
                        !.sources = [n \in DOMAIN @ |-> [@[n] EXCEPT !.format = Language(o, arg, @)]]]
    [] o.type = "output" -> [parsed EXCEPT !.target = FullPath(arg)]
    [] o.type = "scan" -> [parsed EXCEPT !.scan_options = Append(@, ScanOption(o, arg))]
    [] OTHER -> parsed

\* The process methods of the option classes.
Processed(o, arg) ==
  CASE o.type = "cmd" -> [parsed EXCEPT !.kind = o.values[NoValue]]
    [] o.type = "language" -> [parsed EXCEPT !.file_format = Language(o, arg, @)]
    [] o.type = "output" -> [parsed EXCEPT !.target = FullPath(arg)]
    [] o.type = "scan" -> [parsed EXCEPT !.scan_options = Append(@, ScanOption(o, arg))]
    [] OTHER -> parsed

\* The places of the words an option has taken.
Taken(n, next) == [k \in 1 .. next - n |-> n + k - 1]

MatchOption ==
  /\ MoreWords /\ Matching # {}
  /\ \E m \in MatchAndGetArg(FirstMatch, args, it) :
       LET kept == IF FirstMatch.type \in KeptTypes THEN Taken(it, m.next) ELSE <<>> IN
       /\ parsed' = [Processed(FirstMatch, m.arg) EXCEPT !.pp_options = @ \o kept]
       /\ it' = m.next
       /\ pc' = IF m.next > Len(args) + 1 THEN "undefined"
                ELSE IF parsed'.kind = "ignore" THEN "done" ELSE "parse"
  /\ UNCHANGED <<line, respfile, args>>

\* A word that no option matches.
Unmatched(effect) ==
  /\ MoreWords /\ Matching = {}
  /\ parsed' = effect
  /\ it' = it + 1
  /\ UNCHANGED <<line, respfile, args, pc>>

WithOption == [parsed EXCEPT !.pp_options = Append(@, it)]

UnhandledOption == StartsWithPrefix(args[it]) /\ Unmatched(WithOption)

IsTarget ==
  TargetExtensions # {} /\ parsed.target = NoValue /\ Ext(args[it]) \in TargetExtensions

TargetFile ==
  /\ ~StartsWithPrefix(args[it]) /\ IsTarget
  /\ Unmatched([parsed EXCEPT !.target = FullPath(args[it].value)])

SourceFormat(ext) ==
  IF parsed.file_format = "ext" THEN SourceExtensions[ext] ELSE parsed.file_format

\* Mutant of IsSource: one source in a command.
IsSourceOnce == parsed.sources = <<>> /\ Ext(args[it]) \in DOMAIN SourceExtensions

IsSource == Ext(args[it]) \in DOMAIN SourceExtensions

SourceFile ==
  /\ ~StartsWithPrefix(args[it]) /\ ~IsTarget /\ IsSource
  /\ Unmatched([parsed EXCEPT !.sources =
       Append(@, [file |-> FullPath(args[it].value),
                  format |-> SourceFormat(Ext(args[it])), at |-> it])])

UnknownWord ==
  /\ ~StartsWithPrefix(args[it]) /\ ~IsTarget /\ ~IsSource
  /\ Unmatched(IF IsEmpty(args[it]) THEN parsed ELSE WithOption)

Finish ==
  /\ pc = "parse" /\ it = Len(args) + 1
  /\ pc' = "done"
  /\ UNCHANGED <<line, respfile, args, it, parsed>>

-----------------------------------------------------------------------------
(* get_preprocessing_options.                                              *)

LastOption(type) == LET S == {n \in DOMAIN Options : Options[n].type = type} IN
                    IF S = {} THEN <<>> ELSE << Options[Max(S)] >>

\* make_string_option, with the first alias and the first of the formats in the order of the enum.
StringOption(o, arg) ==
  LET form == IF "attached" \in o.formats THEN "attached"
              ELSE IF "space" \in o.formats THEN "space"
              ELSE IF "equal" \in o.formats THEN "equal" ELSE "none"
  IN Written([alias |-> Head(o.aliases), form |-> form,
              value |-> IF form = "none" THEN NoValue ELSE arg, content |-> <<>>])

StringOptions(type, values) ==
  IF LastOption(type) = <<>> THEN <<>>
  ELSE FlattenSeq([n \in DOMAIN values |-> StringOption(Head(LastOption(type)), values[n])])

PreprocessingOptions(target, format) ==
  LET of == IF format = "c" THEN "c" ELSE "cxx" IN
  Added.prepended[of]
  \o StringOptions("isystem", Added.isystem[of])
  \o StringOptions("include", Added.preincluded[of])
  \o [n \in DOMAIN parsed.pp_options |-> args[parsed.pp_options[n]]]
  \o Added.appended[of]
  \o StringOptions("preprocess", << NoValue >>)
  \o StringOptions("output", << target >>)

-----------------------------------------------------------------------------
\* The binary is the first word, which is no option.
\* On a line in which no file has a content it makes no difference whether it is read.
Init ==
  /\ line \in BoundedSeq(Elements, MaxElements)
  /\ respfile \in {read \in BOOLEAN : read \/ \E e \in Range(line) : e.content # <<>>}
  /\ args = <<>> /\ it = 1 /\ pc = "unfold"
  /\ \E binary \in DOMAIN Binaries :
       parsed = [kind |-> DefaultKind, binary |-> binary,
                 file_format |-> IF DefaultKind = "compile" THEN Binaries[binary] ELSE "ext",
                 target |-> NoValue, sources |-> <<>>, pp_options |-> <<>>, scan_options |-> <<>>]

\* The parse has returned; a parse that stops anywhere else is a deadlock of the model.
Returned ==
  /\ pc \in {"done", "undefined"}
  /\ UNCHANGED vars

Next ==
  \/ Unfold \/ MatchOption \/ Finish \/ Returned
  \/ MoreWords /\ (UnhandledOption \/ TargetFile \/ SourceFile \/ UnknownWord)

Spec == Init /\ [][Next]_vars

-----------------------------------------------------------------------------
(* What the line means.                                                    *)

IsOption(e) == e.alias # NoValue
Has(o, e) == e.alias \in Range(o.aliases)

\* The element is written in a form the profile lists for option o.
Fits(o, e) == Has(o, e) /\ (e.form \in o.formats \/ (e.form = "none" /\ o.formats = {}))
Fitting(e) == {n \in DOMAIN Options : Fits(Options[n], e)}

\* A profile may list an alias more than once.
OptionOf(e) == Options[Min(Fitting(e))]

Type(e) == IF ~IsOption(e) THEN "word"
           ELSE IF Fitting(e) = {} THEN "unknown" ELSE OptionOf(e).type

\* The element is written as the profile lists it.  Of an option it does not list
\* the profile expects that it has the prefix and no argument in a word of its own.
Listed(e) ==
  /\ Type(e) = "unknown" =>
       e.form # "space" /\ e.alias \in Dashed /\ \A o \in Range(Options) : ~Has(o, e)
  /\ e.form = "space" => e.value \notin Dashed

\* Every element is, those of the response files included.
Regular == \A e \in Range(line) : Listed(e) /\ \A c \in Range(e.content) : Listed(c)

EmptyWord == [alias |-> NoValue, form |-> "none", value |-> NoValue, content |-> <<>>]

Of(elements, type) == {n \in DOMAIN elements : Type(elements[n]) = type}

\* The elements of the line with those of the first response file in its place: any
\* other response file is passed over with all it holds.
Effective ==
  LET files == Of(line, "response")
      n == Min(files)
      content == IF respfile /\ line[n].content # <<>> THEN line[n].content ELSE <<EmptyWord>>
  IN IF files = {} THEN line
     ELSE SubSeq(line, 1, n - 1) \o content \o SubSeq(line, n + 1, Len(line))

Ignores(e) == Type(e) = "cmd" /\ OptionOf(e).values[NoValue] = "ignore"
Ignored(elements) == \E n \in DOMAIN elements : Ignores(elements[n])

\* The whole line has been parsed.
Parsed(elements) == pc = "done" /\ Regular /\ ~Ignored(elements)

IsFile(e, extensions) == ~IsOption(e) /\ e.value # NoValue /\ Extension[e.value] \in extensions
OpensTarget(e) == Type(e) = "output" \/ IsFile(e, TargetExtensions)
NamesTarget(elements, n) ==
  IsFile(elements[n], TargetExtensions) /\ \A m \in 1 .. n - 1 : ~OpensTarget(elements[m])
NamesSource(elements, n) ==
  IsFile(elements[n], DOMAIN SourceExtensions) /\ ~NamesTarget(elements, n)
Keeps(elements, n) ==
  \/ Type(elements[n]) \in {"cmd", "scan", "include", "isystem", "other", "unknown"}
  \/ /\ Type(elements[n]) = "word" /\ elements[n].value # NoValue
     /\ ~NamesSource(elements, n) /\ ~NamesTarget(elements, n)

\* The members of a set of places in their order, up to a last one.
InOrder(S, last) ==
  LET upTo[n \in 0 .. last] ==
        IF n = 0 THEN <<>> ELSE IF n \in S THEN Append(upTo[n - 1], n) ELSE upTo[n - 1]
  IN upTo[last]

\* The language options before an element that say something, the last one.
Says(e) == Type(e) = "language" /\ e.value \in DOMAIN OptionOf(e).values
LanguageAt(elements, n, default) ==
  LET S == {m \in 1 .. n - 1 : Says(elements[m])}
      last == elements[Max(S)]
  IN IF S = {} THEN default ELSE OptionOf(last).values[last.value]

\* What the first elements of a line, up to a last one, mean.
DefaultFormat == IF DefaultKind = "compile" THEN Binaries[parsed.binary] ELSE "ext"

SourceOf(elements, n) ==
  LET language == LanguageAt(elements, n, DefaultFormat)
  IN << elements[n].value,
        IF language # "ext" THEN language ELSE SourceExtensions[Extension[elements[n].value]] >>

SourcesOf(elements, last) ==
  LET places == InOrder({n \in DOMAIN elements : NamesSource(elements, n)}, last)
  IN [k \in DOMAIN places |-> SourceOf(elements, places[k])]

OptionsOf(elements, last) ==
  LET places == InOrder({n \in DOMAIN elements : Keeps(elements, n)}, last)
  IN WordsOf([k \in DOMAIN places |-> elements[places[k]]])

ScanOptionsOf(elements, last) ==
  LET places == InOrder({n \in DOMAIN elements : Type(elements[n]) = "scan"}, last)
      Scan(e) == ScanOption(OptionOf(e), e.value)
  IN [k \in DOMAIN places |-> Scan(elements[places[k]])]

TargetOf(elements, last) ==
  LET outputs == {n \in 1 .. last : Type(elements[n]) = "output"}
      files == {n \in 1 .. last : NamesTarget(elements, n)}
  IN IF outputs # {} THEN FullPath(elements[Max(outputs)].value)
     ELSE IF files # {} THEN elements[Min(files)].value ELSE NoValue

-----------------------------------------------------------------------------
(* Properties.                                                             *)

FoundSources == [k \in DOMAIN parsed.sources |-> <<parsed.sources[k].file, parsed.sources[k].format>>]
KeptWords == [k \in DOMAIN parsed.pp_options |-> args[parsed.pp_options[k]]]

ParsedUpTo(elements, last) ==
  /\ FoundSources = SourcesOf(elements, last)
  /\ KeptWords = OptionsOf(elements, last)
  /\ parsed.scan_options = ScanOptionsOf(elements, last)
  /\ parsed.target = TargetOf(elements, last)

\* What the parser makes of a command is what the command means: it is ignored if
\* and only if an option asks for it, wherever that stands; the sources are the
\* source files in their order, each in the language of the last language option
\* before it, or of the tool, or by its name, where those of the first response
\* file stand where it is named and those of any other are lost; the preprocessing
\* keeps the options it needs, each with its argument, and none of the others; each scan
\* option reaches the scanner of either language, once, as the profile has it; the
\* target is what the last output option says, else the first file that looks like
\* one.  (parse_work_item, which breaks at tool-profile.cpp:370; Option::match.)
ParsedAsMeant ==
  pc = "done" => LET e == Effective IN
    /\ Regular => (parsed.kind = "ignore" <=> Ignored(e))
    /\ Parsed(e) => ParsedUpTo(e, Len(e))

TakesNext(w) == w.rest = "none" /\ \E o \in Range(Options) :
                                     w.head \in Range(o.aliases) /\ "space" \in o.formats

SourceLostAsArgument ==
  pc = "done" /\ parsed.kind # "ignore" =>
    \A n \in DOMAIN args :
      args[n].head = NoValue /\ ~StartsWithPrefix(args[n])
        /\ Ext(args[n]) \in DOMAIN SourceExtensions \ TargetExtensions =>
        \/ \E k \in DOMAIN parsed.sources : parsed.sources[k].at = n
        \/ n > 1 /\ TakesNext(args[n - 1])

UndefinedAtEnd == pc = "undefined" => args # <<>> /\ TakesNext(Last(args))

\* Of the words of any command, written as it may be, after the unfolding, a source file
\* is lost only as what the profile takes for the argument of the option before it, and
\* the end of the words is passed only for an argument that is missing.  What a second
\* response file holds never becomes a word.  (match_and_get_arg.)
LostAsArgument == SourceLostAsArgument /\ UndefinedAtEnd

OutputAliases ==
  UNION {Range(o.aliases) : o \in {p \in Range(Options) : p.type = "output"}}

\* The preprocessed file goes to the path the engine chose, and to no other: the
\* command has one output option, the last.  (get_preprocessing_options.)
OneOutput ==
  pc = "done" /\ Parsed(Effective) =>
    \A format \in {"c", "cxx"} :
      LET words == PreprocessingOptions("temp", format)
          places == {n \in DOMAIN words : words[n].head \in OutputAliases}
      IN places \in {{Len(words)}, {Len(words) - 1}} /\ Last(words).value = "temp"

-----------------------------------------------------------------------------
(* What the theorems assume of a profile.                                  *)

Share(o, p) == Range(o.aliases) \cap Range(p.aliases) # {}

\* Of two options that share an alias the first does not stand in the way of the other.
Orderly ==
  \A m, n \in DOMAIN Options :
    m < n /\ Share(Options[m], Options[n]) =>
      \/ Options[m].formats = Options[n].formats
      \/ Options[m].formats = {} /\ "space" \notin Options[n].formats

\* There is at most one response option; it has an argument and no namesake.
OneResponseOption ==
  \A m \in ResponseOptions :
    /\ Options[m].formats # {}
    /\ \A n \in DOMAIN Options : n # m => n \notin ResponseOptions /\ ~Share(Options[m], Options[n])

\* A command is not ignored from the start, and an empty word is no file.
Sound ==
  /\ Orderly /\ OneResponseOption
  /\ DefaultKind # "ignore"
  /\ Extension[NoValue] \notin TargetExtensions \cup DOMAIN SourceExtensions

\* There is an output option; it has an argument, and its aliases are used for nothing
\* else and not added.
OutputStands ==
  LET outputs == {n \in DOMAIN Options : Options[n].type = "output"}
      IsSequence(s) == s \in Seq(Range(s))
  IN /\ outputs # {} /\ Options[Max(outputs)].formats # {}
     /\ \A n \in DOMAIN Options \ outputs : Range(Options[n].aliases) \cap OutputAliases = {}
     /\ \A of \in {"c", "cxx"} :
          /\ IsSequence(Added.isystem[of]) /\ IsSequence(Added.preincluded[of])
          /\ \A words \in {Added.prepended[of], Added.appended[of]} :
               IsSequence(words) /\ \A w \in Range(words) : w.head \notin OutputAliases

=============================================================================
