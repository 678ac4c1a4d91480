---------------------------- MODULE MCParseWorkItem ----------------------------
(* ParseWorkItem on a profile like gcc's, in which -E and --help also stand     *)
(* twice, with a target extension like ar's and the response file in two words, *)
(* as IAR's tools have it.                                                      *)
EXTENDS ParseWorkItem

None == [v \in {} |-> "none"]
Kind(kind) == [v \in {NoValue} |-> kind]
Opt(aliases, type, formats, values) ==
  [aliases |-> aliases, type |-> type, formats |-> formats, values |-> values, scan |-> "none"]

ScanOpt(aliases, formats, scan) ==
  [aliases |-> aliases, type |-> "scan", formats |-> formats, values |-> None, scan |-> scan]

\* The standard, of which the scanner for C++ knows another name and another version; of
\* -pthread it is only said that it was there.
StdScan ==
  [name |-> [of \in {"c", "cxx"} |-> IF of = "c" THEN "-std" ELSE "--c++"],
   values |-> [of \in {"c", "cxx"} |-> IF of = "c" THEN [v \in {"c9x"} |-> "c99"] ELSE None],
   format |-> "space"]
ThreadScan ==
  [name |-> [of \in {"c", "cxx"} |-> "-pthread"], values |-> [of \in {"c", "cxx"} |-> None],
   format |-> "none"]

GccOptions ==
  << Opt(<<"-x">>, "language", {"space"},
         [v \in {"c", "c++", "none"} |-> CASE v = "c" -> "c" [] v = "c++" -> "cxx" [] OTHER -> "ext"]),
     Opt(<<"-c">>, "cmd", {}, Kind("compile")),
     Opt(<<"-o", "--output">>, "output", {"space"}, None),
     Opt(<<"-E", "--help">>, "cmd", {}, Kind("ignore")),
     Opt(<<"--help">>, "cmd", {"attached"}, Kind("ignore")),
     Opt(<<"-E">>, "preprocess", {}, None),
     ScanOpt(<<"-std">>, {"equal"}, StdScan),
     ScanOpt(<<"-pthread">>, {}, ThreadScan),
     Opt(<<"-D">>, "other", {"attached", "space"}, None),
     Opt(<<"-MMD">>, "delete", {"space"}, None),
     Opt(<<"-include">>, "include", {"space"}, None),
     Opt(<<"@">>, "response", {"attached", "space"}, None) >>

DashedWords ==
  {"-x", "-c", "-o", "--output", "--help", "-E", "-std", "-D", "-MMD", "-include", "-q", "-v",
   "-pthread"}

ExtensionOf ==
  [v \in {NoValue, "c", "c++", "none", "c9x", "M", "-v", "a.c", "b.cc", "t.a"} |->
     CASE v = "a.c" -> ".c" [] v = "b.cc" -> ".cc" [] v = "t.a" -> ".a" [] OTHER -> NoValue]

Sources == [e \in {".c", ".cc"} |-> IF e = ".c" THEN "c" ELSE "cxx"]
Targets == {".a"}

Tools == [b \in {"gcc", "g++"} |-> IF b = "gcc" THEN "ext" ELSE "cxx"]

E(alias, form, value) == [alias |-> alias, form |-> form, value |-> value, content |-> <<>>]
File(value) == E(NoValue, "none", value)
Response(form, content) == [E("@", form, "M") EXCEPT !.content = content]

\* A language option comes in two forms, one of them not listed; -MMD and -o come
\* without the argument that the profile says they have.
SomeElements ==
  { File("a.c"), File("b.cc"), File("t.a"), File(NoValue),
    E("-x", "space", "c++"), E("-x", "space", "none"), E("-x", "attached", "c++"),
    E("-c", "none", NoValue), E("-o", "space", "M"), E("--output", "space", "b.cc"),
    E("-o", "none", NoValue), E("-E", "none", NoValue), E("--help", "attached", "M"), 
    E("-std", "equal", "c9x"), E("-pthread", "none", NoValue),
    E("-D", "attached", "M"), E("-D", "space", "M"), E("-D", "space", "-v"),
    E("-MMD", "none", NoValue), E("-include", "space", "a.c"), E("-q", "none", NoValue),
    Response("attached", << E("-x", "space", "c++"), File("a.c") >>),
    Response("space", << File("b.cc"), Response("attached", << E("-x", "space", "c++"), File("a.c") >>) >>) }

Nothing == [of \in {"c", "cxx"} |-> <<>>]

SomeAdded ==
  [prepended |-> Nothing, isystem |-> Nothing,
   preincluded |-> [of \in {"c", "cxx"} |-> << "M" >>],
   appended |-> [of \in {"c", "cxx"} |->
                   << Word("-x", "none", NoValue), Plain(IF of = "c" THEN "c" ELSE "c++") >>]]

\* The profile is one the theorems are about.
ASSUME GccAssumption == Sound /\ OutputStands

=============================================================================
