-------------------------- MODULE MCBuildProcessor --------------------------
(* BuildProcessor on small compile databases. *)
EXTENDS BuildProcessorInvariant

CONSTANTS i1, i2, i3, i4, i5, i6

Six == {i1, i2, i3, i4, i5, i6}

C(dir, stem)   == [file |-> File(dir, stem, "c"), lang |-> "c"]
Cxx(dir, stem) == [file |-> File(dir, stem, "c"), lang |-> "cxx"]
Plain(file)    == [file |-> file, lang |-> "none"]
O(dir, stem)   == File(dir, stem, "o")
Lib(dir, stem) == File(dir, stem, "lib")

Other(kind) == [kind |-> kind, target |-> NoTarget, sources |-> <<>>]
Compile(target, sources) == [kind |-> "compile", target |-> target, sources |-> sources]
Assemble1(target, file)  == [kind |-> "assemble", target |-> target, sources |-> <<Plain(file)>>]
Link1(target, files) ==
  [kind |-> "link", target |-> target, sources |-> [n \in DOMAIN files |-> Plain(files[n])]]

Archive1(target, files) == [Link1(target, files) EXCEPT !.kind = "archive"]

AnyName == {Name("", "")} \cup
           {Name(s, e) : s \in {"a", "b", "x", "exe", "all", "test_ld", "DEFAULT_OUTPUT"},
                         e \in {"", "o", "lib"}}
             \cup {Name(i, "tmp") : i \in Six}

\* cc1 and as, a shared object, three sources of one name, an archive and a program.
ToolsCdb ==
  i1 :> Compile(File("w", "a", "s"), <<C("w", "a")>>) @@
  i2 :> Assemble1(O("w", "a"), File("w", "a", "s")) @@
  i3 :> Compile(O("w", "all"), <<C("w", "a"), C("v", "a"), C("x", "a")>>) @@
  i4 :> Archive1(Lib("w", "x"), <<O("w", "a")>>) @@
  i5 :> Link1(File("w", "exe", ""), <<O("w", "a"), O("v", "a"), Lib("w", "x")>>) @@
  i6 :> Compile(O("v", "a"), <<Cxx("v", "a")>>)

\* A command of three sources, one without a target, and an ignored one.
FaultsCdb ==
  i1 :> Compile(NoTarget, <<C("w", "a"), C("w", "b")>>) @@
  i2 :> Compile(O("w", "all"), <<C("w", "b"), C("w", "t"), C("w", "d")>>) @@
  i3 :> Compile(O("w", "e"), <<C("w", "e")>>) @@
  i4 :> Link1(NoTarget, <<O("w", "e")>>) @@
  i5 :> Other("ignore")
FaultyFiles == {File("w", "b", "c"), File("w", "d", "c")}
TransientFiles == {File("w", "t", "c")}

\* Two libraries of one name, each with an object of its own name, and a program.
NamesCdb ==
  i1 :> Archive1(Lib("v", "a"), <<O("v", "a")>>) @@
  i2 :> Archive1(Lib("w", "a"), <<O("w", "a")>>) @@
  i3 :> Compile(O("v", "a"), <<C("v", "a")>>) @@
  i4 :> Compile(O("w", "a"), <<C("w", "a")>>) @@
  i5 :> Link1(File("w", "exe", ""), <<O("v", "a"), O("w", "a"), Lib("v", "a"), Lib("w", "a")>>)

\* Sources compiled into a directory, and two whose target the linker key filters.
DirCdb ==
  i1 :> Compile(File("", "obj", ""), <<C("w", "a"), Cxx("w", "b")>>) @@
  i2 :> Link1(File("w", "exe", ""), <<O("obj", "a"), O("obj", "b")>>) @@
  i3 :> Compile(O("w", "hidden"), <<C("w", "g"), C("w", "h")>>) @@
  i4 :> Other("unknown") @@
  i5 :> [Compile(O("w", "f"), <<C("w", "f")>>) EXCEPT !.kind = "filtered"] @@
  i6 :> Link1(Lib("w", "hidden"), <<O("w", "f")>>)
ObjDirectory == {File("", "obj", "")}

\* A library that two programs use.
SharedCdb ==
  i1 :> Link1(Lib("w", "a"), <<O("w", "a")>>) @@
  i2 :> Link1(File("w", "exe", ""), <<O("w", "b"), Lib("w", "a")>>) @@
  i3 :> Link1(File("w", "x", ""), <<O("w", "b"), Lib("w", "a")>>) @@
  i4 :> Compile(O("w", "a"), <<C("w", "a")>>) @@
  i5 :> Compile(O("w", "b"), <<C("w", "b")>>)

\* A command with sources of two languages, and an archive without a name.
MixedCdb ==
  i1 :> Compile(NoTarget, <<C("w", "a"), Cxx("w", "b")>>) @@
  i2 :> Compile(NoTarget, <<Cxx("w", "b"), C("w", "a")>>) @@
  i3 :> Compile(O("w", "a"), <<C("w", "a")>>) @@
  i4 :> Archive1(NoTarget, <<O("w", "a")>>)

\* A link target that is really called test_ld, and objects nothing links.
TestLdCdb ==
  i1 :> Link1(File("w", "test_ld", ""), <<O("w", "a")>>) @@
  i2 :> Compile(O("w", "a"), <<C("w", "a")>>) @@
  i3 :> Compile(NoTarget, <<C("w", "b")>>) @@
  i4 :> Assemble1(O("w", "d"), File("w", "d", "s")) @@
  i5 :> Other("unknown")

\* The databases are of the kind the theorems are about.
ASSUME DatabaseAssumption ==
  \A db \in {ToolsCdb, FaultsCdb, NamesCdb, DirCdb, MixedCdb, TestLdCdb} :
    AssembledOnce(db) /\ FreshPaths(db) /\ MadeOnce(db) /\ LinkedOnce(db) /\ ObjectsBeside(db)

None == {}
EveryCdb == {ToolsCdb, FaultsCdb, NamesCdb, DirCdb, MixedCdb, TestLdCdb}
Shared == {SharedCdb}
Mixed == {MixedCdb}
NoLinkOption == {FALSE}

=============================================================================
