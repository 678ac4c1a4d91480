----------------------------- MODULE FileNames ------------------------------
(***************************************************************************)
(* File names as boost::filesystem takes them apart: the extension of a    *)
(* name begins at its last dot, and its stem is what is before.  A name    *)
(* without a dot is its own stem.  Names are in lower case, which is what  *)
(* the program makes of them where the file system has no case.            *)
(***************************************************************************)
CONSTANTS
  Stem,      \* of each file name: "gcc-4" of "gcc-4.8", "gcc" of "gcc.exe"
  Extension  \* of each file name, "" if it has none

ASSUME FileNameAssumption ==
  /\ DOMAIN Extension = DOMAIN Stem
  /\ \A name \in DOMAIN Stem : Extension[name] = "" => Stem[name] = name
  /\ \A name, other \in DOMAIN Stem :
       Stem[name] = Stem[other] /\ Extension[name] = Extension[other] => name = other

\* boost::filesystem::change_extension(name, extension) of another name.
IsChanged(changed, name, extension) ==
  IF extension = "" THEN changed = Stem[name]
  ELSE Stem[changed] = Stem[name] /\ Extension[changed] = extension

=============================================================================
