---------------------------- MODULE BuildResults ----------------------------
(***************************************************************************)
(* What the work item processors hand to the build processor: the three    *)
(* mutex-protected lists of build-processor.hpp and the preprocessed files *)
(* the compile results refer to, with the file names they talk about.      *)
(*                                                                         *)
(* A file name is a stem, an extension and the numbers appended to it to   *)
(* tell it from others of the same name ("a.lib.1" is <<1>> on a, lib).    *)
(***************************************************************************)
EXTENDS Integers, Sequences, FiniteSets, SequencesExt

CONSTANTS
  NoOptions  \* no scan options

VARIABLES
  cc_results,  \* compile results, in the order of their arrival
  as_results,  \* assembler results
  ld_results,  \* link and archive results, and pseudo links
  temps        \* preprocessed files in the output directory

resultVars == <<cc_results, as_results, ld_results, temps>>

Name(stem, ext) == [stem |-> stem, ext |-> ext, dups |-> <<>>]
File(dir, stem, ext) == [dir |-> dir, name |-> Name(stem, ext)]
Numbered(name, n) == [name EXCEPT !.dups = Append(@, n)]
Basename(path) == [path EXCEPT !.dir = ""]

NoTarget == File("", "", "")

\* Name clashes are settled by a number at the end of the name.
IsPlain(name) == name.dups = <<>>

Languages == {"c", "cxx"}

=============================================================================
