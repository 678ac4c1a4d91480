--------------------------- MODULE WorkItemsProofs ---------------------------
(* Machine-checked proofs about the parallel phase, for every compile database. *)
EXTENDS BuildProcessorInvariant, ElementLemmas

-----------------------------------------------------------------------------
\* What Append makes of a list.
LEMMA AppendToList ==
  ASSUME NEW s, IsList(s), NEW e
  PROVE  /\ Len(s) \in Nat /\ DOMAIN s = 1 .. Len(s)
         /\ IsList(Append(s, e)) /\ ToSet(Append(s, e)) = ToSet(s) \cup {e}
         /\ Len(Append(s, e)) = Len(s) + 1 /\ DOMAIN Append(s, e) = 1 .. Len(s) + 1
         /\ \A n \in 1 .. Len(s) : Append(s, e)[n] = s[n]
         /\ Append(s, e)[Len(s) + 1] = e
         /\ \A n \in DOMAIN Append(s, e) :
              \/ n \in DOMAIN s /\ Append(s, e)[n] = s[n]
              \/ n = Len(s) + 1 /\ Append(s, e)[n] = e
<1> DEFINE S == ToSet(s) \cup {e}
<1>1. s \in Seq(S)
  BY SeqMonotonic DEF IsList
<1>2. ToSet(s) = Range(s) /\ ToSet(Append(s, e)) = Range(Append(s, e))
  BY DEF ToSet, Range
<1>3. Range(Append(s, e)) = Range(s) \cup {e} /\ Append(s, e) \in Seq(S)
  BY <1>1, AppendElements
<1>4. IsList(Append(s, e))
  BY <1>2, <1>3 DEF IsList
<1>5. /\ Len(s) \in Nat /\ DOMAIN s = 1 .. Len(s)
      /\ Len(Append(s, e)) = Len(s) + 1 /\ DOMAIN Append(s, e) = 1 .. Len(s) + 1
  BY <1>1, <1>3, LenProperties, AppendProperties
<1>6. /\ \A n \in 1 .. Len(s) : Append(s, e)[n] = s[n]
      /\ Append(s, e)[Len(s) + 1] = e
  BY <1>1, AppendProperties
<1> QED  BY <1>2, <1>3, <1>4, <1>5, <1>6

\* The empty list.
LEMMA EmptyList == IsList(<<>>) /\ ToSet(<<>>) = {} /\ DOMAIN <<>> = {} /\ Len(<<>>) = 0
BY EmptySeq DEF IsList, ToSet

\* Replacing an element keeps a list a list.
LEMMA ExceptList ==
  ASSUME NEW s, IsList(s), NEW i \in DOMAIN s, NEW e
  PROVE  IsList([s EXCEPT ![i] = e]) /\ Len([s EXCEPT ![i] = e]) = Len(s)
<1> DEFINE t == [s EXCEPT ![i] = e]  S == ToSet(s) \cup {e}
<1>1. s \in Seq(S) /\ i \in 1 .. Len(s)
  BY SeqMonotonic, LenProperties DEF IsList
<1>2. t \in Seq(S) /\ Len(t) = Len(s)
  BY <1>1, ExceptSeq
<1>3. t \in Seq(Range(t))
  <2> HIDE DEF t
  <2> QED  BY <1>2, SeqOfRange
<1> QED  BY <1>2, <1>3 DEF IsList, ToSet, Range

\* The elements of a list are the values at its indexes.
LEMMA ListElements ==
  ASSUME NEW s, IsList(s)
  PROVE  /\ Len(s) \in Nat /\ DOMAIN s = 1 .. Len(s)
         /\ \A n \in DOMAIN s : s[n] \in ToSet(s)
BY LenProperties DEF IsList, ToSet

\* The pool has room for one item at least.
LEMMA SomeThread == Parallelism \in Nat \ {0}
BY WorkItemsAssumption

\* Filling or leaving the pool by one item at most.
LEMMA BusyBound ==
  ASSUME NEW i, IsFiniteSet(Busy), Parallelism \in Nat,
         \/ Busy' \subseteq Busy /\ Cardinality(Busy) <= Parallelism
         \/ Busy' \subseteq Busy \cup {i} /\ Cardinality(Busy) < Parallelism
  PROVE  IsFiniteSet(Busy') /\ Cardinality(Busy') <= Parallelism
<1> DEFINE B == Busy  C == Busy'
<1>1. IsFiniteSet(B \cup {i}) /\ Cardinality(B \cup {i}) <= Cardinality(B) + 1
      /\ Cardinality(B) \in Nat
  BY FS_AddElement, FS_CardinalityType
<1>2. CASE C \subseteq B /\ Cardinality(B) <= Parallelism
  <2> HIDE DEF B, C
  <2>1. IsFiniteSet(C) /\ Cardinality(C) <= Cardinality(B)  BY <1>2, FS_Subset DEF B
  <2>2. Cardinality(C) \in Nat  BY <2>1, FS_CardinalityType
  <2> QED  BY <2>1, <2>2, <1>1, <1>2 DEF C
<1>3. CASE C \subseteq B \cup {i} /\ Cardinality(B) < Parallelism
  <2>0. IsFiniteSet(C) /\ Cardinality(C) <= Cardinality(B \cup {i})
    <3> HIDE DEF B, C
    <3> QED  BY <1>1, <1>3, FS_Subset
  <2>2. Cardinality(C) \in Nat /\ Cardinality(B \cup {i}) \in Nat
    BY <1>1, <2>0, FS_CardinalityType
  <2> QED  BY <2>0, <2>2, <1>1, <1>3
<1> QED  BY <1>2, <1>3

-----------------------------------------------------------------------------
\* The initial state satisfies every part of the invariant.
LEMMA InitInvariant == Init => IInv
<1> SUFFICES ASSUME Init PROVE IInv
  OBVIOUS
<1> USE EmptyList DEF Init, InitItems, InitResults, InitOutput
<1>1. Busy = {} /\ IsFiniteSet(Busy) /\ Cardinality(Busy) = 0
  BY FS_EmptySet DEF Busy
<1>2. TypeOK
  <2>1. /\ state \in [Items -> {"waiting", "running", "preprocessing", "over"}]
        /\ source \in [Items -> Nat \ {0}] /\ options \in [Items -> SUBSET Languages]
    BY DEF Items
  <2>2. /\ next_result \in Nat \ {0} /\ to_copy \subseteq DOMAIN ld_infos
        /\ \A s \in DOMAIN link_targets : link_targets[s] \subseteq DOMAIN ld_infos
    OBVIOUS
  <2> QED  BY <1>1, <2>1, <2>2, SomeThread DEF TypeOK
<1>3. ListTypes
  BY <1>1, FS_EmptySet, OutputAssumption DEF ListTypes, Items
<1>4. ItemsInv
  <2>1. ItemSteps /\ UnitsMade /\ TargetsKept /\ SourcesBridged /\ SourcesPlaced
    BY DEF ItemSteps, UnitsMade, TargetsKept, SourcesBridged, SourcesPlaced, Items
  <2>2. PhasesApart /\ TempsOwned
    BY DEF PhasesApart, OutputUntouched, TempsOwned
  <2> QED  BY <2>1, <2>2 DEF ItemsInv
<1>5. LinksInv
  <2>1. InfosNumbered /\ InfosRight
    BY DEF InfosNumbered, InfosRight
  <2>1a. DirsCounted
    BY DEF DirsCounted
  <2>2. ArchivePathsDistinct
    BY DEF ArchivePathsDistinct, FilesDistinct, DirsDistinct
  <2> QED  BY <2>1, <2>1a, <2>2 DEF LinksInv
<1>6. CompilesInv /\ PropertiesInv
  BY DEF CompilesInv, CopyRight, UnitsHandled, OptionsHandled, AllConsumed, PropertiesInv
<1> QED  BY <1>2, <1>3, <1>4, <1>5, <1>6 DEF IInv

-----------------------------------------------------------------------------
(* The steps of an item.                                                   *)

\* A step of an item is taken from an invariant state and leaves the rest alone.
ItemStep(i) ==
  /\ IInv /\ phase = "work" /\ i \in Items /\ Process(i)
  /\ UNCHANGED <<processVars, outputVars>>

\* What an item's step can do to its state and its source.
LEMMA ItemMoves ==
  ASSUME NEW i \in Items, ItemStep(i)
  PROVE  /\ cdb' = cdb /\ Items' = Items /\ phase' = phase /\ stage' = stage
         /\ state \in [Items -> {"waiting", "running", "preprocessing", "over"}]
         /\ source \in [Items -> Nat \ {0}]
         /\ state[i] # "over"
         /\ \E to \in {"running", "preprocessing", "over"} : state' = [state EXCEPT ![i] = to]
         /\ source' \in {source, [source EXCEPT ![i] = @ + 1]}
<1> USE DEF ItemStep, IInv, TypeOK, processVars, inputVars, outputVars, resultVars, itemVars
<1>1. cdb' = cdb /\ Items' = Items /\ phase' = phase /\ stage' = stage
  BY DEF Items
<1>2. CASE Begin(i)  BY <1>1, <1>2 DEF Begin
<1>3. CASE Assemble(i)  BY <1>1, <1>3 DEF Assemble, Running
<1>4. CASE Link(i)  BY <1>1, <1>4 DEF Link, Running
<1>5. CASE SkipMissing(i)
  <2>1. state' = [state EXCEPT ![i] = "running"]
    BY <1>5 DEF SkipMissing, Running
  <2> QED  BY <1>1, <1>5, <2>1 DEF SkipMissing, Running
<1>6. CASE Preprocess(i)  BY <1>1, <1>6 DEF Preprocess, Running
<1>7. CASE PreprocessFails(i)  BY <1>1, <1>7 DEF PreprocessFails
<1>8. CASE PreprocessSucceeds(i)  BY <1>1, <1>8 DEF PreprocessSucceeds
<1>9. CASE EndCompile(i)  BY <1>1, <1>9 DEF EndCompile, Running
<1> QED  BY <1>2, <1>3, <1>4, <1>5, <1>6, <1>7, <1>8, <1>9 DEF Process

\* An item's step keeps the types.
LEMMA ItemTypeOK == ASSUME NEW i \in Items, ItemStep(i) PROVE TypeOK'
<1> USE SomeThread DEF ItemStep, IInv, processVars, inputVars, outputVars
<1>1. /\ state' \in [Items' -> {"waiting", "running", "preprocessing", "over"}]
      /\ source' \in [Items' -> Nat \ {0}]
  BY ItemMoves
<1>2. options' \in [Items' -> SUBSET Languages]
  <2>1. options' \in {options, [options EXCEPT ![i] = @ \cap {Current(i).lang}]}
    BY DEF Process, Begin, Assemble, Link, SkipMissing, Preprocess, PreprocessFails,
           PreprocessSucceeds, EndCompile
  <2> QED  BY <2>1, ItemMoves DEF TypeOK
<1>3. Cardinality(Busy') <= Parallelism
  <2>1. CASE Begin(i)
    <3>1. Busy' \subseteq Busy \cup {i} /\ Cardinality(Busy) < Parallelism
      BY <2>1, ItemMoves DEF Busy, Begin
    <3> QED  BY <3>1, BusyBound DEF ListTypes
  <2>2. CASE ~Begin(i)
    <3>1. state[i] \in {"running", "preprocessing"}
      BY <2>2 DEF Process, Assemble, Link, SkipMissing, Preprocess, PreprocessFails,
                  PreprocessSucceeds, EndCompile, Running
    <3>2. Busy' \subseteq Busy
      BY <3>1, ItemMoves DEF Busy
    <3> QED  BY <3>2, BusyBound DEF ListTypes, TypeOK
  <2> QED  BY <2>1, <2>2
<1>4. /\ stage' = stage /\ next_result' = next_result /\ to_copy' = to_copy /\ ec' = ec
      /\ ld_infos' = ld_infos /\ link_targets' = link_targets /\ phase' = phase
  OBVIOUS
<1> QED  BY <1>1, <1>2, <1>3, <1>4 DEF TypeOK

\* The lists stay lists, and the pool finite.
LEMMA ItemListTypes == ASSUME NEW i \in Items, ItemStep(i) PROVE ListTypes'
<1> USE DEF ItemStep, IInv, ListTypes, processVars, inputVars, outputVars, resultVars, itemVars
<1>1. IsList(cc_results')
  <2>1. cc_results' \in {cc_results, Append(cc_results, CCResult(i))}
    BY DEF Process, Begin, Assemble, Link, SkipMissing, Preprocess, PreprocessFails,
           PreprocessSucceeds, EndCompile
  <2>2. IsList(Append(cc_results, CCResult(i)))  BY AppendToList
  <2> QED  BY <2>1, <2>2
<1>2. IsList(as_results')
  <2>1. CASE Assemble(i)
    <3> DEFINE r == [target |-> Command(i).target, source |-> Command(i).sources[1].file]
    <3>1. as_results' = Append(as_results, r)  BY <2>1 DEF Assemble
    <3>2. IsList(Append(as_results, r))  BY AppendToList
    <3> QED  BY <3>1, <3>2
  <2>2. CASE ~Assemble(i)
    <3>1. as_results' = as_results
      BY <2>2 DEF Process, Begin, Link, SkipMissing, Preprocess, PreprocessFails,
                  PreprocessSucceeds, EndCompile
    <3> QED  BY <3>1
  <2> QED  BY <2>1, <2>2
<1>3. IsList(ld_results')
  <2>1. ASSUME NEW target, NEW sources, HandleLink(target, sources) PROVE IsList(ld_results')
    <3> DEFINE r == [target |-> Basename(target), sources |-> sources]
    <3>1. ld_results' \in {ld_results, Append(ld_results, r)}  BY <2>1 DEF HandleLink
    <3>2. IsList(Append(ld_results, r))  BY AppendToList
    <3> QED  BY <3>1, <3>2
  <2>2. CASE UNCHANGED ld_results
    BY <2>2
  <2> QED
    BY <2>1, <2>2 DEF Process, Begin, Assemble, Link, SkipMissing, Preprocess, PreprocessFails,
                      PreprocessSucceeds, EndCompile
<1>4. /\ bridged' = [j \in Items' |-> bridged'[j]]
      /\ \A j \in Items' : IsList(bridged'[j])
  <2>1. bridged' \in {bridged, [bridged EXCEPT ![i] = Append(@, SourceTarget(i))]}
    BY DEF Process, Begin, Assemble, Link, SkipMissing, Preprocess, PreprocessFails,
           PreprocessSucceeds, EndCompile
  <2>2. Items' = Items  BY ItemMoves
  <2>3. IsList(Append(bridged[i], SourceTarget(i)))  BY AppendToList
  <2> QED  BY <2>1, <2>2, <2>3
<1>5. IsFiniteSet(Busy')
  <2>1. Busy' \subseteq Busy \cup {i}
    BY ItemMoves DEF Busy
  <2>2. IsFiniteSet(Busy \cup {i})  BY FS_AddElement
  <2> QED  BY <2>1, <2>2, FS_Subset
<1>6. /\ ld_infos' = ld_infos /\ properties' = properties /\ pp_files' = pp_files
      /\ need_process_link_using_compiler' = need_process_link_using_compiler
  OBVIOUS
<1> QED  BY <1>1, <1>2, <1>3, <1>4, <1>5, <1>6 DEF IsList

\* An item's step keeps what is known of where the items are.
LEMMA ItemItemSteps == ASSUME NEW i \in Items, ItemStep(i) PROVE ItemSteps'
<1> USE DEF ItemStep, IInv, ItemsInv, ItemSteps, Skipped, Command, HasMore
<1>1. \A j \in Items \ {i} : state'[j] = state[j] /\ source'[j] = source[j]
  BY ItemMoves
<1>2. cdb' = cdb /\ Items' = Items /\ i \in DOMAIN state /\ i \in DOMAIN source
  BY ItemMoves
<1>3. /\ state'[i] # "waiting"
      /\ state'[i] \in {"running", "preprocessing"} => ~Skipped(i)
      /\ state'[i] = "preprocessing" => Command(i).kind = "compile" /\ source'[i] <= Len(Command(i).sources)
  <2>1. CASE Begin(i)
    <3>1. state'[i] = IF Skipped(i) THEN "over" ELSE "running"
      BY <2>1, <1>2 DEF Begin
    <3> QED  BY <3>1
  <2>2. CASE Assemble(i) \/ Link(i) \/ PreprocessFails(i) \/ EndCompile(i)
    BY <2>2, <1>2 DEF Assemble, Link, PreprocessFails, EndCompile
  <2>3. CASE SkipMissing(i)
    <3>1. state'[i] = "running" /\ state[i] = "running"
      BY <2>3, <1>2 DEF SkipMissing, Running
    <3> QED  BY <3>1
  <2>4. CASE Preprocess(i)
    <3>1. /\ state[i] = "running" /\ state'[i] = "preprocessing" /\ source'[i] = source[i]
          /\ Command(i).kind = "compile" /\ HasMore(i)
      BY <2>4, <1>2 DEF Preprocess, Running, HandledAs
    <3> QED  BY <3>1
  <2>5. CASE PreprocessSucceeds(i)
    <3>1. state'[i] = "running" /\ state[i] = "preprocessing"
      BY <2>5, <1>2 DEF PreprocessSucceeds
    <3> QED  BY <3>1
  <2> QED  BY <2>1, <2>2, <2>3, <2>4, <2>5 DEF Process
<1> QED  BY <1>1, <1>2, <1>3

\* The compile results only grow, by one of the source that is preprocessed.
LEMMA ItemCompiles ==
  ASSUME NEW i \in Items, ItemStep(i)
  PROVE  \/ cc_results' = cc_results
         \/ /\ cc_results' = Append(cc_results, CCResult(i)) /\ PreprocessSucceeds(i)
            /\ DOMAIN cc_results = 1 .. Len(cc_results) /\ Len(cc_results) \in Nat
            /\ DOMAIN cc_results' = 1 .. Len(cc_results) + 1
            /\ \A n \in DOMAIN cc_results : cc_results'[n] = cc_results[n]
            /\ cc_results'[Len(cc_results) + 1] = CCResult(i)
<1>1. cc_results' = cc_results \/ PreprocessSucceeds(i)
  BY DEF ItemStep, resultVars, Process, Begin, Assemble, Link, SkipMissing, Preprocess, PreprocessFails,
         EndCompile
<1>2. CASE PreprocessSucceeds(i)
  <2> DEFINE r == CCResult(i)
  <2>1. cc_results' = Append(cc_results, r)
    BY <1>2 DEF PreprocessSucceeds
  <2>2. IsList(cc_results)
    BY DEF ItemStep, IInv, ListTypes
  <2> HIDE DEF r
  <2>3. /\ DOMAIN cc_results = 1 .. Len(cc_results) /\ Len(cc_results) \in Nat
        /\ DOMAIN Append(cc_results, r) = 1 .. Len(cc_results) + 1
        /\ \A n \in 1 .. Len(cc_results) : Append(cc_results, r)[n] = cc_results[n]
        /\ Append(cc_results, r)[Len(cc_results) + 1] = r
    BY <2>2, AppendToList
  <2> QED  BY <1>2, <2>1, <2>3 DEF r
<1> QED  BY <1>1, <1>2

\* The link results only grow.
LEMMA ItemLinks ==
  ASSUME NEW i \in Items, ItemStep(i)
  PROVE  /\ DOMAIN ld_results \subseteq DOMAIN ld_results'
         /\ \A m \in DOMAIN ld_results : ld_results'[m] = ld_results[m]
<1>1. IsList(ld_results)
  BY DEF ItemStep, IInv, ListTypes
<1>2. ASSUME NEW target, NEW sources, HandleLink(target, sources)
      PROVE  /\ DOMAIN ld_results \subseteq DOMAIN ld_results'
             /\ \A m \in DOMAIN ld_results : ld_results'[m] = ld_results[m]
  <2> DEFINE r == [target |-> Basename(target), sources |-> sources]
  <2>1. ld_results' \in {ld_results, Append(ld_results, r)}  BY <1>2 DEF HandleLink
  <2> HIDE DEF r
  <2>2. /\ DOMAIN ld_results = 1 .. Len(ld_results) /\ Len(ld_results) \in Nat
        /\ DOMAIN Append(ld_results, r) = 1 .. Len(ld_results) + 1
        /\ \A m \in 1 .. Len(ld_results) : Append(ld_results, r)[m] = ld_results[m]
    BY <1>1, AppendToList
  <2> QED  BY <2>1, <2>2
<1>3. CASE UNCHANGED ld_results
  BY <1>3
<1> QED
  BY <1>2, <1>3 DEF ItemStep, resultVars, Process, Begin, Assemble, Link, SkipMissing, Preprocess,
                    PreprocessFails, PreprocessSucceeds, EndCompile

\* A new result is made of the source that is left behind with it.
LEMMA ItemUnitsMade == ASSUME NEW i \in Items, ItemStep(i) PROVE UnitsMade'
<1> USE DEF ItemStep, IInv, ItemsInv, UnitsMade, Command
<1>1. cdb' = cdb /\ Items' = Items /\ \A j \in Items : source[j] \in Nat /\ source'[j] >= source[j]
      /\ source'[j] \in Nat
  BY ItemMoves
<1>2. \A n \in DOMAIN cc_results : \E j \in Items' : \E k \in 1 .. source'[j] - 1 :
         cdb'[j].kind = "compile" /\ cc_results[n].file = <<j, k>>
  <2> TAKE n \in DOMAIN cc_results
  <2>1. PICK j \in Items : \E k \in 1 .. source[j] - 1 :
          Command(j).kind = "compile" /\ cc_results[n].file = <<j, k>>
    OBVIOUS
  <2>1a. PICK k \in 1 .. source[j] - 1 :
          Command(j).kind = "compile" /\ cc_results[n].file = <<j, k>>
    BY <2>1
  <2>2. k \in 1 .. source'[j] - 1  BY <1>1
  <2> QED  BY <1>1, <2>1a, <2>2
<1>3. CASE cc_results' = cc_results
  BY <1>2, <1>3
<1>4. CASE PreprocessSucceeds(i) /\ cc_results' = Append(cc_results, CCResult(i))
  <2>1. CCResult(i).file = <<i, source[i]>> /\ cdb'[i].kind = "compile"
    BY <1>1, <1>4 DEF CCResult, ItemSteps, PreprocessSucceeds
  <2>2. source[i] \in 1 .. source'[i] - 1
    <3>1. source' = [source EXCEPT ![i] = @ + 1]  BY <1>4 DEF PreprocessSucceeds
    <3>2. source \in [Items -> Nat \ {0}]  BY ItemMoves
    <3> HIDE DEF IInv, ItemStep
    <3> QED  BY <3>1, <3>2
  <2> QED  BY <1>1, <1>2, <1>4, <2>1, <2>2, ItemCompiles
<1> QED  BY <1>3, <1>4, ItemCompiles

\* A made-up target is kept when its result is added.
LEMMA ItemTargetsKept == ASSUME NEW i \in Items, ItemStep(i) PROVE TargetsKept'
<1> USE DEF Command, MultiSource, IntoDir
<1>1. cdb' = cdb /\ Items' = Items
  BY ItemMoves
<1>2. TargetsKept
  BY DEF ItemStep, IInv, ItemsInv
<1>3. \A j \in Items : ToSet(bridged[j]) \subseteq ToSet(bridged'[j])
  <2>1. bridged' \in {bridged, [bridged EXCEPT ![i] = Append(@, SourceTarget(i))]}
    BY DEF ItemStep, itemVars, Process, Begin, Assemble, Link, SkipMissing, Preprocess, PreprocessFails,
           PreprocessSucceeds, EndCompile
  <2>2. bridged = [j \in Items |-> bridged[j]] /\ IsList(bridged[i])
    BY DEF ItemStep, IInv, ListTypes
  <2>3. ToSet(bridged[i]) \subseteq ToSet(Append(bridged[i], SourceTarget(i)))
    BY <2>2, AppendToList
  <2> QED  BY <2>1, <2>2, <2>3
<1>4. CASE cc_results' = cc_results
  BY <1>1, <1>2, <1>3, <1>4 DEF TargetsKept
<1>5. CASE PreprocessSucceeds(i) /\ cc_results' = Append(cc_results, CCResult(i))
  <2>1. CCResult(i).file[1] = i /\ CCResult(i).target = SourceTarget(i)
    BY DEF CCResult
  <2>2. MultiSource(i) /\ ~IntoDir(i) => SourceTarget(i) \in ToSet(bridged'[i])
    <3> SUFFICES ASSUME MultiSource(i) /\ ~IntoDir(i) PROVE SourceTarget(i) \in ToSet(bridged'[i])
      OBVIOUS
    <3>1. bridged' = [bridged EXCEPT ![i] = Append(@, SourceTarget(i))]
      BY <1>5 DEF PreprocessSucceeds
    <3>2. bridged = [j \in Items |-> bridged[j]] /\ IsList(bridged[i])
      BY DEF ItemStep, IInv, ListTypes
    <3>3. SourceTarget(i) \in ToSet(Append(bridged[i], SourceTarget(i)))
      BY <3>2, AppendToList
    <3>4. bridged'[i] = Append(bridged[i], SourceTarget(i))
      BY <3>1, <3>2
    <3> QED  BY <3>3, <3>4
  <2>3. ASSUME NEW j \in Items, MultiSource(j), ~IntoDir(j), NEW n \in DOMAIN cc_results',
               cc_results'[n].file[1] = j
        PROVE  cc_results'[n].target \in ToSet(bridged'[j])
    <3>1. CASE n \in DOMAIN cc_results
      BY <1>2, <1>3, <1>5, <2>3, <3>1, ItemCompiles DEF TargetsKept
    <3>2. CASE n = Len(cc_results) + 1 /\ cc_results'[n] = CCResult(i)
      BY <2>1, <2>2, <2>3, <3>2
    <3> QED  BY <1>5, <3>1, <3>2, ItemCompiles
  <2> QED  BY <1>1, <2>3 DEF TargetsKept
<1> QED  BY <1>4, <1>5, ItemCompiles

\* The end of a command bridges what it kept; no other step is taken for its end.
LEMMA ItemSourcesBridged == ASSUME NEW i \in Items, ItemStep(i) PROVE SourcesBridged'
<1>1. cdb' = cdb /\ Items' = Items
  BY ItemMoves
<1>2. SUFFICES ASSUME NEW j \in Items, state'[j] = "over", ~GaveUp(j)', ~IntoDir(j),
                      CompileTarget(j).name \in Linkable,
                      NEW n \in DOMAIN cc_results', cc_results'[n].file[1] = j, MultiSource(j)
               PROVE  \E m \in DOMAIN ld_results' :
                        /\ ld_results'[m].target = Basename(CompileTarget(j))
                        /\ cc_results'[n].target \in ToSet(ld_results'[m].sources)
  BY <1>1 DEF SourcesBridged, IntoDir, CompileTarget, MultiSource, Command
<1>3. CASE j # i
  <2>1. state[j] = "over" /\ ~GaveUp(j)
    BY <1>1, <1>2, <1>3, ItemMoves DEF GaveUp, Command, Skipped, HasMore
  <2>2. n \in DOMAIN cc_results /\ cc_results'[n] = cc_results[n]
    <3>1. CCResult(i).file[1] = i  BY DEF CCResult
    <3> QED  BY <1>2, <1>3, <3>1, ItemCompiles
  <2>3. PICK m \in DOMAIN ld_results : /\ ld_results[m].target = Basename(CompileTarget(j))
                                       /\ cc_results[n].target \in ToSet(ld_results[m].sources)
    BY <1>2, <2>1, <2>2 DEF ItemStep, IInv, ItemsInv, SourcesBridged
  <2> QED  BY <2>2, <2>3, ItemLinks
<1>4. CASE j = i
  <2>1. UNCHANGED cc_results
    BY <1>2, <1>4, ItemCompiles, ItemMoves DEF PreprocessSucceeds
  <2>2. /\ \E k \in 1 .. source[i] - 1 : TRUE
        /\ Command(i).kind = "compile"
    BY <1>2, <1>4, <2>1 DEF ItemStep, IInv, ItemsInv, UnitsMade
  <2>3. state[i] # "waiting" /\ ~Skipped(i)
    BY <2>2, ItemMoves DEF ItemStep, IInv, ItemsInv, ItemSteps
  <2>4. ~PreprocessFails(i)
    BY <1>1, <1>2, <1>4, <2>2, <2>3 DEF PreprocessFails, GaveUp, Skipped, Command, HasMore, ItemStep, IInv,
      ItemsInv, ItemSteps
  <2>5. EndCompile(i)
    BY <1>2, <1>4, <2>2, <2>3, <2>4, ItemMoves DEF ItemStep, Process, Begin, Assemble, Link, Running,
       HandledAs, SkipMissing, Preprocess, PreprocessSucceeds
  <2> DEFINE r == [target |-> Basename(CompileTarget(i)), sources |-> bridged[i]]
  <2>6. ld_results' = Append(ld_results, r)
    BY <1>2, <1>4, <2>5 DEF EndCompile, HandleLink
  <2>7. cc_results[n].target \in ToSet(bridged[i])
    BY <1>2, <1>4, <2>1 DEF ItemStep, IInv, ItemsInv, TargetsKept
  <2>8. IsList(ld_results)
    BY DEF ItemStep, IInv, ListTypes
  <2>9. /\ Len(ld_results) + 1 \in DOMAIN Append(ld_results, r)
        /\ Append(ld_results, r)[Len(ld_results) + 1] = r
    <3> HIDE DEF r
    <3> QED  BY <2>8, AppendToList
  <2>10. r.target = Basename(CompileTarget(j)) /\ cc_results'[n].target \in ToSet(r.sources)
    BY <1>4, <2>1, <2>7
  <2> QED  BY <2>6, <2>9, <2>10
<1> QED  BY <1>3, <1>4

\* The sources of a command are a list of full paths.
LEMMA CommandSources ==
  ASSUME NEW i \in Items, cdb \in Cdbs
  PROVE  /\ Command(i).kind \in Kinds /\ IsFile(Command(i).target)
         /\ IsList(Command(i).sources)
         /\ \A n \in DOMAIN Command(i).sources : Command(i).sources[n].file.dir # ""
BY WorkItemsAssumption DEF Items, Command, IsList

\* A link or assembler result takes its sources from the command or the bridge.
LEMMA ItemSourcesPlaced == ASSUME NEW i \in Items, ItemStep(i) PROVE SourcesPlaced'
<1>1. cdb' = cdb /\ Items' = Items
  BY ItemMoves
<1>2. /\ SourcesPlaced /\ cdb \in Cdbs /\ IsList(as_results) /\ IsList(ld_results)
      /\ bridged = [j \in Items |-> bridged[j]] /\ \A j \in Items : IsList(bridged[j])
  BY DEF ItemStep, IInv, ItemsInv, ItemSteps, ListTypes
<1>3. ASSUME NEW target, NEW sources, HandleLink(target, sources),
             \A s \in ToSet(sources) : s.dir # ""
      PROVE  \A m \in DOMAIN ld_results' : \A s \in ToSet(ld_results'[m].sources) : s.dir # ""
  <2> DEFINE r == [target |-> Basename(target), sources |-> sources]
  <2>1. ld_results' \in {ld_results, Append(ld_results, r)} /\ r.sources = sources
    BY <1>3 DEF HandleLink
  <2> HIDE DEF r
  <2>2. \A m \in DOMAIN Append(ld_results, r) :
          (m \in DOMAIN ld_results /\ Append(ld_results, r)[m] = ld_results[m]) \/ Append(ld_results, r)[m] = r
    BY <1>2, AppendToList
  <2>3. \A m \in DOMAIN ld_results : \A s \in ToSet(ld_results[m].sources) : s.dir # ""
    BY <1>2 DEF SourcesPlaced
  <2>4. ASSUME NEW m \in DOMAIN ld_results', NEW s \in ToSet(ld_results'[m].sources) PROVE s.dir # ""
    <3>1. (m \in DOMAIN ld_results /\ ld_results'[m] = ld_results[m]) \/ ld_results'[m] = r
      BY <2>1, <2>2
    <3> QED  BY <1>3, <2>1, <2>3, <3>1
  <2> QED  BY <2>4
<1>4. \A m \in DOMAIN ld_results' : \A s \in ToSet(ld_results'[m].sources) : s.dir # ""
  <2>1. CASE ld_results' = ld_results
    BY <1>2, <2>1 DEF SourcesPlaced
  <2>2. CASE Link(i)
    <3> DEFINE sources == [n \in DOMAIN Command(i).sources |-> Command(i).sources[n].file]
    <3>1. \A s \in ToSet(sources) : s.dir # ""
      BY <1>2, CommandSources DEF ToSet
    <3>2. HandleLink(LinkTarget(i), sources)
      BY <2>2 DEF Link
    <3> HIDE DEF sources
    <3> QED  BY <1>3, <3>1, <3>2
  <2>3. CASE EndCompile(i)
    <3>1. HandleLink(CompileTarget(i), bridged[i]) \/ UNCHANGED ld_results
      BY <2>3 DEF EndCompile
    <3> QED  BY <1>2, <1>3, <2>1, <3>1 DEF SourcesPlaced
  <2>4. ld_results' = ld_results \/ Link(i) \/ EndCompile(i)
    BY DEF ItemStep, resultVars, Process, Begin, Assemble, SkipMissing, Preprocess,
           PreprocessFails, PreprocessSucceeds
  <2> QED  BY <2>1, <2>2, <2>3, <2>4
<1>5. \A n \in DOMAIN as_results' : as_results'[n].source.dir # ""
  <2>1. CASE as_results' = as_results
    BY <1>2, <2>1 DEF SourcesPlaced
  <2>2. CASE Assemble(i)
    <3> DEFINE r == [target |-> Command(i).target, source |-> Command(i).sources[1].file]
    <3>1. Command(i).sources # <<>> /\ IsList(Command(i).sources)
      BY <1>2, <2>2, CommandSources DEF Assemble, Running, ItemStep, IInv, ItemsInv, ItemSteps, Skipped
    <3>2. 1 \in DOMAIN Command(i).sources
      BY <3>1, EmptySeq, ListElements DEF IsList
    <3>3. r.source.dir # "" /\ as_results' = Append(as_results, r)
      BY <1>2, <2>2, <3>2, CommandSources DEF Assemble
    <3> HIDE DEF r
    <3>4. \A m \in DOMAIN Append(as_results, r) :
            (m \in DOMAIN as_results /\ Append(as_results, r)[m] = as_results[m]) \/ Append(as_results, r)[m] = r
      BY <1>2, AppendToList
    <3> QED  BY <1>2, <3>3, <3>4 DEF SourcesPlaced
  <2>3. as_results' = as_results \/ Assemble(i)
    BY DEF ItemStep, resultVars, Process, Begin, Link, SkipMissing, Preprocess,
           PreprocessFails, PreprocessSucceeds, EndCompile
  <2> QED  BY <2>1, <2>2, <2>3
<1>6. \A j \in Items : \A s \in ToSet(bridged'[j]) : s.dir # ""
  <2>1. CASE bridged' = bridged
    BY <1>2, <2>1 DEF SourcesPlaced
  <2>2. CASE PreprocessSucceeds(i) /\ MultiSource(i) /\ ~IntoDir(i)
    <3>1. bridged' = [bridged EXCEPT ![i] = Append(@, SourceTarget(i))]
      BY <2>2 DEF PreprocessSucceeds
    <3>2. SourceTarget(i).dir = "unique"
      BY <2>2 DEF SourceTarget
    <3>3. ToSet(Append(bridged[i], SourceTarget(i))) = ToSet(bridged[i]) \cup {SourceTarget(i)}
      BY <1>2, AppendToList
    <3> QED  BY <1>2, <3>1, <3>2, <3>3 DEF SourcesPlaced
  <2> QED
    BY <2>1, <2>2 DEF ItemStep, Process, Begin, Assemble, Link, SkipMissing, Preprocess,
                      PreprocessFails, PreprocessSucceeds, EndCompile
<1> QED  BY <1>1, <1>4, <1>5, <1>6 DEF SourcesPlaced

\* An item that preprocesses owns its file, until a result does or it is removed.
LEMMA ItemTempsOwned == ASSUME NEW i \in Items, ItemStep(i) PROVE TempsOwned'
<1>1. /\ cdb' = cdb /\ Items' = Items /\ stage' = "links" /\ stage = "links"
      /\ temps \subseteq Pending \cup {cc_results[n].file : n \in DOMAIN cc_results}
  BY ItemMoves DEF ItemStep, IInv, ItemsInv, PhasesApart, OutputUntouched, TempsOwned
<1>2. \A j \in Items \ {i} : state[j] = "preprocessing" => <<j, source[j]>> \in Pending'
  BY <1>1, ItemMoves DEF Pending
<1>3. {cc_results[n].file : n \in DOMAIN cc_results} \subseteq {cc_results'[n].file : n \in DOMAIN cc_results'}
  BY ItemCompiles
<1>4. SUFFICES ASSUME NEW t \in temps' \ {cc_results'[n].file : n \in DOMAIN cc_results'}
               PROVE  t \in Pending'
  BY <1>1 DEF TempsOwned
<1>5. \/ Preprocess(i) /\ temps' = temps \cup {<<i, source[i]>>}
      \/ PreprocessFails(i) /\ temps' = temps \ {<<i, source[i]>>}
      \/ PreprocessSucceeds(i) /\ temps' = temps
      \/ temps' = temps /\ state[i] # "preprocessing"
  BY DEF ItemStep, resultVars, Process, Begin, Assemble, Link, SkipMissing, Preprocess,
         PreprocessFails, PreprocessSucceeds, EndCompile, Running
<1>6. CASE t # <<i, source[i]>> \/ (state[i] # "preprocessing" /\ temps' = temps)
  <2>1. t \in temps \/ t = <<i, source[i]>>
    BY <1>4, <1>5
  <2>2. t \in Pending \/ t = <<i, source[i]>>
    BY <1>1, <1>3, <1>4, <2>1
  <2> QED  BY <1>1, <1>2, <1>3, <1>4, <1>6, <2>2 DEF Pending
<1>7. CASE t = <<i, source[i]>> /\ Preprocess(i)
  <2>1. state'[i] = "preprocessing" /\ source'[i] = source[i]
    BY <1>7, ItemMoves DEF Preprocess
  <2> QED  BY <1>1, <1>7, <2>1 DEF Pending
<1>8. CASE t = <<i, source[i]>> /\ PreprocessFails(i)
  BY <1>4, <1>8 DEF PreprocessFails
<1>9. CASE t = <<i, source[i]>> /\ PreprocessSucceeds(i)
  <2>1. CCResult(i).file = t
    BY <1>9 DEF CCResult
  <2>2. cc_results' = Append(cc_results, CCResult(i)) /\ IsList(cc_results)
    BY <1>9 DEF PreprocessSucceeds, ItemStep, IInv, ListTypes
  <2>3. /\ Len(cc_results) + 1 \in DOMAIN cc_results'
        /\ cc_results'[Len(cc_results) + 1] = CCResult(i)
    BY <2>2, AppendToList
  <2> QED  BY <1>4, <2>1, <2>3
<1>10. CASE t = <<i, source[i]>>
  <2>1. CASE Preprocess(i)  BY <1>7, <1>10, <2>1
  <2>2. CASE PreprocessFails(i)  BY <1>8, <1>10, <2>2
  <2>3. CASE PreprocessSucceeds(i)  BY <1>9, <1>10, <2>3
  <2>4. CASE temps' = temps /\ state[i] # "preprocessing"  BY <1>6, <2>4
  <2> QED  BY <1>5, <2>1, <2>2, <2>3, <2>4
<1> QED  BY <1>6, <1>10

\* What an item's step keeps of the work items' part.
LEMMA ItemItemsInv == ASSUME NEW i \in Items, ItemStep(i) PROVE ItemsInv'
<1>1. PhasesApart'
  <2>1. phase' = phase /\ phase = "work" /\ PhasesApart
    BY DEF ItemStep, IInv, ItemsInv, processVars
  <2>2. UNCHANGED <<stage, next_result, seen, ld_infos, link_targets, pp_files>>
    BY DEF ItemStep, outputVars
  <2> QED  BY <2>1, <2>2 DEF PhasesApart, OutputUntouched
<1> QED
  BY <1>1, ItemItemSteps, ItemUnitsMade, ItemTargetsKept, ItemSourcesBridged, ItemSourcesPlaced,
     ItemTempsOwned DEF ItemsInv

-----------------------------------------------------------------------------
(* Steps that leave the items and their lists alone.                       *)

\* What is known of the items depends on their state and their lists only.
LEMMA ItemsUntouched ==
  ASSUME UNCHANGED <<cdb, itemVars, cc_results, as_results, ld_results>>
  PROVE  /\ ItemSteps => ItemSteps'
         /\ UnitsMade => UnitsMade'
         /\ TargetsKept => TargetsKept'
         /\ SourcesBridged => SourcesBridged'
         /\ SourcesPlaced => SourcesPlaced'
         /\ AllOver' = AllOver /\ Pending' = Pending /\ Items' = Items /\ Busy' = Busy
<1> USE DEF itemVars, Items, Command, Current, HasMore, MultiSource, IntoDir, Skipped
<1>1. ItemSteps => ItemSteps'
  BY DEF ItemSteps
<1>2. UnitsMade => UnitsMade'
  BY DEF UnitsMade
<1>3. TargetsKept => TargetsKept'
  BY DEF TargetsKept
<1>4. SourcesBridged => SourcesBridged'
  <2>1. \A i \in Items : /\ GaveUp(i)' <=> GaveUp(i) 
                         /\ CompileTarget(i)' = CompileTarget(i)
    BY DEF GaveUp, CompileTarget
  <2> QED  BY <2>1 DEF SourcesBridged
<1>5. SourcesPlaced => SourcesPlaced'
  BY DEF SourcesPlaced
<1>6. AllOver' = AllOver /\ Pending' = Pending /\ Items' = Items /\ Busy' = Busy
  BY DEF AllOver, Pending, Busy
<1> QED  BY <1>1, <1>2, <1>3, <1>4, <1>5, <1>6

\* A step of process that is neither an item's nor generate_output's, or none.
ControlStep ==
  \/ RunFilterCommand \/ LoadCdb \/ PrepareProfile \/ Join \/ Return
  \/ UNCHANGED vars

\* Such a step changes the phase and the error code only.
LEMMA ControlMoves ==
  ASSUME ControlStep
  PROVE  /\ UNCHANGED <<inputVars, itemVars, resultVars, outputVars>>
         /\ UNCHANGED <<cdb, need_process_link_using_compiler, cc_results, as_results, ld_results, temps>>
         /\ UNCHANGED <<state, source, options, bridged>>
         /\ UNCHANGED <<stage, next_result, seen, dependency_names, ld_infos, link_targets,
                        to_copy, pp_files, properties, source_files>>
         /\ \/ UNCHANGED <<phase, ec>>
            \/ phase \in {"filters", "load", "profile"} /\ phase' = "returned" /\ ec' = "EC_ERROR_PARSING_CDB"
            \/ phase = "filters" /\ phase' = "load" /\ ec' = ec
            \/ phase = "load" /\ phase' = "profile" /\ ec' = ec
            \/ phase = "profile" /\ phase' = "work" /\ ec' = ec
            \/ phase = "work" /\ AllOver /\ phase' = "generate" /\ ec' = ec
            \/ phase = "generate" /\ Written /\ phase' = "returned" /\ ec' = ec
<1> USE DEF inputVars, itemVars, resultVars, outputVars
<1>1. UNCHANGED <<inputVars, itemVars, resultVars, outputVars>>
  BY DEF ControlStep, RunFilterCommand, LoadCdb, PrepareProfile, Join, Return, Advance, vars, processVars
<1>2. \/ UNCHANGED <<phase, ec>>
      \/ phase \in {"filters", "load", "profile"} /\ phase' = "returned" /\ ec' = "EC_ERROR_PARSING_CDB"
      \/ phase = "filters" /\ phase' = "load" /\ ec' = ec
      \/ phase = "load" /\ phase' = "profile" /\ ec' = ec
      \/ phase = "profile" /\ phase' = "work" /\ ec' = ec
      \/ phase = "work" /\ AllOver /\ phase' = "generate" /\ ec' = ec
      \/ phase = "generate" /\ Written /\ phase' = "returned" /\ ec' = ec
  BY DEF ControlStep, RunFilterCommand, LoadCdb, PrepareProfile, Join, Return, Advance, vars, processVars
<1> QED  BY <1>1, <1>2

\* The barrier is passed only when every item is over.
LEMMA ControlItems == ASSUME IInv, ControlStep PROVE TypeOK' /\ ListTypes' /\ ItemsInv'
<1> USE ControlMoves
<1>1. TypeOK'
  <2>1. Items' = Items /\ Busy' = Busy /\ TypeOK
    BY ItemsUntouched DEF IInv
  <2> QED  BY <2>1 DEF TypeOK
<1>2. ListTypes'
  <2>1. Items' = Items /\ Busy' = Busy /\ ListTypes
    BY ItemsUntouched DEF IInv
  <2> QED  BY <2>1 DEF ListTypes, IsList
<1>3. PhasesApart'
  <2>1. PhasesApart /\ AllOver' = AllOver
    BY ItemsUntouched DEF IInv, ItemsInv
  <2> QED  BY <2>1 DEF PhasesApart, OutputUntouched
<1>4. TempsOwned'
  <2>1. TempsOwned /\ Pending' = Pending
    BY ItemsUntouched DEF IInv, ItemsInv
  <2> QED  BY <2>1 DEF TempsOwned
<1> QED  BY <1>1, <1>2, <1>3, <1>4, ItemsUntouched DEF IInv, ItemsInv

=============================================================================
