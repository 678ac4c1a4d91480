------------------------- MODULE BuildProcessorProofs ------------------------
(***************************************************************************)
(* Machine-checked proofs about BuildProcessor, for every compile database *)
(* and number of threads: its invariant, what the invariant says of the    *)
(* output, the abstract lists that the parallel phase implements, and what *)
(* the archive holds of an orderly build, whatever the order of the work.  *)
(***************************************************************************)
EXTENDS WorkItemsProofs

-----------------------------------------------------------------------------
(* Facts about the operators of generate_output.                           *)

\* What a std::map holds after operator[] or insert.
LEMMA PutFacts ==
  ASSUME NEW map, NEW key, NEW value
  PROVE  /\ DOMAIN Put(map, key, value) = DOMAIN map \cup {key}
         /\ Put(map, key, value)[key] = value
         /\ \A k \in DOMAIN map \ {key} : Put(map, key, value)[k] = map[k]
         /\ DOMAIN Insert(map, key, value) = DOMAIN map \cup {key}
         /\ \A k \in DOMAIN map : Insert(map, key, value)[k] = map[k]
         /\ key \notin DOMAIN map => Insert(map, key, value)[key] = value
BY DEF Put, Insert

\* A nonempty finite set of numbers has a least one.
LEMMA MinFacts ==
  ASSUME NEW n \in Nat, NEW S \in SUBSET (0 .. n), S # {}
  PROVE  Min(S) \in S /\ \A k \in S : Min(S) <= k
BY LeastExists DEF Min

\* The number found for a file is one that no file of the directory has.
LEMMA FreshNumberFresh ==
  ASSUME NEW dir, NEW cc, IsFiniteSet(pp_files)
  PROVE  \A f \in pp_files : f.path # <<dir, cc.source.name, cc.lang, FreshNumber(dir, cc)>>
<1> DEFINE c == Cardinality(pp_files)
           path(n) == <<dir, cc.source.name, cc.lang, n>>
           taken == {n \in 0 .. c : \E f \in pp_files : f.path = path(n)}
<1>1. c \in Nat
  BY FS_CardinalityType
<1>2. (0 .. c) \ taken # {}
  <2> SUFFICES ASSUME \A n \in 0 .. c : \E f \in pp_files : f.path = path(n) PROVE FALSE
    OBVIOUS
  <2> DEFINE owner == [n \in 0 .. c |-> CHOOSE f \in pp_files : f.path = path(n)]
  <2>1. owner \in [0 .. c -> pp_files] /\ \A n \in 0 .. c : owner[n].path = path(n)
    OBVIOUS
  <2>2. IsFiniteSet(0 .. c) /\ Cardinality(0 .. c) = c + 1
    BY <1>1, FS_Interval
  <2>3. Cardinality(pp_files) < Cardinality(0 .. c)
    BY <1>1, <2>2
  <2>4. \A m, n \in 0 .. c : path(m) = path(n) => m = n
    OBVIOUS
  <2> HIDE DEF owner
  <2>5. \E m, n \in 0 .. c : m # n /\ owner[m] = owner[n]
    <3> DEFINE D == 0 .. c
    <3>1. IsFiniteSet(D) /\ Cardinality(pp_files) < Cardinality(D) /\ owner \in [D -> pp_files]
      BY <2>1, <2>2, <2>3
    <3> HIDE DEF D
    <3>2. \E m, n \in D : m # n /\ owner[m] = owner[n]
      BY <3>1, FS_PigeonHole
    <3> QED  BY <3>2 DEF D
  <2> QED  BY <2>1, <2>4, <2>5
<1>3. FreshNumber(dir, cc) = Min((0 .. c) \ taken)
  BY DEF FreshNumber
<1>4. FreshNumber(dir, cc) \in (0 .. c) \ taken
  <2> HIDE DEF taken, c
  <2> QED  BY <1>1, <1>2, <1>3, MinFacts
<1> QED  BY <1>4

-----------------------------------------------------------------------------
(* The steps of generate_output.                                           *)

\* A step of generate_output, taken from an invariant state.
OutputStep ==
  /\ IInv /\ phase = "generate" /\ NextOutput
  /\ UNCHANGED <<processVars, itemVars>>

\* The items and their lists are what they were.
LEMMA OutputMoves ==
  ASSUME OutputStep
  PROVE  /\ UNCHANGED <<cdb, need_process_link_using_compiler, phase, ec>>
         /\ UNCHANGED <<state, source, options, bridged, cc_results, as_results, ld_results>>
         /\ UNCHANGED itemVars
         /\ AllOver
         /\ \A m : Sources(m)' = Sources(m)
<1>1. /\ UNCHANGED <<cdb, need_process_link_using_compiler, phase, ec>>
      /\ UNCHANGED <<state, source, options, bridged>> /\ UNCHANGED itemVars
  BY DEF OutputStep, processVars, inputVars, itemVars
<1>2. UNCHANGED <<cc_results, as_results, ld_results>>
  BY DEF OutputStep, resultVars, NextOutput, AddLink, EndLinks, AddTestLd, DropUnlinked, TakeCompiled,
         CopyCompiled, EndCompiled, EndCompiles, WriteProperties, EndProperties
<1>3. AllOver
  BY DEF OutputStep, IInv, ItemsInv, PhasesApart
<1>4. \A m : Sources(m)' = Sources(m)
  BY <1>2 DEF Sources, LinkSources, Actual, Assembled, AsSource
<1> QED  BY <1>1, <1>2, <1>3, <1>4

\* What AddLink and AddTestLd add: the name they count, what it is the target of,
\* and what it depends on.
Base == IF stage = "links" THEN ld_results[next_result].target.name ELSE TestLd.name
Keys == IF stage = "links" THEN Sources(next_result)
        ELSE {[TestLd EXCEPT !.name = Deduplicated(TestLd.name)]}
Needed == IF stage = "links" THEN Sources(next_result) ELSE {}

\* A link info is added at the end, for the next link result or for test_ld.
LEMMA AddMoves ==
  ASSUME OutputStep, AddLink \/ AddTestLd
  PROVE  /\ AddLink => stage = "links" /\ stage' = "links"
         /\ AddTestLd => stage = "test_ld" /\ stage' = "compiles"
         /\ seen' = Put(seen, Base, Get(seen, Base, 0) + 1)
         /\ ld_infos' = Append(ld_infos, NewInfo(Deduplicated(Base), Needed))
         /\ link_targets' = [s \in DOMAIN link_targets \cup Keys |->
              Get(link_targets, s, {}) \cup (IF s \in Keys THEN {Len(ld_infos) + 1} ELSE {})]
         /\ UNCHANGED <<temps, to_copy, pp_files, properties>>
         /\ \/ /\ stage = "links" /\ stage' = "links" /\ next_result' = next_result + 1
               /\ next_result \in DOMAIN ld_results /\ next_result = Len(ld_infos) + 1
            \/ /\ stage = "test_ld" /\ stage' = "compiles" /\ next_result' = 1 /\ next_result = 1
               /\ Len(ld_infos) = Len(ld_results)
<1>0. /\ AddLink => stage = "links" /\ stage' = "links"
      /\ AddTestLd => stage = "test_ld" /\ stage' = "compiles"
  BY DEF AddLink, AddTestLd
<1>1. CASE AddLink
  <2>1. /\ stage = "links" /\ next_result \in DOMAIN ld_results /\ next_result = Len(ld_infos) + 1
    <3>1. /\ stage = "links" /\ next_result <= Len(ld_results) /\ next_result \in Nat \ {0}
          /\ IsList(ld_results) /\ IsList(ld_infos) /\ Len(ld_infos) = next_result - 1
      BY <1>1 DEF AddLink, OutputStep, IInv, TypeOK, ListTypes, LinksInv, InfosNumbered
    <3> QED  BY <3>1, ListElements
  <2>2. /\ stage' = "links" /\ next_result' = next_result + 1
        /\ UNCHANGED <<temps, to_copy, pp_files, properties>>
    BY <1>1, <2>1 DEF AddLink, resultVars
  <2>3. /\ seen' = Put(seen, Base, Get(seen, Base, 0) + 1)
        /\ ld_infos' = Append(ld_infos, NewInfo(Deduplicated(Base), Needed))
        /\ link_targets' = [s \in DOMAIN link_targets \cup Keys |->
             Get(link_targets, s, {}) \cup (IF s \in Keys THEN {Len(ld_infos) + 1} ELSE {})]
    BY <1>1, <2>1 DEF AddLink, Base, Keys, Needed, Sources, Count, AddLinkTargets
  <2> QED  BY <1>0, <2>1, <2>2, <2>3
<1>2. CASE AddTestLd
  <2>1. /\ stage = "test_ld" /\ stage' = "compiles" /\ next_result' = next_result
        /\ UNCHANGED <<temps, to_copy, pp_files, properties>>
    BY <1>2 DEF AddTestLd, resultVars
  <2>2. next_result = 1 /\ Len(ld_infos) = Len(ld_results)
    BY <2>1 DEF OutputStep, IInv, LinksInv, InfosNumbered
  <2>3. /\ seen' = Put(seen, Base, Get(seen, Base, 0) + 1)
        /\ ld_infos' = Append(ld_infos, NewInfo(Deduplicated(Base), Needed))
        /\ link_targets' = [s \in DOMAIN link_targets \cup Keys |->
             Get(link_targets, s, {}) \cup (IF s \in Keys THEN {Len(ld_infos) + 1} ELSE {})]
    BY <1>2, <2>1 DEF AddTestLd, Base, Keys, Needed, Count, AddLinkTargets
  <2> QED  BY <1>0, <2>1, <2>2, <2>3
<1> QED  BY <1>0, <1>1, <1>2

\* The infos there are stay as they are; the new one is the last.
LEMMA AddInfos ==
  ASSUME OutputStep, AddLink \/ AddTestLd
  PROVE  /\ Len(ld_infos) \in Nat /\ DOMAIN ld_infos = 1 .. Len(ld_infos)
         /\ IsList(ld_infos') /\ Len(ld_infos') = Len(ld_infos) + 1
         /\ DOMAIN ld_infos' = DOMAIN ld_infos \cup {Len(ld_infos) + 1}
         /\ Len(ld_infos) + 1 \notin DOMAIN ld_infos
         /\ \A m \in DOMAIN ld_infos : ld_infos'[m] = ld_infos[m]
         /\ ld_infos'[Len(ld_infos) + 1] = NewInfo(Deduplicated(Base), Needed)
<1>1. IsList(ld_infos)
  BY DEF OutputStep, IInv, ListTypes
<1> DEFINE r == NewInfo(Deduplicated(Base), Needed)
<1>2. ld_infos' = Append(ld_infos, r)
  BY AddMoves
<1> HIDE DEF r
<1>3. /\ Len(ld_infos) \in Nat /\ DOMAIN ld_infos = 1 .. Len(ld_infos)
      /\ IsList(Append(ld_infos, r)) /\ Len(Append(ld_infos, r)) = Len(ld_infos) + 1
      /\ DOMAIN Append(ld_infos, r) = 1 .. Len(ld_infos) + 1
      /\ \A m \in 1 .. Len(ld_infos) : Append(ld_infos, r)[m] = ld_infos[m]
      /\ Append(ld_infos, r)[Len(ld_infos) + 1] = r
  BY <1>1, AppendToList
<1>4. 1 .. Len(ld_infos) + 1 = (1 .. Len(ld_infos)) \cup {Len(ld_infos) + 1}
  BY <1>3
<1>5. IsList(ld_infos')
  BY <1>2, <1>3
<1> QED  BY <1>2, <1>3, <1>4, <1>5 DEF r

\* What the update of two fields makes of a link info.
LEMMA InfoUpdate ==
  ASSUME NEW x, NEW d, NEW e,
         x = [dir |-> x.dir, dependencies |-> x.dependencies, scan_options |-> x.scan_options]
  PROVE  [x EXCEPT !.dependencies = d, !.scan_options = e]
           = [dir |-> x.dir, dependencies |-> d, scan_options |-> e]
<1> DEFINE y == [x EXCEPT !.dependencies = d, !.scan_options = e]
           z == [dir |-> x.dir, dependencies |-> d, scan_options |-> e]
<1>1. DOMAIN x = {"dir", "dependencies", "scan_options"}
  OBVIOUS
<1>2. y["dir"] = x.dir /\ y["dependencies"] = d /\ y["scan_options"] = e
  BY <1>1
<1>3. z["dir"] = x.dir /\ z["dependencies"] = d /\ z["scan_options"] = e
  OBVIOUS
<1>4. y = [k \in DOMAIN x |-> y[k]] /\ z = [k \in DOMAIN x |-> z[k]]
  BY <1>1
<1> HIDE DEF y, z
<1>5. y = z
  BY <1>1, <1>2, <1>3, <1>4
<1> QED  BY <1>5 DEF y, z

\* The current compile result goes into the directory of one link info.
CopiedInto(info) ==
  /\ info \in to_copy /\ info \in DOMAIN ld_infos
  /\ DOMAIN ld_infos' = DOMAIN ld_infos /\ IsList(ld_infos') /\ Len(ld_infos') = Len(ld_infos)
  /\ \A m \in DOMAIN ld_infos \ {info} : ld_infos'[m] = ld_infos[m]
  /\ ld_infos'[info] =
       [dir |-> ld_infos[info].dir,
        dependencies |-> ld_infos[info].dependencies \ {Compiled.target},
        scan_options |-> ScanOptions(ld_infos[info].scan_options, Compiled)]
  /\ pp_files' = pp_files \cup
       {[path |-> <<ld_infos[info].dir, Compiled.source.name, Compiled.lang,
                    FreshNumber(ld_infos[info].dir, Compiled)>>,
         file |-> Compiled.file]}
  /\ to_copy' = to_copy \ {info}

\* A copy changes one info, and adds a file of its directory.
LEMMA CopyMoves ==
  ASSUME OutputStep, CopyCompiled
  PROVE  \E info \in to_copy : CopiedInto(info)
<1>1. PICK info \in to_copy :
        LET dir == ld_infos[info].dir
        IN /\ pp_files' = pp_files \cup
                {[path |-> <<dir, Compiled.source.name, Compiled.lang, FreshNumber(dir, Compiled)>>,
                  file |-> Compiled.file]}
           /\ ld_infos' = [ld_infos EXCEPT
                ![info].dependencies = @ \ {Compiled.target},
                ![info].scan_options = ScanOptions(@, Compiled)]
           /\ to_copy' = to_copy \ {info}
  BY DEF CopyCompiled
<1>2. /\ info \in DOMAIN ld_infos /\ IsList(ld_infos)
      /\ ld_infos[info] = [dir |-> ld_infos[info].dir, dependencies |-> ld_infos[info].dependencies,
                           scan_options |-> ld_infos[info].scan_options]
  BY <1>1 DEF OutputStep, IInv, TypeOK, ListTypes
<1> DEFINE r == [dir |-> ld_infos[info].dir,
                 dependencies |-> ld_infos[info].dependencies \ {Compiled.target},
                 scan_options |-> ScanOptions(ld_infos[info].scan_options, Compiled)]
<1>3. ld_infos' = [ld_infos EXCEPT ![info] = r]
  <2> DEFINE x == ld_infos[info]
             y == [x EXCEPT !.dependencies = @ \ {Compiled.target},
                            !.scan_options = ScanOptions(@, Compiled)]
  <2>1. ld_infos' = [ld_infos EXCEPT ![info] = y]
    BY <1>1, <1>2
  <2>2. x = [dir |-> x.dir, dependencies |-> x.dependencies, scan_options |-> x.scan_options]
    BY <1>2
  <2> HIDE DEF x
  <2>3. y = r
    BY <2>2, InfoUpdate DEF x
  <2> QED  BY <2>1, <2>3
<1>4. /\ DOMAIN ld_infos' = DOMAIN ld_infos /\ ld_infos'[info] = r
      /\ \A m \in DOMAIN ld_infos \ {info} : ld_infos'[m] = ld_infos[m]
  BY <1>2, <1>3
<1> HIDE DEF r
<1>5. IsList(ld_infos') /\ Len(ld_infos') = Len(ld_infos)
  BY <1>2, <1>3, ExceptList
<1> QED  BY <1>1, <1>2, <1>4, <1>5 DEF r, CopiedInto

\* What a copy leaves of every info.
LEMMA CopiedInfos ==
  ASSUME OutputStep, CopyCompiled
  PROVE  /\ DOMAIN ld_infos' = DOMAIN ld_infos /\ pp_files \subseteq pp_files'
         /\ IsList(ld_infos') /\ Len(ld_infos') = Len(ld_infos) /\ to_copy' \subseteq to_copy
         /\ \A m \in DOMAIN ld_infos :
              /\ ld_infos'[m].dir = ld_infos[m].dir
              /\ ld_infos'[m].dependencies \subseteq ld_infos[m].dependencies
<1>1. PICK info \in to_copy : CopiedInto(info)
  BY CopyMoves
<1>2. \A m \in DOMAIN ld_infos : m = info \/ m \in DOMAIN ld_infos \ {info}
  OBVIOUS
<1> QED  BY <1>1, <1>2 DEF CopiedInto

\* Where the current compile result is looked up.
Key == IF Compiled.target \in DOMAIN link_targets THEN Compiled.target ELSE TestLd

\* A compile result is to be copied to the link infos of its target, or of test_ld.
LEMMA TakeMoves ==
  ASSUME OutputStep, TakeCompiled
  PROVE  /\ Key \in DOMAIN link_targets => to_copy' = link_targets[Key]
         /\ Key \notin DOMAIN link_targets =>
              /\ to_copy' = {} /\ need_process_link_using_compiler
              /\ link_targets'[Key] = {} /\ Key = TestLd
         /\ DOMAIN link_targets' = DOMAIN link_targets \cup {Key}
         /\ \A s \in DOMAIN link_targets : link_targets'[s] = link_targets[s]
         /\ stage = "compiles" /\ stage' = "copies"
         /\ next_result <= Len(cc_results) /\ next_result \in DOMAIN cc_results
         /\ UNCHANGED <<next_result, seen, temps, ld_infos, pp_files, properties>>
<1>1. /\ stage = "compiles" /\ stage' = "copies" /\ next_result <= Len(cc_results)
      /\ UNCHANGED <<next_result, seen, temps, ld_infos, pp_files, properties>>
  BY DEF TakeCompiled, resultVars
<1>2. next_result \in DOMAIN cc_results
  <2>1. next_result \in Nat \ {0} /\ IsList(cc_results)
    BY DEF OutputStep, IInv, TypeOK, ListTypes
  <2> QED  BY <1>1, <2>1, ListElements
<1>3. /\ to_copy' = Get(link_targets, Key, {}) /\ link_targets' = Insert(link_targets, Key, {})
      /\ Compiled.target \in DOMAIN link_targets \/ need_process_link_using_compiler
  BY DEF TakeCompiled, Key
<1>4. Key \notin DOMAIN link_targets => need_process_link_using_compiler /\ Key = TestLd
  BY <1>3 DEF Key
<1>5. /\ Key \in DOMAIN link_targets => to_copy' = link_targets[Key]
      /\ Key \notin DOMAIN link_targets => to_copy' = {}
  BY <1>3 DEF Get
<1>6. /\ DOMAIN link_targets' = DOMAIN link_targets \cup {Key}
      /\ \A s \in DOMAIN link_targets : link_targets'[s] = link_targets[s]
      /\ Key \notin DOMAIN link_targets => link_targets'[Key] = {}
  BY <1>3 DEF Insert, Put
<1> QED  BY <1>1, <1>2, <1>4, <1>5, <1>6

\* A step of generate_output keeps the types.
LEMMA OutputTypeOK == ASSUME OutputStep PROVE TypeOK'
<1>1. /\ TypeOK /\ Items' = Items /\ Busy' = Busy
      /\ UNCHANGED <<state, source, options, phase, ec>>
  BY OutputMoves, ItemsUntouched DEF OutputStep, IInv
<1>2. SUFFICES /\ stage' \in {"links", "test_ld", "compiles", "copies", "properties", "written"}
               /\ next_result' \in Nat \ {0} /\ to_copy' \subseteq DOMAIN ld_infos'
               /\ \A s \in DOMAIN link_targets' : link_targets'[s] \subseteq DOMAIN ld_infos'
  BY <1>1 DEF TypeOK
<1>3. CASE AddLink \/ AddTestLd
  <2>1. stage' \in {"links", "compiles"} /\ next_result' \in Nat \ {0} /\ to_copy' = to_copy
    BY <1>1, <1>3, AddMoves DEF TypeOK
  <2>2. \A s \in DOMAIN link_targets' : link_targets'[s] \subseteq DOMAIN ld_infos \cup {Len(ld_infos) + 1}
    BY <1>1, <1>3, AddMoves DEF TypeOK, Get
  <2> QED  BY <1>1, <1>3, <2>1, <2>2, AddInfos DEF TypeOK
<1>4. CASE EndLinks \/ DropUnlinked \/ EndCompiled \/ EndCompiles \/ WriteProperties \/ EndProperties
  BY <1>1, <1>4 DEF TypeOK, EndLinks, DropUnlinked, EndCompiled, EndCompiles, WriteProperties, EndProperties
<1>5. CASE TakeCompiled
  <2>1. to_copy' \subseteq DOMAIN ld_infos
    BY <1>1, <1>5, TakeMoves DEF TypeOK
  <2>2. \A s \in DOMAIN link_targets' : link_targets'[s] \subseteq DOMAIN ld_infos
    BY <1>1, <1>5, TakeMoves DEF TypeOK
  <2>3. stage' = "copies" /\ next_result' = next_result /\ ld_infos' = ld_infos
    BY <1>5, TakeMoves
  <2> QED  BY <1>1, <2>1, <2>2, <2>3 DEF TypeOK
<1>6. CASE CopyCompiled
  <2>1. stage' = stage /\ next_result' = next_result /\ link_targets' = link_targets
    BY <1>6 DEF CopyCompiled
  <2>2. DOMAIN ld_infos' = DOMAIN ld_infos /\ to_copy' \subseteq to_copy
    BY <1>6, CopiedInfos
  <2> QED  BY <1>1, <2>1, <2>2 DEF TypeOK
<1> QED  BY <1>3, <1>4, <1>5, <1>6 DEF OutputStep, NextOutput

\* What a property file is made of.
LEMMA WriteMoves ==
  ASSUME OutputStep, WriteProperties
  PROVE  /\ stage = "properties" /\ stage' = "properties" /\ next_result <= Len(ld_infos)
         /\ next_result' = next_result + 1
         /\ UNCHANGED <<temps, seen, ld_infos, link_targets, to_copy, pp_files>>
         /\ IsList(properties') /\ Len(properties') = Len(properties) + 1
         /\ DOMAIN properties' = 1 .. Len(properties) + 1
         /\ \A p \in DOMAIN properties : properties'[p] = properties[p]
         /\ \A p \in DOMAIN properties' : p \in DOMAIN properties \/ p = Len(properties) + 1
         /\ properties'[Len(properties) + 1].paths \subseteq ld_infos[next_result].dependencies
         /\ properties'[Len(properties) + 1].scan_options = ld_infos[next_result].scan_options
<1> DEFINE info == ld_infos[next_result]
           known == info.dependencies \cap DOMAIN dependency_names
           r == [dir |-> info.dir, scan_options |-> info.scan_options,
                 names |-> {dependency_names[d] : d \in known},
                 paths |-> info.dependencies \ known]
<1>1. /\ stage = "properties" /\ stage' = "properties" /\ next_result <= Len(ld_infos)
      /\ next_result' = next_result + 1
      /\ UNCHANGED <<temps, seen, ld_infos, link_targets, to_copy, pp_files>>
      /\ properties' = Append(properties, r)
  BY DEF WriteProperties, resultVars
<1>2. r.paths \subseteq info.dependencies /\ r.scan_options = info.scan_options
  OBVIOUS
<1>3. IsList(properties)
  BY DEF OutputStep, IInv, ListTypes
<1> HIDE DEF r
<1>4. /\ IsList(Append(properties, r)) /\ Len(Append(properties, r)) = Len(properties) + 1
      /\ DOMAIN Append(properties, r) = 1 .. Len(properties) + 1
      /\ DOMAIN properties = 1 .. Len(properties) /\ Len(properties) \in Nat
      /\ \A p \in 1 .. Len(properties) : Append(properties, r)[p] = properties[p]
      /\ Append(properties, r)[Len(properties) + 1] = r
  BY <1>3, AppendToList
<1>5. \A p \in 1 .. Len(properties) + 1 : p \in 1 .. Len(properties) \/ p = Len(properties) + 1
  BY <1>4
<1>6. IsList(properties')
  BY <1>1, <1>4
<1> QED  BY <1>1, <1>2, <1>4, <1>5, <1>6

\* The lists of generate_output stay lists, and the archive finite.
LEMMA OutputListTypes == ASSUME OutputStep PROVE ListTypes'
<1>1. /\ ListTypes /\ Items' = Items /\ Busy' = Busy
      /\ UNCHANGED <<bridged, cc_results, as_results, ld_results, need_process_link_using_compiler>>
  BY OutputMoves, ItemsUntouched DEF OutputStep, IInv
<1> DEFINE IsInfo(x) == x = [dir |-> x.dir, dependencies |-> x.dependencies, scan_options |-> x.scan_options]
<1>2. SUFFICES /\ IsList(ld_infos') /\ IsList(properties') /\ IsFiniteSet(pp_files')
               /\ \A m \in DOMAIN ld_infos' : IsInfo(ld_infos'[m])
  BY <1>1 DEF ListTypes, IsList
<1>3. CASE AddLink \/ AddTestLd
  <2>1. IsInfo(NewInfo(Deduplicated(Base), Needed))
    BY DEF NewInfo
  <2>2. \A m \in DOMAIN ld_infos : IsInfo(ld_infos[m])
    BY <1>1 DEF ListTypes
  <2>3. pp_files' = pp_files /\ properties' = properties
    BY <1>3, AddMoves
  <2> HIDE DEF IsInfo
  <2> QED  BY <1>1, <1>3, <2>1, <2>2, <2>3, AddInfos DEF ListTypes, IsList
<1>4. CASE EndLinks \/ DropUnlinked \/ EndCompiled \/ EndCompiles \/ EndProperties \/ TakeCompiled
  <2>1. UNCHANGED <<ld_infos, properties, pp_files>>
    BY <1>4 DEF EndLinks, DropUnlinked, EndCompiled, EndCompiles, EndProperties, TakeCompiled
  <2> QED  BY <1>1, <2>1 DEF ListTypes, IsList
<1>5. CASE WriteProperties
  BY <1>1, <1>5, WriteMoves DEF ListTypes, IsList
<1>6. CASE CopyCompiled
  <2>1. properties' = properties
    BY <1>6 DEF CopyCompiled
  <2>2. \A m \in DOMAIN ld_infos : IsInfo(ld_infos[m])
    BY <1>1 DEF ListTypes
  <2>3. PICK info \in to_copy : CopiedInto(info)
    BY <1>6, CopyMoves
  <2>4. /\ IsInfo(ld_infos'[info]) /\ DOMAIN ld_infos' = DOMAIN ld_infos /\ IsList(ld_infos')
        /\ \A m \in DOMAIN ld_infos \ {info} : ld_infos'[m] = ld_infos[m]
    BY <2>3 DEF CopiedInto
  <2>5. IsFiniteSet(pp_files')
    BY <1>1, <2>3, FS_AddElement DEF ListTypes, CopiedInto
  <2> HIDE DEF IsInfo
  <2> QED  BY <1>1, <2>1, <2>2, <2>4, <2>5 DEF ListTypes, IsList
<1> QED  BY <1>3, <1>4, <1>5, <1>6 DEF OutputStep, NextOutput

\* The stages in which the compile results are looked at one by one.
LEMMA CompileMoves ==
  ASSUME OutputStep
  PROVE  /\ EndLinks => /\ stage = "links" /\ next_result' = 1 /\ stage' \in {"test_ld", "compiles"}
                        /\ stage' = IF need_process_link_using_compiler THEN "test_ld" ELSE "compiles"
                        /\ Len(ld_infos) = Len(ld_results)
                        /\ UNCHANGED <<temps, seen, ld_infos, link_targets, to_copy, pp_files, properties>>
         /\ DropUnlinked => /\ stage = "compiles" /\ stage' = "compiles" /\ next_result <= Len(cc_results)
                            /\ next_result \in DOMAIN cc_results
                            /\ next_result' = next_result + 1
                            /\ Compiled.target \notin DOMAIN link_targets
                            /\ ~need_process_link_using_compiler
                            /\ temps' = temps \ {Compiled.file}
                            /\ UNCHANGED <<seen, ld_infos, link_targets, to_copy, pp_files, properties>>
         /\ CopyCompiled => /\ stage = "copies" /\ stage' = "copies" /\ next_result \in DOMAIN cc_results
                            /\ UNCHANGED <<next_result, temps, seen, link_targets, properties>>
         /\ EndCompiled => /\ stage = "copies" /\ stage' = "compiles" /\ to_copy = {}
                           /\ next_result \in DOMAIN cc_results /\ next_result' = next_result + 1
                           /\ temps' = temps \ {Compiled.file}
                           /\ UNCHANGED <<seen, ld_infos, link_targets, to_copy, pp_files, properties>>
         /\ EndCompiles => /\ stage = "compiles" /\ stage' = "properties" /\ next_result' = 1
                           /\ next_result > Len(cc_results)
                           /\ UNCHANGED <<temps, seen, ld_infos, link_targets, to_copy, pp_files, properties>>
         /\ EndProperties => /\ stage = "properties" /\ stage' = "written" /\ next_result > Len(ld_infos)
                             /\ UNCHANGED <<temps, next_result, seen, ld_infos, link_targets, to_copy,
                                            pp_files, properties>>
         /\ next_result \in Nat \ {0}
         /\ Len(cc_results) \in Nat /\ DOMAIN cc_results = 1 .. Len(cc_results)
<1>1. /\ next_result \in Nat \ {0} /\ Len(cc_results) \in Nat /\ DOMAIN cc_results = 1 .. Len(cc_results)
      /\ Len(ld_results) \in Nat
  BY ListElements DEF OutputStep, IInv, TypeOK, ListTypes
<1>2. stage = "copies" => next_result <= Len(cc_results)
  BY DEF OutputStep, IInv, CompilesInv, CopyRight
<1>3. stage = "links" => Len(ld_infos) = next_result - 1 /\ Len(ld_infos) <= Len(ld_results)
  BY DEF OutputStep, IInv, LinksInv, InfosNumbered
<1> USE DEF resultVars
<1>4. ASSUME EndLinks
      PROVE  /\ stage = "links" /\ next_result' = 1 /\ next_result > Len(ld_results)
             /\ stage' = IF need_process_link_using_compiler THEN "test_ld" ELSE "compiles"
             /\ UNCHANGED <<temps, seen, ld_infos, link_targets, to_copy, pp_files, properties>>
  BY <1>4 DEF EndLinks
<1>5. ASSUME DropUnlinked
      PROVE  /\ stage = "compiles" /\ stage' = "compiles" /\ next_result <= Len(cc_results)
             /\ next_result' = next_result + 1
             /\ Compiled.target \notin DOMAIN link_targets
             /\ ~need_process_link_using_compiler
             /\ temps' = temps \ {Compiled.file}
             /\ UNCHANGED <<seen, ld_infos, link_targets, to_copy, pp_files, properties>>
  BY <1>5 DEF DropUnlinked
<1>6. ASSUME CopyCompiled
      PROVE  /\ stage = "copies" /\ stage' = "copies"
             /\ UNCHANGED <<next_result, temps, seen, link_targets, properties>>
  BY <1>6 DEF CopyCompiled
<1>7. ASSUME EndCompiled
      PROVE  /\ stage = "copies" /\ stage' = "compiles" /\ to_copy = {} /\ next_result' = next_result + 1
             /\ temps' = temps \ {Compiled.file}
             /\ UNCHANGED <<seen, ld_infos, link_targets, to_copy, pp_files, properties>>
  BY <1>7 DEF EndCompiled
<1>8. ASSUME EndCompiles
      PROVE  /\ stage = "compiles" /\ stage' = "properties" /\ next_result' = 1
             /\ next_result > Len(cc_results)
             /\ UNCHANGED <<temps, seen, ld_infos, link_targets, to_copy, pp_files, properties>>
  BY <1>8 DEF EndCompiles
<1>9. ASSUME EndProperties
      PROVE  /\ stage = "properties" /\ stage' = "written" /\ next_result > Len(ld_infos)
             /\ UNCHANGED <<temps, next_result, seen, ld_infos, link_targets, to_copy, pp_files, properties>>
  BY <1>9 DEF EndProperties
<1>10. EndLinks => Len(ld_infos) = Len(ld_results)
  BY <1>1, <1>3, <1>4 DEF OutputStep, IInv, TypeOK
<1>11. DropUnlinked \/ CopyCompiled \/ EndCompiled => next_result \in DOMAIN cc_results
  BY <1>1, <1>2, <1>5, <1>6, <1>7
<1> QED  BY <1>1, <1>4, <1>5, <1>6, <1>7, <1>8, <1>9, <1>10, <1>11

\* The file of a compile result goes with it; the files left are of those to come.
LEMMA OutputTempsOwned == ASSUME OutputStep PROVE TempsOwned'
<1> DEFINE Files(k) == {cc_results[n].file : n \in k .. Len(cc_results)}
<1>1. /\ TempsOwned /\ cc_results' = cc_results /\ Len(cc_results) \in Nat
      /\ DOMAIN cc_results = 1 .. Len(cc_results) /\ next_result \in Nat \ {0}
  BY OutputMoves, CompileMoves DEF OutputStep, IInv, ItemsInv
<1>2. Pending = {} /\ Pending' = {}
  BY OutputMoves, ItemsUntouched DEF Pending, AllOver
<1>3. /\ stage \in {"links", "test_ld"} => temps \subseteq Files(1)
      /\ stage \in {"compiles", "copies"} => temps \subseteq Files(next_result)
      /\ stage \in {"properties", "written"} => temps = {}
  BY <1>1, <1>2 DEF TempsOwned
<1>4. SUFFICES /\ stage' \in {"links", "test_ld"} => temps' \subseteq Files(1)
               /\ stage' \in {"compiles", "copies"} => temps' \subseteq Files(next_result')
               /\ stage' \in {"properties", "written"} => temps' = {}
  BY <1>1, <1>2 DEF TempsOwned
<1>5. Files(next_result) \ {Compiled.file} \subseteq Files(next_result + 1)
  BY <1>1 DEF Compiled
<1>6. next_result > Len(cc_results) => Files(next_result) = {}
  BY <1>1
<1> HIDE DEF Files
<1>7. CASE AddLink \/ AddTestLd  BY <1>3, <1>7, AddMoves
<1>8. CASE EndLinks  BY <1>3, <1>8, CompileMoves
<1>9. CASE DropUnlinked \/ EndCompiled
  <2>1. /\ stage \in {"compiles", "copies"} /\ stage' = "compiles" /\ next_result' = next_result + 1
        /\ temps' = temps \ {Compiled.file}
    BY <1>9, CompileMoves
  <2> QED  BY <1>3, <1>5, <2>1
<1>10. CASE TakeCompiled  BY <1>3, <1>10, TakeMoves
<1>11. CASE CopyCompiled  BY <1>3, <1>11, CompileMoves
<1>12. CASE EndCompiles  BY <1>3, <1>6, <1>12, CompileMoves
<1>13. CASE WriteProperties  BY <1>3, <1>13, WriteMoves
<1>14. CASE EndProperties  BY <1>3, <1>14, CompileMoves
<1> QED
  BY <1>7, <1>8, <1>9, <1>10, <1>11, <1>12, <1>13, <1>14 DEF OutputStep, NextOutput

\* What generate_output's steps keep of the work items' part.
LEMMA OutputItemsInv == ASSUME OutputStep PROVE ItemsInv'
<1>1. PhasesApart'
  BY OutputMoves, ItemsUntouched DEF OutputStep, PhasesApart
<1> QED  BY <1>1, OutputMoves, ItemsUntouched, OutputTempsOwned DEF OutputStep, IInv, ItemsInv

-----------------------------------------------------------------------------
(* The link results.                                                       *)

\* A number at the end tells a name from every name without, and from the same
\* name with another number.
LEMMA NumberedNames ==
  ASSUME NEW m, NEW n, NEW j, NEW k, IsName(m), IsName(n), IsPlain(m), IsPlain(n)
  PROVE  /\ Numbered(m, j) # n
         /\ Numbered(m, j) = Numbered(n, k) => m = n /\ j = k
<1>1. /\ m = [stem |-> m.stem, ext |-> m.ext, dups |-> <<>>]
      /\ n = [stem |-> n.stem, ext |-> n.ext, dups |-> <<>>]
  BY DEF IsName, IsPlain
<1>2. ASSUME NEW x, NEW l, x = [stem |-> x.stem, ext |-> x.ext, dups |-> <<>>]
      PROVE  /\ Numbered(x, l).stem = x.stem /\ Numbered(x, l).ext = x.ext
             /\ Numbered(x, l).dups = <<l>>
  <2>1. x.dups = <<>> /\ Append(<<>>, l) = <<l>>
    BY <1>2
  <2> QED  BY <1>2, <2>1 DEF Numbered
<1>3. n.dups = <<>> /\ Numbered(m, j).dups = <<j>> /\ Numbered(n, k).dups = <<k>>
  BY <1>1, <1>2
<1>4. <<j>> # <<>> /\ (<<j>> = <<k>> => j = k)
  OBVIOUS
<1>5. Numbered(m, j) = Numbered(n, k) => m = n
  <2>1. /\ Numbered(m, j).stem = m.stem /\ Numbered(m, j).ext = m.ext
        /\ Numbered(n, k).stem = n.stem /\ Numbered(n, k).ext = n.ext
    BY <1>1, <1>2
  <2> QED  BY <1>1, <2>1
<1> QED  BY <1>3, <1>4, <1>5

\* Every link result has its link info, and test_ld the last.
LEMMA OutputInfosNumbered == ASSUME OutputStep PROVE InfosNumbered'
<1>1. /\ InfosNumbered /\ Len(ld_results) \in Nat /\ DOMAIN ld_results = 1 .. Len(ld_results)
      /\ ld_results' = ld_results /\ next_result \in Nat \ {0}
  BY OutputMoves, ListElements DEF OutputStep, IInv, TypeOK, ListTypes, LinksInv
<1>2. CASE AddLink \/ AddTestLd
  BY <1>1, <1>2, AddMoves, AddInfos DEF InfosNumbered
<1>3. CASE EndLinks \/ DropUnlinked \/ EndCompiled \/ EndCompiles \/ EndProperties
  BY <1>1, <1>3, CompileMoves DEF InfosNumbered
<1>4. CASE TakeCompiled \/ WriteProperties
  BY <1>1, <1>4, TakeMoves, WriteMoves DEF InfosNumbered
<1>5. CASE CopyCompiled
  BY <1>1, <1>5, CopiedInfos, CompileMoves DEF InfosNumbered
<1> QED  BY <1>2, <1>3, <1>4, <1>5 DEF OutputStep, NextOutput

\* A source is looked up where its link result has put it.
LEMMA OutputInfosRight == ASSUME OutputStep PROVE InfosRight'
<1>1. /\ InfosRight /\ ld_results' = ld_results /\ \A m : Sources(m)' = Sources(m)
      /\ Len(ld_results) \in Nat /\ DOMAIN ld_results = 1 .. Len(ld_results)
  BY OutputMoves, ListElements DEF OutputStep, IInv, ListTypes, LinksInv
<1>2. SUFFICES
        /\ \A m \in DOMAIN ld_infos' :
             /\ m \in DOMAIN ld_results =>
                  \A s \in Sources(m) : s \in DOMAIN link_targets' /\ m \in link_targets'[s]
             /\ ld_infos'[m].dependencies \subseteq IF m \in DOMAIN ld_results THEN Sources(m) ELSE {}
        /\ \A s \in DOMAIN link_targets' : \A m \in link_targets'[s] :
             m \in DOMAIN ld_results => s \in Sources(m)
  BY <1>1 DEF InfosRight
<1>3. CASE AddLink \/ AddTestLd
  <2> DEFINE l == Len(ld_infos) + 1
  <2>1. /\ NewInfo(Deduplicated(Base), Needed).dependencies = Needed
        /\ ld_infos'[l] = NewInfo(Deduplicated(Base), Needed)
    BY <1>3, AddInfos DEF NewInfo
  <2>2. \/ l \in DOMAIN ld_results /\ Needed = Sources(l) /\ Keys = Sources(l)
        \/ l \notin DOMAIN ld_results /\ Needed = {}
    BY <1>1, <1>3, AddMoves, AddInfos DEF Needed, Keys
  <2>3. /\ DOMAIN link_targets' = DOMAIN link_targets \cup Keys
        /\ \A s \in DOMAIN link_targets : link_targets[s] \subseteq link_targets'[s]
        /\ \A s \in Keys : l \in link_targets'[s]
        /\ \A s \in DOMAIN link_targets' : \A m \in link_targets'[s] :
             \/ s \in DOMAIN link_targets /\ m \in link_targets[s]
             \/ m = l /\ s \in Keys
    BY <1>3, AddMoves DEF Get
  <2>4. /\ DOMAIN ld_infos' = DOMAIN ld_infos \cup {l}
        /\ \A m \in DOMAIN ld_infos : ld_infos'[m] = ld_infos[m]
    BY <1>3, AddInfos
  <2> HIDE DEF l
  <2>5. \A s \in DOMAIN link_targets' : \A m \in link_targets'[s] :
           m \in DOMAIN ld_results => s \in Sources(m)
    BY <1>1, <2>2, <2>3 DEF InfosRight
  <2>6. \A m \in DOMAIN ld_infos : m \in DOMAIN ld_results =>
           \A s \in Sources(m) : s \in DOMAIN link_targets' /\ m \in link_targets'[s]
    BY <1>1, <2>3 DEF InfosRight
  <2>7. l \in DOMAIN ld_results =>
           \A s \in Sources(l) : s \in DOMAIN link_targets' /\ l \in link_targets'[s]
    BY <2>2, <2>3
  <2>8. \A m \in DOMAIN ld_infos' :
          ld_infos'[m].dependencies \subseteq IF m \in DOMAIN ld_results THEN Sources(m) ELSE {}
    BY <1>1, <2>1, <2>2, <2>4 DEF InfosRight
  <2> QED  BY <2>4, <2>5, <2>6, <2>7, <2>8
<1>4. CASE EndLinks \/ DropUnlinked \/ EndCompiled \/ EndCompiles \/ EndProperties \/ WriteProperties
  BY <1>1, <1>4, CompileMoves, WriteMoves DEF InfosRight
<1>5. CASE TakeCompiled
  <2>1. ld_infos' = ld_infos /\ DOMAIN link_targets \subseteq DOMAIN link_targets'
    BY <1>5, TakeMoves
  <2>2. \A s \in DOMAIN link_targets' : \A m \in link_targets'[s] :
          s \in DOMAIN link_targets /\ m \in link_targets[s]
    BY <1>5, TakeMoves
  <2> QED  BY <1>1, <1>5, <2>1, <2>2, TakeMoves DEF InfosRight
<1>6. CASE CopyCompiled
  <2>1. link_targets' = link_targets
    BY <1>6, CompileMoves
  <2>2. /\ DOMAIN ld_infos' = DOMAIN ld_infos
        /\ \A m \in DOMAIN ld_infos : ld_infos'[m].dependencies \subseteq ld_infos[m].dependencies
    BY <1>6, CopiedInfos
  <2> QED  BY <1>1, <2>1, <2>2 DEF InfosRight
<1> QED  BY <1>3, <1>4, <1>5, <1>6 DEF OutputStep, NextOutput

\* A name is counted when it is given, alone or with the number it has come to.
LEMMA OutputDirsCounted == ASSUME OutputStep PROVE DirsCounted'
<1>1. /\ DirsCounted /\ ld_results' = ld_results
  BY OutputMoves DEF OutputStep, IInv, LinksInv
<1>2. CASE AddLink \/ AddTestLd
  <2>1. seen' = Put(seen, Base, Get(seen, Base, 0) + 1)
    BY <1>2, AddMoves
  <2>2. /\ DOMAIN seen' = DOMAIN seen \cup {Base}
        /\ \A name \in DOMAIN seen \ {Base} : seen'[name] = seen[name]
        /\ seen'[Base] = IF Base \in DOMAIN seen THEN seen[Base] + 1 ELSE 1
    BY <2>1 DEF Put, Get
  <2>3. \A name \in DOMAIN seen' :
          /\ seen'[name] \in Nat \ {0}
          /\ \/ \E m \in DOMAIN ld_results : name = ld_results[m].target.name
             \/ name = TestLd.name /\ stage' \notin {"links", "test_ld"}
    <3>1. \/ \E m \in DOMAIN ld_results : Base = ld_results[m].target.name
          \/ Base = TestLd.name /\ stage' \notin {"links", "test_ld"}
      BY <1>2, AddMoves DEF Base
    <3> QED  BY <1>1, <1>2, <2>2, <3>1, AddMoves DEF DirsCounted
  <2>4. \A m \in DOMAIN ld_infos : \E name \in DOMAIN seen' :
          \/ ld_infos[m].dir = name
          \/ \E k \in 1 .. seen'[name] - 1 : ld_infos[m].dir = Numbered(name, k)
    <3>1. \A name \in DOMAIN seen : /\ name \in DOMAIN seen'
                                    /\ \A k \in 1 .. seen[name] - 1 : k \in 1 .. seen'[name] - 1
      BY <1>1, <2>2 DEF DirsCounted
    <3> QED  BY <1>1, <3>1 DEF DirsCounted
  <2>5. \/ Deduplicated(Base) = Base /\ Base \in DOMAIN seen'
        \/ \E k \in 1 .. seen'[Base] - 1 : Deduplicated(Base) = Numbered(Base, k)
    <3>1. CASE Base \in DOMAIN seen
      <4>1. seen[Base] \in 1 .. seen'[Base] - 1
        BY <1>1, <2>2, <3>1 DEF DirsCounted
      <4> QED  BY <3>1, <4>1 DEF Deduplicated
    <3>2. CASE Base \notin DOMAIN seen
      BY <2>2, <3>2 DEF Deduplicated
    <3> QED  BY <3>1, <3>2
  <2>6. /\ DOMAIN ld_infos' = DOMAIN ld_infos \cup {Len(ld_infos) + 1}
        /\ \A m \in DOMAIN ld_infos : ld_infos'[m] = ld_infos[m]
        /\ ld_infos'[Len(ld_infos) + 1].dir = Deduplicated(Base)
    BY <1>2, AddInfos DEF NewInfo
  <2>7. \A m \in DOMAIN ld_infos' : \E name \in DOMAIN seen' :
          \/ ld_infos'[m].dir = name
          \/ \E k \in 1 .. seen'[name] - 1 : ld_infos'[m].dir = Numbered(name, k)
    BY <2>2, <2>4, <2>5, <2>6
  <2> QED  BY <1>1, <2>3, <2>7 DEF DirsCounted
<1>3. CASE EndLinks \/ DropUnlinked \/ EndCompiled \/ EndCompiles \/ EndProperties \/ WriteProperties \/ TakeCompiled
  <2>1. /\ UNCHANGED <<seen, ld_infos>>
        /\ stage \notin {"links", "test_ld"} => stage' \notin {"links", "test_ld"}
    BY <1>3, CompileMoves, WriteMoves, TakeMoves
  <2> QED  BY <1>1, <2>1 DEF DirsCounted
<1>4. CASE CopyCompiled
  <2>1. seen' = seen /\ stage' = stage
    BY <1>4, CompileMoves
  <2>2. /\ DOMAIN ld_infos' = DOMAIN ld_infos
        /\ \A m \in DOMAIN ld_infos : ld_infos'[m].dir = ld_infos[m].dir
    BY <1>4, CopiedInfos
  <2> QED  BY <1>1, <2>1, <2>2 DEF DirsCounted
<1> QED  BY <1>2, <1>3, <1>4 DEF OutputStep, NextOutput

\* Neither a file nor, among targets without numbers of their own, a directory
\* is given twice.
LEMMA OutputArchivePathsDistinct == ASSUME OutputStep PROVE ArchivePathsDistinct'
<1>1. ArchivePathsDistinct /\ DirsCounted /\ ld_results' = ld_results /\ IsFiniteSet(pp_files)
  BY OutputMoves DEF OutputStep, IInv, LinksInv, ListTypes
<1>2. CASE AddLink \/ AddTestLd
  <2>1. FilesDistinct'
    BY <1>1, <1>2, AddMoves DEF ArchivePathsDistinct, FilesDistinct
  <2>2. ASSUME \A n \in DOMAIN ld_results : IsPlain(ld_results[n].target.name)
        PROVE  \A m, n \in DOMAIN ld_infos' : ld_infos'[m].dir = ld_infos'[n].dir => m = n
    <3> DEFINE Proper(name) == IsName(name) /\ IsPlain(name)
               d == Deduplicated(Base)
               l == Len(ld_infos) + 1
    <3>1. Proper(TestLd.name)
      BY DEF TestLd, File, Name, IsName, IsPlain
    <3>2. \A name \in DOMAIN seen : Proper(name) /\ seen[name] \in Nat \ {0}
      BY <1>1, <2>2, <3>1 DEF DirsCounted
    <3>3. Proper(Base)
      BY <1>1, <1>2, <2>2, <3>1, AddMoves DEF DirsCounted, Base
    <3>4. \A m, n \in DOMAIN ld_infos : ld_infos[m].dir = ld_infos[n].dir => m = n
      BY <1>1, <2>2 DEF ArchivePathsDistinct, DirsDistinct
    <3>5. /\ DOMAIN ld_infos' = DOMAIN ld_infos \cup {l}
          /\ \A m \in DOMAIN ld_infos : ld_infos'[m] = ld_infos[m]
          /\ ld_infos'[l].dir = d
      BY <1>2, AddInfos DEF NewInfo
    <3>6. ASSUME NEW m \in DOMAIN ld_infos PROVE ld_infos[m].dir # d
      <4>1. PICK name \in DOMAIN seen :
              \/ ld_infos[m].dir = name
              \/ \E k \in 1 .. seen[name] - 1 : ld_infos[m].dir = Numbered(name, k)
        BY <1>1 DEF DirsCounted
      <4>2. CASE Base \in DOMAIN seen
        <5>1. d = Numbered(Base, seen[Base])
          BY <4>2 DEF Deduplicated
        <5>2. CASE ld_infos[m].dir = name
          BY <3>2, <3>3, <5>1, <5>2, NumberedNames
        <5>3. ASSUME NEW k \in 1 .. seen[name] - 1, ld_infos[m].dir = Numbered(name, k)
              PROVE  ld_infos[m].dir # d
          <6> SUFFICES ASSUME Numbered(name, k) = Numbered(Base, seen[Base]) PROVE FALSE
            BY <5>1, <5>3
          <6>1. name = Base /\ k = seen[Base]
            <7> HIDE DEF Proper
            <7>1. Proper(name) /\ Proper(Base)
              BY <3>2, <3>3
            <7> QED  BY <7>1, NumberedNames DEF Proper
          <6> QED  BY <3>2, <6>1
        <5> QED  BY <4>1, <5>2, <5>3
      <4>3. CASE Base \notin DOMAIN seen
        <5>1. d = Base
          BY <4>3 DEF Deduplicated
        <5>2. \A k : Numbered(name, k) # Base
          BY <3>2, <3>3, NumberedNames
        <5> QED  BY <4>1, <4>3, <5>1, <5>2
      <4> QED  BY <4>2, <4>3
    <3> HIDE DEF d, l
    <3> QED  BY <3>4, <3>5, <3>6
  <2> QED  BY <1>1, <2>1, <2>2 DEF ArchivePathsDistinct, DirsDistinct
<1>3. CASE EndLinks \/ DropUnlinked \/ EndCompiled \/ EndCompiles \/ EndProperties \/ WriteProperties \/ TakeCompiled
  <2>1. UNCHANGED <<pp_files, ld_infos>>
    BY <1>3, CompileMoves, WriteMoves, TakeMoves
  <2> QED  BY <1>1, <2>1 DEF ArchivePathsDistinct, FilesDistinct, DirsDistinct
<1>4. CASE CopyCompiled
  <2>1. PICK info \in to_copy : CopiedInto(info)
    BY <1>4, CopyMoves
  <2> DEFINE p == <<ld_infos[info].dir, Compiled.source.name, Compiled.lang,
                    FreshNumber(ld_infos[info].dir, Compiled)>>
  <2>2. \A f \in pp_files : f.path # p
    BY <1>1, FreshNumberFresh
  <2>3. pp_files' = pp_files \cup {[path |-> p, file |-> Compiled.file]}
    BY <2>1 DEF CopiedInto
  <2> HIDE DEF p
  <2>4. FilesDistinct'
    BY <1>1, <2>2, <2>3 DEF ArchivePathsDistinct, FilesDistinct
  <2>5. DirsDistinct'
    BY <1>1, <1>4, CopiedInfos DEF ArchivePathsDistinct, DirsDistinct
  <2> QED  BY <2>4, <2>5 DEF ArchivePathsDistinct
<1> QED  BY <1>2, <1>3, <1>4 DEF OutputStep, NextOutput

\* What generate_output's steps keep of the link results' part.
LEMMA OutputLinksInv == ASSUME OutputStep PROVE LinksInv'
BY OutputInfosNumbered, OutputInfosRight, OutputDirsCounted, OutputArchivePathsDistinct DEF LinksInv

-----------------------------------------------------------------------------
(* The property files.                                                     *)

\* A property file has what is left of its link info, and the infos are final.
LEMMA OutputPropertiesInv == ASSUME OutputStep PROVE PropertiesInv'
<1>1. /\ PropertiesInv /\ Len(ld_infos) \in Nat /\ next_result \in Nat \ {0}
      /\ Len(properties) \in Nat /\ DOMAIN properties = 1 .. Len(properties)
  BY ListElements DEF OutputStep, IInv, TypeOK, ListTypes
<1>2. CASE AddLink \/ AddTestLd
  <2>1. stage \notin {"properties", "written"} /\ stage' \notin {"properties", "written"}
        /\ properties' = properties
    BY <1>2, AddMoves
  <2>2. properties' = <<>>
    BY <1>1, <2>1 DEF PropertiesInv
  <2> QED  BY <2>1, <2>2, EmptyList DEF PropertiesInv
<1>3. CASE EndLinks \/ DropUnlinked \/ EndCompiled \/ TakeCompiled \/ CopyCompiled
  <2>1. stage \notin {"properties", "written"} /\ stage' \notin {"properties", "written"}
        /\ properties' = properties
    BY <1>3, CompileMoves, TakeMoves
  <2>2. properties' = <<>>
    BY <1>1, <2>1 DEF PropertiesInv
  <2> QED  BY <2>1, <2>2, EmptyList DEF PropertiesInv
<1>4. CASE EndCompiles
  <2>1. stage = "compiles" /\ stage' = "properties" /\ next_result' = 1
        /\ UNCHANGED <<ld_infos, properties>>
    BY <1>4, CompileMoves
  <2>2. properties = <<>>
    BY <1>1, <2>1 DEF PropertiesInv
  <2> QED  BY <1>1, <2>1, <2>2, EmptyList DEF PropertiesInv
<1>5. CASE WriteProperties
  <2> DEFINE l == Len(properties) + 1
  <2>1. /\ next_result = l /\ l <= Len(ld_infos) /\ ld_infos' = ld_infos
        /\ stage' = "properties" /\ next_result' = next_result + 1
        /\ Len(properties') = l
    BY <1>1, <1>5, WriteMoves DEF PropertiesInv
  <2>2. /\ \A p \in DOMAIN properties : properties'[p] = properties[p]
        /\ \A p \in DOMAIN properties' : p \in DOMAIN properties \/ p = l
        /\ properties'[l].paths \subseteq ld_infos[l].dependencies
        /\ properties'[l].scan_options = ld_infos[l].scan_options
    BY <1>5, <2>1, WriteMoves
  <2>3. \A p \in DOMAIN properties' :
          /\ properties'[p].paths \subseteq ld_infos[p].dependencies
          /\ properties'[p].scan_options = ld_infos[p].scan_options
    <3> HIDE DEF l
    <3> QED  BY <1>1, <2>2 DEF PropertiesInv
  <2> QED  BY <1>1, <2>1, <2>3 DEF PropertiesInv
<1>6. CASE EndProperties
  <2>1. stage = "properties" /\ stage' = "written" /\ next_result > Len(ld_infos)
        /\ UNCHANGED <<ld_infos, properties>>
    BY <1>6, CompileMoves
  <2>2. Len(properties) = Len(ld_infos)
    BY <1>1, <2>1 DEF PropertiesInv
  <2> QED  BY <1>1, <2>1, <2>2 DEF PropertiesInv
<1> QED  BY <1>2, <1>3, <1>4, <1>5, <1>6 DEF OutputStep, NextOutput

-----------------------------------------------------------------------------
(* The compile results.                                                    *)

\* The sources of a link, seen through the assembler results, are full paths.
LEMMA SourceDirs ==
  ASSUME IInv, NEW m \in DOMAIN ld_results, NEW s \in Sources(m)
  PROVE  s.dir # ""
<1>1. SourcesPlaced /\ Len(as_results) \in Nat /\ DOMAIN as_results = 1 .. Len(as_results)
  BY ListElements DEF IInv, ItemsInv, ListTypes
<1>2. PICK t \in ToSet(ld_results[m].sources) : s = Actual(t)
  BY DEF Sources, LinkSources
<1>3. CASE t \in Assembled
  <2> DEFINE Mine == {n \in DOMAIN as_results : as_results[n].target = t}
  <2>1. Mine \in SUBSET (0 .. Len(as_results)) /\ Mine # {}
    BY <1>1, <1>3 DEF Assembled
  <2>2. \E g \in Mine : \A k \in Mine : k <= g
    <3> HIDE DEF Mine
    <3> QED  BY <1>1, <2>1, GreatestExists
  <2>3. \E g \in DOMAIN as_results : /\ as_results[g].target = t
                                     /\ \A k \in DOMAIN as_results : as_results[k].target = t => k <= g
    BY <2>2
  <2>4. PICK g \in DOMAIN as_results : AsSource(t) = as_results[g].source
    BY <2>3 DEF AsSource
  <2> QED  BY <1>1, <1>2, <1>3, <2>4 DEF Actual, SourcesPlaced
<1>4. CASE t \notin Assembled
  BY <1>1, <1>2, <1>4 DEF Actual, SourcesPlaced
<1> QED  BY <1>3, <1>4

\* After the link results, what a link consumes is looked up for its link info.
LEMMA ConsumedListed ==
  ASSUME IInv, stage \notin {"links", "test_ld"},
         NEW n \in DOMAIN cc_results, NEW m \in DOMAIN ld_results, Consumes(m, n)
  PROVE  /\ m \in DOMAIN ld_infos
         /\ cc_results[n].target \in DOMAIN link_targets
         /\ m \in link_targets[cc_results[n].target]
<1>1. m \in DOMAIN ld_infos
  <2>1. Len(ld_results) <= Len(ld_infos) /\ IsList(ld_results) /\ IsList(ld_infos)
    BY DEF IInv, LinksInv, InfosNumbered, ListTypes
  <2> QED  BY <2>1, ListElements
<1> QED  BY <1>1 DEF IInv, LinksInv, InfosRight, Consumes

\* A link info is to get a copy only of what its link result consumes.
LEMMA OutputCopyRight == ASSUME OutputStep PROVE CopyRight'
<1>1. CopyRight /\ UNCHANGED <<cc_results, ld_results>> /\ \A m : Sources(m)' = Sources(m)
  BY OutputMoves DEF OutputStep, IInv, CompilesInv
<1>2. CASE AddLink \/ AddTestLd
  BY <1>1, <1>2, AddMoves DEF CopyRight
<1>3. CASE EndLinks \/ DropUnlinked \/ EndCompiled \/ EndCompiles \/ EndProperties \/ WriteProperties
  BY <1>1, <1>3, CompileMoves, WriteMoves DEF CopyRight
<1>4. CASE TakeCompiled
  <2>1. /\ stage' = "copies" /\ next_result' = next_result /\ next_result <= Len(cc_results)
        /\ stage = "compiles"
    BY <1>4, TakeMoves
  <2>2. ASSUME NEW m \in to_copy', m \in DOMAIN ld_results PROVE Compiled.target \in Sources(m)
    <3>1. Key \in DOMAIN link_targets /\ m \in link_targets[Key]
      BY <1>4, <2>2, TakeMoves
    <3>2. Key \in Sources(m)
      BY <2>2, <3>1 DEF OutputStep, IInv, LinksInv, InfosRight
    <3>3. Key # TestLd
      <4>1. Key.dir # ""
        BY <2>2, <3>2, SourceDirs DEF OutputStep
      <4>2. TestLd.dir = ""
        BY DEF TestLd, File
      <4> QED  BY <4>1, <4>2
    <3> QED  BY <3>2, <3>3 DEF Key
  <2> QED  BY <1>1, <2>1, <2>2 DEF CopyRight, Consumes, Compiled
<1>5. CASE CopyCompiled
  <2>1. to_copy' \subseteq to_copy /\ UNCHANGED <<next_result, stage>> /\ stage = "copies"
    BY <1>5, CompileMoves, CopiedInfos
  <2> QED  BY <1>1, <2>1 DEF CopyRight, Consumes
<1> QED  BY <1>2, <1>3, <1>4, <1>5 DEF OutputStep, NextOutput

\* Which of the compile results a link consumes it has got: a copy adds one, and
\* no other step does.
LEMMA HandledMoves ==
  ASSUME OutputStep, NEW n \in DOMAIN cc_results, NEW m \in DOMAIN ld_results, Consumes(m, n)
  PROVE  /\ stage' \in {"links", "test_ld"} \/ AddTestLd => ~Handled(n, m)'
         /\ ~CopyCompiled => (Handled(n, m)' <=> Handled(n, m))
         /\ \A info \in to_copy : CopyCompiled /\ CopiedInto(info) =>
              (Handled(n, m)' <=> Handled(n, m) \/ (n = next_result /\ m = info))
<1>1. /\ n \in Nat \ {0} /\ next_result \in Nat \ {0}
      /\ n <= Len(cc_results) /\ Len(cc_results) \in Nat
  BY CompileMoves DEF OutputStep
<1>2. CopyRight
  BY DEF OutputStep, IInv, CompilesInv
<1> USE DEF Handled, AfterCompiles, AtCompiles
<1>3. CASE AddLink \/ AddTestLd \/ EndLinks
  <2>1. stage \in {"links", "test_ld"} /\ (stage' \in {"links", "test_ld"} \/ next_result' = 1)
        /\ stage' \in {"links", "test_ld", "compiles"}
        /\ (AddTestLd => next_result' = 1 /\ stage' = "compiles")
    <3>1. AddTestLd => stage = "test_ld"
      BY DEF AddTestLd
    <3> QED  BY <1>3, <3>1, AddMoves, CompileMoves
  <2>2. ~CopyCompiled
    BY <2>1, CompileMoves
  <2> QED  BY <1>1, <2>1, <2>2
<1>4. CASE DropUnlinked
  <2>1. /\ stage = "compiles" /\ stage' = "compiles" /\ next_result' = next_result + 1
        /\ Compiled.target \notin DOMAIN link_targets
    BY <1>4, CompileMoves
  <2>2. n # next_result
    BY <2>1, ConsumedListed DEF OutputStep, Compiled
  <2> QED  BY <1>1, <2>1, <2>2, CompileMoves DEF AddTestLd
<1>5. CASE TakeCompiled
  <2>1. /\ stage = "compiles" /\ stage' = "copies" /\ next_result' = next_result
    BY <1>5, TakeMoves
  <2>2. n = next_result => m \in to_copy'
    BY <1>5, <2>1, TakeMoves, ConsumedListed DEF OutputStep, Compiled, Key
  <2> QED  BY <1>1, <2>1, <2>2, CompileMoves DEF AddTestLd
<1>6. CASE CopyCompiled
  <2>1. stage = "copies" /\ stage' = "copies" /\ next_result' = next_result
    BY <1>6, CompileMoves
  <2> QED  BY <1>1, <1>6, <2>1 DEF CopiedInto, AddTestLd
<1>7. CASE EndCompiled \/ EndCompiles \/ WriteProperties \/ EndProperties
  BY <1>1, <1>7, CompileMoves, WriteMoves DEF AddTestLd
<1> QED  BY <1>3, <1>4, <1>5, <1>6, <1>7 DEF OutputStep, NextOutput

\* A copy brings the file and strikes the target off; nothing undoes it.
LEMMA OutputUnitsHandled == ASSUME OutputStep PROVE UnitsHandled'
<1>1. UnitsHandled /\ UNCHANGED <<cc_results, ld_results>> /\ \A m : Sources(m)' = Sources(m)
  BY OutputMoves DEF OutputStep, IInv, CompilesInv
<1>2. SUFFICES ASSUME NEW n \in DOMAIN cc_results, NEW m \in DOMAIN ld_results,
                      Handled(n, m)', Consumes(m, n)
               PROVE  /\ \E f \in pp_files' : f.path[1] = ld_infos'[m].dir /\ f.file = cc_results[n].file
                      /\ cc_results[n].target \notin ld_infos'[m].dependencies
  BY <1>1 DEF UnitsHandled, Consumes
<1>3. CASE ~CopyCompiled
  <2>1. Handled(n, m) /\ stage' \notin {"links", "test_ld"} /\ ~AddTestLd
    BY <1>2, <1>3, HandledMoves
  <2>2. UNCHANGED <<ld_infos, pp_files>>
    <3>1. ~AddLink
      BY <2>1, AddMoves
    <3> QED  BY <1>3, <2>1, <3>1, CompileMoves, TakeMoves, WriteMoves DEF OutputStep, NextOutput
  <2> QED  BY <1>1, <1>2, <2>1, <2>2 DEF UnitsHandled
<1>4. CASE CopyCompiled
  <2>1. PICK info \in to_copy : CopiedInto(info)
    BY <1>4, CopyMoves
  <2>2. Handled(n, m) \/ (n = next_result /\ m = info)
    BY <1>2, <1>4, <2>1, HandledMoves
  <2>3. m \in DOMAIN ld_infos
    <3>1. stage \notin {"links", "test_ld"}
      BY <1>4, CompileMoves
    <3> QED  BY <1>2, <3>1, ConsumedListed DEF OutputStep
  <2>4. CASE Handled(n, m)
    BY <1>1, <1>2, <1>4, <2>3, <2>4, CopiedInfos DEF UnitsHandled
  <2>5. CASE n = next_result /\ m = info
    <3> DEFINE f == [path |-> <<ld_infos[info].dir, Compiled.source.name, Compiled.lang,
                                FreshNumber(ld_infos[info].dir, Compiled)>>,
                     file |-> Compiled.file]
    <3>1. f \in pp_files' /\ f.path[1] = ld_infos[m].dir /\ f.file = cc_results[n].file
      BY <2>1, <2>5 DEF CopiedInto, Compiled
    <3>2. ld_infos'[m].dir = ld_infos[m].dir
      BY <1>4, <2>3, CopiedInfos
    <3>3. cc_results[n].target \notin ld_infos'[m].dependencies
      BY <2>1, <2>5 DEF CopiedInto, Compiled
    <3> QED  BY <3>1, <3>2, <3>3
  <2> QED  BY <2>2, <2>4, <2>5
<1> QED  BY <1>3, <1>4

\* The scan options are set by the first copy of a language, and by no later one.
LEMMA OutputOptionsHandled == ASSUME OutputStep PROVE OptionsHandled'
<1> DEFINE Mine(m, lang) == {n \in DOMAIN cc_results :
                               Handled(n, m) /\ Consumes(m, n) /\ cc_results[n].lang = lang}
           MineNow(m, lang) == {n \in DOMAIN cc_results :
                                  Handled(n, m)' /\ Consumes(m, n) /\ cc_results[n].lang = lang}
           Right(opts, mine, lang) ==
             IF lang \in DOMAIN opts
             THEN \E n \in mine : opts[lang] = cc_results[n].options /\ \A k \in mine : n <= k
             ELSE mine = {}
<1>1. UNCHANGED <<cc_results, ld_results>> /\ \A m : Sources(m)' = Sources(m)
  BY OutputMoves
<1>2. /\ stage \in {"links", "test_ld"} => \A m \in DOMAIN ld_infos : ld_infos[m].scan_options = <<>>
      /\ \A m \in DOMAIN ld_results \cap DOMAIN ld_infos, lang \in Languages :
           Right(ld_infos[m].scan_options, Mine(m, lang), lang)
  BY DEF OutputStep, IInv, CompilesInv, OptionsHandled
<1>3. SUFFICES
        /\ stage' \in {"links", "test_ld"} => \A m \in DOMAIN ld_infos' : ld_infos'[m].scan_options = <<>>
        /\ \A m \in DOMAIN ld_results \cap DOMAIN ld_infos', lang \in Languages :
             Right(ld_infos'[m].scan_options, MineNow(m, lang), lang)
  BY <1>1 DEF OptionsHandled, Consumes
<1>4. CASE AddLink \/ AddTestLd
  <2>1. \A m \in DOMAIN ld_infos' : ld_infos'[m].scan_options = <<>>
    <3>1. NewInfo(Deduplicated(Base), Needed).scan_options = <<>>
      BY DEF NewInfo
    <3>2. stage \in {"links", "test_ld"}
      BY <1>4, AddMoves
    <3> QED  BY <1>2, <1>4, <3>1, <3>2, AddInfos
  <2>2. \A lang : \A m \in DOMAIN ld_results : MineNow(m, lang) = {}
    BY <1>4, HandledMoves, AddMoves
  <2>3. ASSUME NEW m \in DOMAIN ld_results \cap DOMAIN ld_infos', NEW lang \in Languages
        PROVE  Right(ld_infos'[m].scan_options, MineNow(m, lang), lang)
    <3>1. lang \notin DOMAIN ld_infos'[m].scan_options
      BY <2>1, EmptyList
    <3> QED  BY <2>2, <3>1
  <2> QED  BY <2>1, <2>3
<1>5. CASE ~(AddLink \/ AddTestLd \/ CopyCompiled)
  <2>1. \A lang : \A m \in DOMAIN ld_results : MineNow(m, lang) = Mine(m, lang)
    BY <1>5, HandledMoves
  <2>2. ld_infos' = ld_infos /\ (stage' \in {"links", "test_ld"} => stage \in {"links", "test_ld"})
    BY <1>5, CompileMoves, TakeMoves, WriteMoves DEF OutputStep, NextOutput
  <2> HIDE DEF Mine, MineNow
  <2> QED  BY <1>2, <2>1, <2>2
<1>6. CASE CopyCompiled
  <2>1. PICK info \in to_copy : CopiedInto(info)
    BY <1>6, CopyMoves
  <2>2. /\ stage = "copies" /\ stage' = "copies" /\ next_result \in DOMAIN cc_results
        /\ DOMAIN ld_infos' = DOMAIN ld_infos
    BY <1>6, CompileMoves, CopiedInfos
  <2>3. ASSUME NEW m \in DOMAIN ld_results \cap DOMAIN ld_infos, NEW lang \in Languages, m # info
        PROVE  Right(ld_infos'[m].scan_options, MineNow(m, lang), lang)
    <3>1. MineNow(m, lang) = Mine(m, lang)
      BY <1>6, <2>1, <2>3, HandledMoves
    <3>2. ld_infos'[m] = ld_infos[m]
      BY <2>1, <2>3 DEF CopiedInto
    <3> HIDE DEF Mine, MineNow, Right
    <3> QED  BY <1>2, <3>1, <3>2
  <2>4. ASSUME info \in DOMAIN ld_results \cap DOMAIN ld_infos, NEW lang \in Languages
        PROVE  Right(ld_infos'[info].scan_options, MineNow(info, lang), lang)
    <3> DEFINE opts == ld_infos[info].scan_options
               new == ScanOptions(opts, Compiled)
    <3>1. ld_infos'[info].scan_options = new
      BY <2>1 DEF CopiedInto
    <3>2. Right(opts, Mine(info, lang), lang)
      BY <1>2, <2>4
    <3>3. Consumes(info, next_result)
      BY <2>1, <2>4 DEF OutputStep, IInv, CompilesInv, CopyRight
    <3>4. \A n \in DOMAIN cc_results : Consumes(info, n) =>
            (Handled(n, info)' <=> Handled(n, info) \/ n = next_result)
      BY <1>6, <2>1, <2>4, HandledMoves
    <3>7. /\ DOMAIN new = DOMAIN opts \cup {Compiled.lang}
          /\ \A k \in DOMAIN opts : new[k] = opts[k]
          /\ Compiled.lang \notin DOMAIN opts => new[Compiled.lang] = Compiled.options
      <4> HIDE DEF opts
      <4>1. new = Insert(opts, Compiled.lang, Compiled.options)
        BY DEF ScanOptions
      <4> HIDE DEF new
      <4> QED  BY <4>1 DEF Insert, Put
    <3>5. CASE Compiled.lang # lang
      <4>1. MineNow(info, lang) = Mine(info, lang)
        BY <3>4, <3>5 DEF Compiled
      <4>2. /\ lang \in DOMAIN new <=> lang \in DOMAIN opts
            /\ lang \in DOMAIN opts => new[lang] = opts[lang]
        <5> HIDE DEF opts, new
        <5> QED  BY <3>5, <3>7
      <4> HIDE DEF Mine, MineNow, opts, new
      <4> QED  BY <3>1, <3>2, <4>1, <4>2
    <3>6. CASE Compiled.lang = lang
      <4>1. MineNow(info, lang) = Mine(info, lang) \cup {next_result}
        BY <2>2, <3>3, <3>4, <3>6 DEF Compiled
      <4>2. \A n \in Mine(info, lang) : n < next_result
        BY <2>1, <2>2 DEF Handled, AfterCompiles, AtCompiles
      <4>3. lang \in DOMAIN new
        <5> HIDE DEF opts, new
        <5> QED  BY <3>6, <3>7
      <4>4. CASE lang \in DOMAIN opts
        <5>1. new[lang] = opts[lang]
          <6> HIDE DEF opts, new
          <6> QED  BY <4>4, <3>7
        <5>2. PICK n \in Mine(info, lang) : /\ opts[lang] = cc_results[n].options
                                            /\ \A k \in Mine(info, lang) : n <= k
          BY <3>2, <4>4
        <5>3. n <= next_result
          <6>1. n \in Nat /\ next_result \in Nat
            BY CompileMoves
          <6> QED  BY <4>2, <6>1
        <5> HIDE DEF Mine, MineNow, opts, new
        <5> QED  BY <3>1, <4>1, <4>3, <5>1, <5>2, <5>3
      <4>5. CASE lang \notin DOMAIN opts
        <5>1. Mine(info, lang) = {}
          BY <3>2, <4>5
        <5>2. new[lang] = cc_results[next_result].options
          <6> HIDE DEF opts, new
          <6> QED  BY <3>6, <3>7, <4>5 DEF Compiled
        <5>3. next_result <= next_result
          BY CompileMoves
        <5> HIDE DEF Mine, MineNow, opts, new
        <5> QED  BY <3>1, <4>1, <4>3, <5>1, <5>2, <5>3
      <4> QED  BY <4>4, <4>5
    <3> QED  BY <3>5, <3>6
  <2> HIDE DEF MineNow, Right
  <2> QED  BY <2>2, <2>3, <2>4
<1> QED  BY <1>4, <1>5, <1>6

\* With --process_link_using_compiler test_ld is the last link info, and no compile
\* result is looked up in vain.
LEMMA OutputAllConsumed == ASSUME OutputStep PROVE AllConsumed'
<1> DEFINE Done(n) == \/ AfterCompiles
                      \/ AtCompiles /\ n < next_result
                      \/ stage = "copies" /\ n = next_result /\ to_copy = {}
           InArchive(n) == \E f \in pp_files : f.file = cc_results[n].file
<1>1. /\ UNCHANGED <<cc_results, ld_results, need_process_link_using_compiler>>
      /\ NoTestLd' = NoTestLd
  BY OutputMoves DEF NoTestLd
<1>2. SUFFICES ASSUME NoTestLd
               PROVE  /\ \A s \in DOMAIN link_targets' : link_targets'[s] # {}
                      /\ stage' \notin {"links", "test_ld"} => TestLd \in DOMAIN link_targets'
                      /\ \A n \in DOMAIN cc_results : Done(n)' => InArchive(n)'
  BY <1>1 DEF AllConsumed
<1>3. /\ \A s \in DOMAIN link_targets : link_targets[s] # {}
      /\ stage \notin {"links", "test_ld"} => TestLd \in DOMAIN link_targets
      /\ \A n \in DOMAIN cc_results : Done(n) => InArchive(n)
  BY <1>2 DEF OutputStep, IInv, CompilesInv, AllConsumed
<1>4. \A n \in DOMAIN cc_results : n \in Nat \ {0} /\ n <= Len(cc_results)
  BY CompileMoves
<1>5. next_result \in Nat \ {0} /\ Len(cc_results) \in Nat
  BY CompileMoves
<1> USE DEF AfterCompiles, AtCompiles
<1>6. CASE AddLink \/ AddTestLd
  <2>1. \A s \in DOMAIN link_targets' : link_targets'[s] # {}
    <3>1. link_targets' = [s \in DOMAIN link_targets \cup Keys |->
            Get(link_targets, s, {}) \cup (IF s \in Keys THEN {Len(ld_infos) + 1} ELSE {})]
      BY <1>6, AddMoves
    <3> QED  BY <1>3, <3>1 DEF Get
  <2>2. stage' \notin {"links", "test_ld"} => TestLd \in DOMAIN link_targets'
    <3> SUFFICES ASSUME stage' \notin {"links", "test_ld"} PROVE TestLd \in DOMAIN link_targets'
      OBVIOUS
    <3>1. stage = "test_ld" /\ DOMAIN link_targets' = DOMAIN link_targets \cup Keys
      BY <1>6, AddMoves
    <3>2. TestLd.name \notin DOMAIN seen
      BY <1>2, <3>1 DEF OutputStep, IInv, LinksInv, DirsCounted, NoTestLd
    <3>3. [TestLd EXCEPT !.name = TestLd.name] = TestLd
      BY DEF TestLd, File
    <3>4. Keys = {TestLd}
      BY <3>1, <3>2, <3>3 DEF Keys, Deduplicated
    <3> QED  BY <3>1, <3>4
  <2>3. \A n \in DOMAIN cc_results : ~Done(n)'
    BY <1>4, <1>6, AddMoves
  <2> QED  BY <2>1, <2>2, <2>3
<1>7. CASE EndLinks
  <2>1. stage' = "test_ld" /\ link_targets' = link_targets
    BY <1>2, <1>7, CompileMoves DEF NoTestLd
  <2> QED  BY <1>3, <2>1
<1>8. CASE DropUnlinked
  BY <1>2, <1>8, CompileMoves DEF NoTestLd
<1>9. CASE TakeCompiled
  <2>1. Key \in DOMAIN link_targets
    BY <1>3, <1>9, TakeMoves DEF Key
  <2>2. /\ link_targets[Key] # {} /\ to_copy' = link_targets[Key]
        /\ DOMAIN link_targets' = DOMAIN link_targets
        /\ \A s \in DOMAIN link_targets : link_targets'[s] = link_targets[s]
    BY <1>3, <1>9, <2>1, TakeMoves
  <2>3. stage = "compiles" /\ stage' = "copies" /\ UNCHANGED <<next_result, pp_files>>
    BY <1>9, TakeMoves
  <2>4. \A n \in DOMAIN cc_results : Done(n)' => Done(n)
    BY <2>2, <2>3
  <2>5. \A n \in DOMAIN cc_results : InArchive(n) => InArchive(n)'
    BY <1>1, <2>3
  <2> QED  BY <1>3, <2>2, <2>3, <2>4, <2>5
<1>10. CASE CopyCompiled
  <2>1. PICK info \in to_copy : CopiedInto(info)
    BY <1>10, CopyMoves
  <2>2. stage = "copies" /\ stage' = "copies" /\ UNCHANGED <<next_result, link_targets>>
    BY <1>10, CompileMoves
  <2>3. pp_files \subseteq pp_files' /\ InArchive(next_result)'
    <3>1. \E f \in pp_files' : f.file = Compiled.file
      <4> DEFINE f == [path |-> <<ld_infos[info].dir, Compiled.source.name, Compiled.lang,
                                  FreshNumber(ld_infos[info].dir, Compiled)>>,
                       file |-> Compiled.file]
      <4>1. f \in pp_files' /\ f.file = Compiled.file
        BY <2>1 DEF CopiedInto
      <4> QED  BY <4>1
    <3>2. pp_files \subseteq pp_files'
      BY <2>1 DEF CopiedInto
    <3> QED  BY <1>1, <2>2, <3>1, <3>2 DEF Compiled
  <2>4. \A n \in DOMAIN cc_results : Done(n)' => Done(n) \/ n = next_result
    BY <2>2
  <2> QED  BY <1>1, <1>3, <2>2, <2>3, <2>4
<1>11. CASE EndCompiled \/ EndCompiles \/ WriteProperties \/ EndProperties
  <2>1. /\ UNCHANGED <<link_targets, pp_files>>
        /\ stage \notin {"links", "test_ld"}
    BY <1>11, CompileMoves, WriteMoves
  <2>2. \A n \in DOMAIN cc_results : Done(n)' => Done(n)
    BY <1>4, <1>5, <1>11, CompileMoves, WriteMoves
  <2>3. \A n \in DOMAIN cc_results : InArchive(n) => InArchive(n)'
    BY <1>1, <2>1
  <2> QED  BY <1>3, <2>1, <2>2, <2>3
<1> QED  BY <1>6, <1>7, <1>8, <1>9, <1>10, <1>11 DEF OutputStep, NextOutput

\* What generate_output's steps keep: every part.
LEMMA OutputIInv == ASSUME OutputStep PROVE IInv'
<1>1. CompilesInv'
  BY OutputCopyRight, OutputUnitsHandled, OutputOptionsHandled, OutputAllConsumed DEF CompilesInv
<1> QED
  BY <1>1, OutputTypeOK, OutputListTypes, OutputItemsInv, OutputLinksInv, OutputPropertiesInv DEF IInv

-----------------------------------------------------------------------------
(* The other steps.                                                        *)

\* While the items are worked on, nothing of the output is there.
LEMMA ItemOutput ==
  ASSUME NEW i \in Items, ItemStep(i)
  PROVE  /\ UNCHANGED <<stage, next_result, seen, dependency_names, ld_infos, link_targets,
                        to_copy, pp_files, properties, source_files>>
         /\ stage = "links" /\ next_result = 1 /\ seen = <<>> /\ ld_infos = <<>>
         /\ link_targets = <<>> /\ pp_files = {} /\ to_copy = {} /\ properties = <<>>
<1>1. OutputUntouched
  BY DEF ItemStep, IInv, ItemsInv, PhasesApart
<1>2. to_copy = {} /\ properties = <<>>
  BY <1>1 DEF OutputUntouched, ItemStep, IInv, CompilesInv, CopyRight, PropertiesInv
<1> QED  BY <1>1, <1>2 DEF OutputUntouched, ItemStep, outputVars

\* A new link result has a name, that of its target.
LEMMA ItemLinkNames ==
  ASSUME NEW i \in Items, ItemStep(i)
  PROVE  \A m \in DOMAIN ld_results' : IsName(ld_results'[m].target.name)
<1>1. /\ cdb \in Cdbs /\ IsList(ld_results)
      /\ \A m \in DOMAIN ld_results : IsName(ld_results[m].target.name)
  BY DEF ItemStep, IInv, ItemsInv, ItemSteps, ListTypes, LinksInv, DirsCounted
<1>2. IsFile(LinkTarget(i)) /\ IsFile(CompileTarget(i))
  <2>1. \A d, s, e : IsFile(File(d, s, e))
    BY DEF IsFile, IsName, File, Name
  <2> QED  BY <1>1, <2>1, CommandSources DEF LinkTarget, TargetToLink, CompileTarget
<1>3. ASSUME NEW target, NEW sources, HandleLink(target, sources), IsFile(target)
      PROVE  \A m \in DOMAIN ld_results' : IsName(ld_results'[m].target.name)
  <2> DEFINE r == [target |-> Basename(target), sources |-> sources]
  <2>1. ld_results' \in {ld_results, Append(ld_results, r)}
    BY <1>3 DEF HandleLink
  <2>2. r.target.name = target.name /\ IsName(target.name)
    BY <1>3 DEF Basename, IsFile
  <2> HIDE DEF r
  <2>3. \A m \in DOMAIN Append(ld_results, r) :
          (m \in DOMAIN ld_results /\ Append(ld_results, r)[m] = ld_results[m]) \/ Append(ld_results, r)[m] = r
    BY <1>1, AppendToList
  <2> QED  BY <1>1, <2>1, <2>2, <2>3
<1>4. CASE ld_results' = ld_results
  BY <1>1, <1>4
<1>5. ld_results' = ld_results \/ Link(i) \/ EndCompile(i)
  BY DEF ItemStep, resultVars, Process, Begin, Assemble, SkipMissing, Preprocess,
         PreprocessFails, PreprocessSucceeds
<1> QED  BY <1>2, <1>3, <1>4, <1>5 DEF Link, EndCompile

\* An item's step keeps every part.
LEMMA ItemIInv == ASSUME NEW i \in Items, ItemStep(i) PROVE IInv'
<1>1. ListTypes' /\ TypeOK' /\ ItemsInv'
  BY ItemListTypes, ItemTypeOK, ItemItemsInv
<1> USE ItemOutput, EmptyList
<1>2. LinksInv'
  <2>1. Len(ld_results') \in Nat /\ (Len(ld_infos) = 0 /\ DOMAIN ld_infos = {})
    BY <1>1, ListElements DEF ListTypes, IsList
  <2>2. InfosNumbered'
    BY <2>1 DEF InfosNumbered
  <2>3. InfosRight' /\ ArchivePathsDistinct'
    BY DEF InfosRight, ArchivePathsDistinct, FilesDistinct, DirsDistinct
  <2>4. DirsCounted'
    BY ItemLinkNames DEF DirsCounted
  <2> QED  BY <2>2, <2>3, <2>4 DEF LinksInv
<1>3. CompilesInv'
  <2>1. CopyRight'
    BY DEF CopyRight
  <2>2. \A n, m : ~Handled(n, m)'
    BY DEF Handled, AfterCompiles, AtCompiles
  <2>3. UnitsHandled' /\ OptionsHandled'
    BY <2>2 DEF UnitsHandled, OptionsHandled
  <2>4. AllConsumed'
    BY DEF AllConsumed, AfterCompiles, AtCompiles
  <2> QED  BY <2>1, <2>3, <2>4 DEF CompilesInv
<1>4. PropertiesInv'
  BY DEF PropertiesInv
<1> QED  BY <1>1, <1>2, <1>3, <1>4 DEF IInv

\* A step of process itself keeps every part: it does not touch the output.
LEMMA ControlIInv == ASSUME IInv, ControlStep PROVE IInv'
<1> USE ControlMoves
<1>1. \A m : Sources(m)' = Sources(m)
  BY DEF Sources, LinkSources, Actual, Assembled, AsSource
<1>2. LinksInv'
  <2>1. InfosNumbered' /\ InfosRight'
    BY <1>1 DEF IInv, LinksInv, InfosNumbered, InfosRight
  <2>2. DirsCounted' /\ ArchivePathsDistinct'
    BY DEF IInv, LinksInv, DirsCounted, ArchivePathsDistinct, FilesDistinct, DirsDistinct
  <2> QED  BY <2>1, <2>2 DEF LinksInv
<1>3. CompilesInv'
  <2>1. \A n, m : (Handled(n, m)' <=> Handled(n, m)) /\ (Consumes(m, n)' <=> Consumes(m, n))
    BY <1>1 DEF Handled, AfterCompiles, AtCompiles, Consumes
  <2>2. CopyRight' /\ UnitsHandled' /\ OptionsHandled'
    BY <2>1 DEF IInv, CompilesInv, CopyRight, UnitsHandled, OptionsHandled
  <2>3. AllConsumed'
    BY DEF IInv, CompilesInv, AllConsumed, NoTestLd, AfterCompiles, AtCompiles
  <2> QED  BY <2>2, <2>3 DEF CompilesInv
<1>4. PropertiesInv'
  BY DEF IInv, PropertiesInv
<1> QED  BY <1>2, <1>3, <1>4, ControlItems DEF IInv

\* Every step of process is one of the three kinds.
LEMMA StepKinds ==
  ASSUME IInv, [Next]_vars
  PROVE  OutputStep \/ ControlStep \/ \E i \in Items : ItemStep(i)
BY DEF Next, Work, Generate, NextItems, OutputStep, ControlStep, ItemStep

-----------------------------------------------------------------------------
\* In every run, for every compile database, thread count and loss of files, the
\* items, the lists they fill and the output made of them are in step: every part
\* of the invariant holds. (build-processor.cpp:240-470, work-item-processor.cpp:130-236)
THEOREM InvariantHolds == Spec => []IInv
<1>1. IInv /\ [Next]_vars => IInv'
  BY StepKinds, OutputIInv, ControlIInv, ItemIInv
<1> QED  BY <1>1, InitInvariant, PTL DEF Spec

-----------------------------------------------------------------------------
(* What the invariant says.                                                *)

\* The pool never holds more items than -j threads, and the indexes the output
\* generation keeps are of link infos there are. (build-processor.cpp:240-243)
THEOREM TypesHold == Spec => []TypeOK
<1>1. IInv => TypeOK
  BY DEF IInv
<1> QED  BY <1>1, InvariantHolds, PTL

\* Whatever the preprocessors and the threads do, all results of a command with
\* several sources are bridged to its target. (work-item-processor.cpp:198-236)
THEOREM SourcesAreBridged == Spec => []SourcesBridged
<1>1. IInv => SourcesBridged
  BY DEF IInv, ItemsInv
<1> QED  BY <1>1, InvariantHolds, PTL

\* However many files and targets share a name, no path of the archive is used
\* twice. (build-processor.cpp:330-349 and 412-423)
THEOREM PathsAreDistinct == Spec => []ArchivePathsDistinct
<1>1. IInv => ArchivePathsDistinct
  BY DEF IInv, LinksInv
<1> QED  BY <1>1, InvariantHolds, PTL

\* When the output is written no preprocessed file is left beside it, whichever
\* item failed and whichever result no link consumed.
\* (work-item-processor.cpp:213-225, build-processor.cpp:390-435)
THEOREM NoFileIsLeft == Spec => []NoFileLeft
<1>1. IInv => NoFileLeft
  BY DEF IInv, ItemsInv, TempsOwned, NoFileLeft, Written
<1> QED  BY <1>1, InvariantHolds, PTL

\* Whichever result arrived first, a translation unit reaches every link target made
\* from it, and the archive at least. (build-processor.cpp:319-435)
THEOREM UnitsAreArchived == Spec => []UnitsArchived
<1>1. IInv => LinkedSourcesArchived
  <2> SUFFICES ASSUME IInv, Written, NEW n \in DOMAIN cc_results, NEW m \in DOMAIN ld_results,
                      cc_results[n].target \in {Actual(s) : s \in ToSet(ld_results[m].sources)}
               PROVE  \E f \in pp_files : f.path[1] = ld_infos[m].dir /\ f.file = cc_results[n].file
    BY DEF LinkedSourcesArchived
  <2>1. Handled(n, m) /\ Consumes(m, n)
    BY DEF Written, Handled, AfterCompiles, Consumes, Sources, LinkSources
  <2> QED  BY <2>1 DEF IInv, CompilesInv, UnitsHandled
<1>2. IInv => UnlinkedProcessed
  BY DEF IInv, CompilesInv, AllConsumed, UnlinkedProcessed, NoTestLd, Written, AfterCompiles
<1>3. IInv => UnitsArchived
  BY <1>1, <1>2 DEF UnitsArchived
<1> QED  BY <1>3, InvariantHolds, PTL

\* The property file of a link target lists none of the build's own objects, and the
\* scan options of the first compile result of each language that went into it.
\* (build-processor.cpp:424-432 and 446-460)
THEOREM PropertiesAreRight == Spec => []PropertiesRight
<1>1. IInv => CompiledIsNoDependency
  <2> SUFFICES ASSUME IInv, Written, NEW p \in DOMAIN properties, NEW n \in DOMAIN cc_results,
                      cc_results[n].target \in properties[p].paths
               PROVE  FALSE
    BY DEF CompiledIsNoDependency
  <2>1. p \in DOMAIN ld_infos /\ cc_results[n].target \in ld_infos[p].dependencies
    <3>1. Len(properties) = Len(ld_infos) /\ IsList(properties) /\ IsList(ld_infos)
      BY DEF IInv, PropertiesInv, ListTypes, Written
    <3>2. properties[p].paths \subseteq ld_infos[p].dependencies
      BY DEF IInv, PropertiesInv
    <3> QED  BY <3>1, <3>2, ListElements
  <2>2. p \in DOMAIN ld_results /\ Consumes(p, n)
    BY <2>1 DEF IInv, LinksInv, InfosRight, Consumes
  <2>3. Handled(n, p)
    BY DEF Written, Handled, AfterCompiles
  <2> QED  BY <2>1, <2>2, <2>3 DEF IInv, CompilesInv, UnitsHandled
<1>2. IInv => FirstScanOptions
  <2> SUFFICES ASSUME IInv, Written, NEW m \in DOMAIN ld_results, NEW lang \in Languages
               PROVE  LET Into(n) == /\ cc_results[n].lang = lang
                                     /\ cc_results[n].target \in {Actual(s) : s \in ToSet(ld_results[m].sources)}
                          mine == {n \in DOMAIN cc_results : Into(n)}
                      IN Get(properties[m].scan_options, lang, NoOptions)
                           = IF mine = {} THEN NoOptions ELSE cc_results[Min(mine)].options
    BY DEF FirstScanOptions
  <2> DEFINE mine == {n \in DOMAIN cc_results :
                        /\ cc_results[n].lang = lang
                        /\ cc_results[n].target \in {Actual(s) : s \in ToSet(ld_results[m].sources)}}
             opts == ld_infos[m].scan_options
  <2>1. m \in DOMAIN ld_infos /\ properties[m].scan_options = opts
    <3>1. /\ Len(properties) = Len(ld_infos) /\ Len(ld_results) <= Len(ld_infos)
          /\ IsList(properties) /\ IsList(ld_infos) /\ IsList(ld_results)
      BY DEF IInv, PropertiesInv, LinksInv, InfosNumbered, ListTypes, Written
    <3>2. m \in DOMAIN ld_infos /\ m \in DOMAIN properties
      BY <3>1, ListElements
    <3> QED  BY <3>2 DEF IInv, PropertiesInv
  <2>2. mine = {n \in DOMAIN cc_results : Handled(n, m) /\ Consumes(m, n) /\ cc_results[n].lang = lang}
    BY DEF Written, Handled, AfterCompiles, Consumes, Sources, LinkSources
  <2>3. IF lang \in DOMAIN opts
        THEN \E n \in mine : opts[lang] = cc_results[n].options /\ \A k \in mine : n <= k
        ELSE mine = {}
    <3> HIDE DEF mine
    <3> QED  BY <2>1, <2>2 DEF IInv, CompilesInv, OptionsHandled
  <2>4. \A n \in mine : n \in Nat
    BY ListElements DEF IInv, ListTypes
  <2>5. Get(opts, lang, NoOptions) = IF mine = {} THEN NoOptions ELSE cc_results[Min(mine)].options
    <3> HIDE DEF mine, opts
    <3>1. CASE lang \in DOMAIN opts
      <4>1. PICK n \in mine : opts[lang] = cc_results[n].options /\ \A k \in mine : n <= k
        BY <2>3, <3>1
      <4>2. Min(mine) \in mine /\ \A k \in mine : Min(mine) <= k
        BY <4>1 DEF Min
      <4>3. Min(mine) = n
        BY <2>4, <4>1, <4>2
      <4> QED  BY <3>1, <4>1, <4>3 DEF Get
    <3>2. CASE lang \notin DOMAIN opts
      BY <2>3, <3>2 DEF Get
    <3> QED  BY <3>1, <3>2
  <2> QED  BY <2>1, <2>5
<1>3. IInv => PropertiesRight
  BY <1>1, <1>2 DEF PropertiesRight
<1> QED  BY <1>3, InvariantHolds, PTL

-----------------------------------------------------------------------------
(* The abstract lists.                                                     *)

\* The abstract variables, as the code's state gives them.
Closed == {i \in Items : state[i] = "over"}
Files == [n \in DOMAIN cc_results |-> cc_results[n].file]
Over == phase = "generate" \/ Written

\* The lists are empty, and all items open, before the first step.
LEMMA InitLists == Init => Lists!Init
<1> SUFFICES ASSUME Init PROVE Lists!Init
  OBVIOUS
<1> USE DEF Init, InitItems, InitResults, InitOutput
<1>1. Files = <<>>
  BY EmptyList DEF Files
<1>2. Closed = {} /\ DOMAIN source = Items /\ source = [i \in Items |-> 1]
  BY DEF Closed
<1>3. ~Over
  BY DEF Over, Written
<1> QED  BY <1>1, <1>2, <1>3 DEF Lists!Init, Lists!Items, Files, Closed, Over

\* The files of a list with one more result.
LEMMA FilesAppend ==
  ASSUME NEW r, IsList(cc_results), cc_results' = Append(cc_results, r)
  PROVE  Files' = Append(Files, r.file)
<1> DEFINE l == Len(cc_results)
<1>1. /\ l \in Nat /\ DOMAIN cc_results = 1 .. l
      /\ DOMAIN cc_results' = 1 .. l + 1
      /\ \A n \in 1 .. l : cc_results'[n] = cc_results[n]
      /\ cc_results'[l + 1] = r
  BY AppendToList
<1> DEFINE S == {cc_results'[n].file : n \in 1 .. l + 1}
<1> HIDE DEF l
<1>2. Files = [n \in 1 .. l |-> cc_results[n].file] /\ Files' = [n \in 1 .. l + 1 |-> cc_results'[n].file]
  BY <1>1 DEF Files
<1>3. Files \in [1 .. l -> S] /\ Files' \in [1 .. l + 1 -> S] /\ r.file \in S
  BY <1>1, <1>2
<1> HIDE DEF S
<1>4. Files \in Seq(S) /\ Files' \in Seq(S)
  <2>1. ASSUME NEW k \in Nat, NEW f \in [1 .. k -> S] PROVE f \in Seq(S)
    BY <2>1, SeqDef
  <2>2. l + 1 \in Nat
    BY <1>1
  <2> QED  BY <1>1, <1>3, <2>1, <2>2
<1>5. Len(Files) = l /\ Len(Files') = l + 1
  BY <1>1, <1>3, <1>4
<1>6. \A n \in 1 .. l + 1 : Files'[n] = Append(Files, r.file)[n]
  BY <1>1, <1>2, <1>4, <1>5
<1>7. Append(Files, r.file) \in Seq(S) /\ Len(Append(Files, r.file)) = l + 1
  BY <1>3, <1>4, <1>5, AppendProperties
<1> QED  BY <1>4, <1>5, <1>6, <1>7, SeqEqual

\* An item's step adds its next unit, skips it, closes the item or changes nothing
\* that the abstract lists show.
LEMMA ItemImplements ==
  ASSUME NEW i \in Items, ItemStep(i)
  PROVE  [Lists!Next]_Lists!vars
<1>1. /\ Items' = Items /\ DOMAIN source = Items /\ Lists!Items = Items
      /\ state \in [Items -> {"waiting", "running", "preprocessing", "over"}]
      /\ source \in [Items -> Nat \ {0}]
      /\ state[i] # "over" /\ i \notin Closed
  BY ItemMoves DEF Lists!Items, Closed
<1>2. Over' = Over
  BY ItemOutput, ItemMoves DEF Over, Written
<1>3. \A to : state' = [state EXCEPT ![i] = to] =>
        Closed' = IF to = "over" THEN Closed \cup {i} ELSE Closed
  BY <1>1 DEF Closed
<1>4. UNCHANGED cc_results => Files' = Files
  BY DEF Files
<1>5. CASE SkipMissing(i)
  <2>1. /\ UNCHANGED <<cc_results, state>> /\ source' = [source EXCEPT ![i] = @ + 1]
    BY <1>5 DEF SkipMissing, resultVars
  <2>2. Closed' = Closed /\ Files' = Files
    BY <1>1, <1>4, <2>1 DEF Closed
  <2>3. Lists!Skip(i)
    BY <1>1, <1>2, <2>1, <2>2 DEF Lists!Skip, Closed, Files, Over
  <2> QED  BY <1>1, <2>3 DEF Lists!Next
<1>6. CASE PreprocessSucceeds(i)
  <2>1. /\ cc_results' = Append(cc_results, CCResult(i)) /\ source' = [source EXCEPT ![i] = @ + 1]
        /\ state' = [state EXCEPT ![i] = "running"]
    BY <1>6 DEF PreprocessSucceeds
  <2>2. Closed' = Closed
    <3>1. "running" # "over"
      OBVIOUS
    <3> QED  BY <1>3, <2>1, <3>1
  <2>3. Files' = Append(Files, <<i, source[i]>>)
    <3>1. CCResult(i).file = <<i, source[i]>> /\ IsList(cc_results)
      BY DEF CCResult, ItemStep, IInv, ListTypes
    <3> QED  BY <2>1, <3>1, FilesAppend
  <2>4. Lists!Deliver(i)
    BY <1>1, <1>2, <2>1, <2>2, <2>3 DEF Lists!Deliver, Closed, Files, Over
  <2> QED  BY <1>1, <2>4 DEF Lists!Next
<1>7. CASE UNCHANGED <<cc_results, source>> /\ state' = [state EXCEPT ![i] = "over"]
  <2>1. Closed' = Closed \cup {i} /\ Files' = Files
    BY <1>3, <1>4, <1>7
  <2>2. Lists!Close(i)
    BY <1>1, <1>2, <1>7, <2>1 DEF Lists!Close, Closed, Files, Over
  <2> QED  BY <1>1, <2>2 DEF Lists!Next
<1>8. CASE UNCHANGED <<cc_results, source>> /\ \E to \in {"running", "preprocessing"} : state' = [state EXCEPT ![i] = to]
  <2>1. Closed' = Closed /\ Files' = Files
    BY <1>3, <1>4, <1>8
  <2> QED  BY <1>2, <1>8, <2>1 DEF Lists!vars, Closed, Files, Over
<1>9. CASE Begin(i)
  <2>1. UNCHANGED <<cc_results, source>> /\ state' = [state EXCEPT ![i] = IF Skipped(i) THEN "over" ELSE "running"]
    BY <1>9 DEF Begin, resultVars
  <2> QED  BY <1>7, <1>8, <2>1
<1>10. CASE Assemble(i) \/ Link(i) \/ PreprocessFails(i) \/ EndCompile(i)
  BY <1>7, <1>10 DEF Assemble, Link, PreprocessFails, EndCompile
<1>11. CASE Preprocess(i)
  BY <1>8, <1>11 DEF Preprocess
<1> QED  BY <1>5, <1>6, <1>9, <1>10, <1>11 DEF ItemStep, Process

\* generate_output leaves the lists as they are.
LEMMA OutputImplements == ASSUME OutputStep PROVE UNCHANGED Lists!vars
<1>1. /\ UNCHANGED <<source, Closed, Files>>
  BY OutputMoves, ItemsUntouched DEF Closed, Files
<1>2. Over /\ Over'
  BY OutputMoves DEF OutputStep, Over
<1> QED  BY <1>1, <1>2 DEF Lists!vars, Closed, Files, Over

\* The barrier is passed when all items are closed; an early return is not a barrier.
LEMMA ControlImplements == ASSUME IInv, ControlStep PROVE [Lists!Next]_Lists!vars
<1>1. UNCHANGED <<source, Closed, Files>>
  BY ControlMoves, ItemsUntouched DEF Closed, Files
<1>2. CASE Over' = Over
  BY <1>1, <1>2 DEF Lists!vars, Closed, Files, Over
<1>3. CASE phase = "work" /\ AllOver /\ phase' = "generate"
  <2>1. Closed = Items /\ Lists!Items = Items
    BY <1>3 DEF Lists!Items, Closed, AllOver, IInv, TypeOK
  <2>2. Over'
    BY <1>3 DEF Over
  <2>3. Lists!Barrier
    BY <1>1, <2>1, <2>2 DEF Lists!Barrier, Closed, Files, Over
  <2> QED  BY <2>3 DEF Lists!Next
<1>4. PhasesApart /\ stage' = stage
  BY ControlMoves DEF IInv, ItemsInv
<1>5. CASE UNCHANGED phase
  BY <1>2, <1>4, <1>5 DEF Over, Written
<1>6. CASE phase \in {"filters", "load", "profile"} /\ phase' \in {"returned", "load", "profile", "work"}
  <2>1. stage # "written"
    BY <1>4, <1>6 DEF PhasesApart, OutputUntouched
  <2>2. ~Over /\ ~Over'
    BY <1>4, <1>6, <2>1 DEF Over, Written
  <2>3. Over' = Over
    BY <2>2 DEF Over
  <2> QED  BY <1>2, <2>3
<1>7. CASE phase = "generate" /\ Written /\ phase' = "returned"
  <2>1. Over' = Over
    BY <1>4, <1>7 DEF Over, Written
  <2> QED  BY <1>2, <2>1
<1> QED  BY <1>3, <1>5, <1>6, <1>7, ControlMoves

\* The parallel phase implements the abstract lists: a unit is added in its turn by
\* an item that is still open, and none after the barrier.
\* (build-processor.cpp:240-244, work-item-processor.cpp:227-236)
THEOREM ListsAreImplemented == Spec => ImplementsResultLists
<1>1. IInv /\ [Next]_vars => [Lists!Next]_Lists!vars
  BY StepKinds, OutputImplements, ControlImplements, ItemImplements
<1> QED  BY <1>1, InitLists, InvariantHolds, PTL DEF Spec, ImplementsResultLists, Lists!Spec

-----------------------------------------------------------------------------
(* Where the results of the items come from.                               *)

\* What is read off the database is the same in every state.
LEMMA SameCommands ==
  ASSUME cdb' = cdb
  PROVE  /\ Items' = Items
         /\ \A i : /\ Command(i)' = Command(i) /\ FilesOf(i)' = FilesOf(i)
                   /\ (Lossless(i)' <=> Lossless(i)) /\ LinkResult(i)' = LinkResult(i)
                   /\ AsResult(i)' = AsResult(i) /\ LinkTarget(i)' = LinkTarget(i)
                   /\ CompileTarget(i)' = CompileTarget(i) /\ (MultiSource(i)' <=> MultiSource(i))
         /\ \A kind, i : Is(kind, i)' <=> Is(kind, i)
         /\ \A i, k : UnitTarget(i, k)' = UnitTarget(i, k)
         /\ \A ld, i : LinkedBy(ld, i)' <=> LinkedBy(ld, i)
<1> USE DEF Items, Command, Skipped, LinkTarget, TargetToLink, CompileTarget, MultiSource, IntoDir
<1>1. \A i : /\ Command(i)' = Command(i) /\ FilesOf(i)' = FilesOf(i) /\ LinkTarget(i)' = LinkTarget(i)
             /\ CompileTarget(i)' = CompileTarget(i) /\ (MultiSource(i)' <=> MultiSource(i))
             /\ (IntoDir(i)' <=> IntoDir(i)) /\ AsResult(i)' = AsResult(i)
  BY DEF FilesOf, AsResult
<1>2. \A kind, i : Is(kind, i)' <=> Is(kind, i)
  BY DEF Is
<1>3. \A i, k : UnitTarget(i, k)' = UnitTarget(i, k)
  BY DEF UnitTarget, ToolPath
<1>4. \A i : LinkResult(i)' = LinkResult(i) /\ (Lossless(i)' <=> Lossless(i))
  BY <1>1 DEF LinkResult, Lossless
<1> HIDE DEF Command, LinkTarget, CompileTarget, MultiSource
<1>5. \A ld, i : LinkedBy(ld, i)' <=> LinkedBy(ld, i)
  BY <1>1, <1>2, <1>4 DEF LinkedBy
<1> QED  BY <1>1, <1>2, <1>3, <1>4, <1>5

\* A step of an item whose results are accounted for.
ResultStep(i) == ItemStep(i) /\ ResultsInv

\* The target of a result is the one the database gives its source.
LEMMA TargetOfUnit ==
  ASSUME NEW i \in Items
  PROVE  SourceTarget(i) = UnitTarget(i, source[i])
BY DEF SourceTarget, UnitTarget, ToolPath, MadeUp, Current

\* An item that is not over, and not skipped, ends with the step of its kind.
LEMMA ItemEnds ==
  ASSUME NEW i \in Items, ItemStep(i)
  PROVE  /\ cdb' = cdb
         /\ \A j \in Items : j # i => state'[j] = state[j] /\ source'[j] = source[j]
         /\ state[i] # "over"
         /\ Is("assemble", i) /\ state'[i] = "over" => Assemble(i)
         /\ Is("link", i) /\ state'[i] = "over" => Link(i)
         /\ Is("compile", i) /\ state'[i] = "over" => PreprocessFails(i) \/ EndCompile(i)
<1>1. /\ cdb' = cdb /\ \A j \in Items : j # i => state'[j] = state[j] /\ source'[j] = source[j]
      /\ state[i] # "over" /\ i \in DOMAIN state
  BY ItemMoves
<1>2. ASSUME ~Skipped(i), state'[i] = "over"
      PROVE  ~Begin(i) /\ ~SkipMissing(i) /\ ~Preprocess(i) /\ ~PreprocessSucceeds(i)
  BY <1>1, <1>2 DEF Begin, SkipMissing, Preprocess, PreprocessSucceeds, Running
<1>3. PreprocessFails(i) => HandledAs(Command(i)) = "compile"
  BY DEF HandledAs, PreprocessFails, ItemStep, IInv, ItemsInv, ItemSteps
<1>4. ASSUME ~Skipped(i), state'[i] = "over"
      PROVE  \/ Assemble(i) /\ HandledAs(Command(i)) = "assemble"
             \/ Link(i) /\ HandledAs(Command(i)) = "link"
             \/ (PreprocessFails(i) \/ EndCompile(i)) /\ HandledAs(Command(i)) = "compile"
  BY <1>2, <1>3, <1>4 DEF ItemStep, Process, Assemble, Link, EndCompile, Running
<1> QED  BY <1>1, <1>4 DEF Is

\* What a step adds to the assembler results.
LEMMA AsAdds ==
  ASSUME NEW i \in Items, ItemStep(i)
  PROVE  \/ as_results' = as_results /\ ~Assemble(i)
         \/ Assemble(i) /\ Is("assemble", i) /\ as_results' = Append(as_results, AsResult(i))
<1>1. CASE ~Assemble(i)
  BY <1>1 DEF ItemStep, resultVars, Process, Begin, Link, SkipMissing, Preprocess,
              PreprocessFails, PreprocessSucceeds, EndCompile
<1>2. CASE Assemble(i)
  BY <1>2 DEF Assemble, Running, AsResult, Is, ItemStep, IInv, ItemsInv, ItemSteps
<1> QED  BY <1>1, <1>2

\* What a step adds to the link results is made by its item, which is then over.
LEMMA LdAdds ==
  ASSUME NEW i \in Items, ResultStep(i)
  PROVE  \/ ld_results' = ld_results
         \/ /\ state'[i] = "over"
            /\ \E r : LinkedBy(r, i) /\ ld_results' = Append(ld_results, r)
<1>0. i \in DOMAIN state /\ ItemStep(i)
  BY ItemMoves DEF ResultStep
<1>1. CASE Link(i)
  <2>1. Is("link", i) /\ state'[i] = "over" /\ HandleLink(LinkTarget(i), FilesOf(i))
    BY <1>0, <1>1 DEF Link, Running, Is, FilesOf, ItemStep, IInv, ItemsInv, ItemSteps
  <2>2. CASE LinkTarget(i).name \in Linkable
    <3>1. LinkedBy(LinkResult(i), i) /\ ld_results' = Append(ld_results, LinkResult(i))
      BY <2>1, <2>2 DEF HandleLink, LinkedBy, LinkResult
    <3> QED  BY <2>1, <3>1
  <2> QED  BY <2>1, <2>2 DEF HandleLink
<1>2. CASE EndCompile(i) /\ MultiSource(i)
  <2>1. Is("compile", i) /\ state'[i] = "over" /\ HandleLink(CompileTarget(i), bridged[i])
    BY <1>0, <1>2 DEF EndCompile, Running, Is, ItemStep, IInv, ItemsInv, ItemSteps
  <2>2. CASE CompileTarget(i).name \in Linkable
    <3> DEFINE r == [target |-> Basename(CompileTarget(i)), sources |-> bridged[i]]
    <3>1. ld_results' = Append(ld_results, r) /\ r.target = Basename(CompileTarget(i))
          /\ r.sources = bridged[i]
      BY <2>1, <2>2 DEF HandleLink
    <3> HIDE DEF r
    <3>2. LinkedBy(r, i)
      BY <1>2, <2>1, <2>2, <3>1 DEF LinkedBy, ResultStep, ResultsInv, MadeUpKept
    <3> QED  BY <2>1, <3>1, <3>2
  <2> QED  BY <2>1, <2>2 DEF HandleLink
<1>3. CASE ~Link(i) /\ ~(EndCompile(i) /\ MultiSource(i))
  BY <1>0, <1>3 DEF ItemStep, resultVars, Process, Begin, Assemble, SkipMissing, Preprocess,
              PreprocessFails, PreprocessSucceeds, EndCompile
<1> QED  BY <1>1, <1>2, <1>3

\* The compile results are still those of the commands, and none is missing.
LEMMA ItemUnits ==
  ASSUME NEW i \in Items, ResultStep(i)
  PROVE  UnitsOrigin' /\ UnitsComplete'
<1>0. ItemStep(i) /\ cdb' = cdb /\ cdb \in Cdbs
  BY ItemMoves DEF ResultStep, ItemStep, IInv, ItemsInv, ItemSteps
<1> USE SameCommands, <1>0
<1>1. UnitsOrigin'
  <2>1. \A n \in DOMAIN cc_results : \E j \in Items : \E k \in DOMAIN Command(j).sources :
          cc_results[n].file = <<j, k>> /\ cc_results[n].target = UnitTarget(j, k)
    BY DEF ResultStep, ResultsInv, UnitsOrigin
  <2>2. CASE cc_results' = cc_results
    BY <2>1, <2>2 DEF UnitsOrigin
  <2>3. CASE PreprocessSucceeds(i)
    <3>1. source[i] \in DOMAIN Command(i).sources
      <4>1. HasMore(i) /\ source[i] \in Nat \ {0} /\ IsList(Command(i).sources)
        BY <2>3, CommandSources DEF PreprocessSucceeds, ItemStep, IInv, ItemsInv, ItemSteps, TypeOK
      <4> QED  BY <4>1, ListElements DEF HasMore
    <3>2. CCResult(i).file = <<i, source[i]>> /\ CCResult(i).target = UnitTarget(i, source[i])
      BY TargetOfUnit DEF CCResult
    <3>3. \A n \in DOMAIN cc_results' :
            \/ n \in DOMAIN cc_results /\ cc_results'[n] = cc_results[n]
            \/ cc_results'[n] = CCResult(i)
      BY ItemCompiles
    <3>4. ASSUME NEW n \in DOMAIN cc_results'
          PROVE  \E j \in Items : \E k \in DOMAIN Command(j).sources :
                   cc_results'[n].file = <<j, k>> /\ cc_results'[n].target = UnitTarget(j, k)
      BY <2>1, <3>1, <3>2, <3>3
    <3> QED  BY <3>4 DEF UnitsOrigin
  <2> QED  BY <2>2, <2>3, ItemCompiles
<1>2. UnitsComplete'
  <2> SUFFICES ASSUME NEW j \in Items, Is("compile", j), Lossless(j)
               PROVE  /\ \A k \in 1 .. source'[j] - 1 : \E n \in DOMAIN cc_results' : cc_results'[n].file = <<j, k>>
                      /\ state'[j] = "over" => ~HasMore(j)'
    BY DEF UnitsComplete
  <2>1. /\ \A k \in 1 .. source[j] - 1 : \E n \in DOMAIN cc_results : cc_results[n].file = <<j, k>>
        /\ state[j] = "over" => ~HasMore(j)
    BY DEF ResultStep, ResultsInv, UnitsComplete
  <2>2. \A n \in DOMAIN cc_results : n \in DOMAIN cc_results' /\ cc_results'[n] = cc_results[n]
    BY ItemCompiles
  <2>3. CASE j # i
    <3>1. state'[j] = state[j] /\ source'[j] = source[j] /\ (HasMore(j)' <=> HasMore(j))
      BY <2>3, ItemEnds DEF HasMore
    <3> QED  BY <2>1, <2>2, <3>1
  <2>4. CASE j = i
    <3>1. ASSUME HasMore(i) PROVE Current(i).file \notin Failing \cup Transient
      <4>1. source[i] \in DOMAIN Command(i).sources
        <5>1. source[i] \in Nat \ {0} /\ IsList(Command(i).sources)
          BY CommandSources DEF ItemStep, IInv, TypeOK
        <5> QED  BY <3>1, <5>1, ListElements DEF HasMore
      <4>2. Current(i).file \in ToSet(FilesOf(i))
        BY <4>1 DEF Current, FilesOf, ToSet
      <4> QED  BY <2>4, <4>2 DEF Lossless
    <3>2. ~SkipMissing(i) /\ ~PreprocessFails(i)
      BY <3>1 DEF SkipMissing, PreprocessFails, ItemStep, IInv, ItemsInv, ItemSteps
    <3>3. state'[i] = "over" => ~HasMore(i)'
      <4> SUFFICES ASSUME state'[i] = "over" PROVE ~HasMore(i)'
        OBVIOUS
      <4>1. EndCompile(i)
        BY <2>4, <3>2, ItemEnds
      <4> QED  BY <4>1 DEF EndCompile, HasMore
    <3>4. CASE PreprocessSucceeds(i)
      <4>1. source[i] \in Nat \ {0} /\ source'[i] = source[i] + 1
        BY <3>4, ItemMoves DEF PreprocessSucceeds
      <4>2. \E n \in DOMAIN cc_results' : cc_results'[n].file = <<i, source[i]>>
        <5>1. CCResult(i).file = <<i, source[i]>>
          BY DEF CCResult
        <5>2. cc_results' = Append(cc_results, CCResult(i)) /\ IsList(cc_results)
          BY <3>4 DEF PreprocessSucceeds, ItemStep, IInv, ListTypes
        <5>3. /\ Len(cc_results) + 1 \in DOMAIN cc_results'
              /\ cc_results'[Len(cc_results) + 1] = CCResult(i)
          BY <5>2, AppendToList
        <5> QED  BY <5>1, <5>3
      <4>3. \A k \in 1 .. source'[i] - 1 : k \in 1 .. source[i] - 1 \/ k = source[i]
        BY <4>1
      <4> QED  BY <2>1, <2>2, <2>4, <3>3, <4>2, <4>3
    <3>5. CASE source'[i] = source[i]
      BY <2>1, <2>2, <2>4, <3>3, <3>5
    <3>6. source' = source \/ PreprocessSucceeds(i)
      BY <3>2 DEF ItemStep, Process, Begin, Assemble, Link, Preprocess, EndCompile
    <3> QED  BY <3>4, <3>5, <3>6
  <2> QED  BY <2>3, <2>4
<1> QED  BY <1>1, <1>2

\* The assembler results are still those of the commands, and none is missing.
LEMMA ItemAssembled ==
  ASSUME NEW i \in Items, ResultStep(i)
  PROVE  AsOrigin' /\ AsComplete'
<1>0. ItemStep(i) /\ cdb' = cdb /\ IsList(as_results)
  BY ItemMoves DEF ResultStep, ItemStep, IInv, ListTypes
<1> USE SameCommands, <1>0
<1>1. /\ \A n \in DOMAIN as_results : \E j \in Items : Is("assemble", j) /\ as_results[n] = AsResult(j)
      /\ \A j \in Items : Is("assemble", j) /\ state[j] = "over" => AsResult(j) \in ToSet(as_results)
  BY DEF ResultStep, ResultsInv, AsOrigin, AsComplete
<1>2. CASE as_results' = as_results /\ ~Assemble(i)
  <2>1. \A j \in Items : Is("assemble", j) /\ state'[j] = "over" => state[j] = "over"
    BY <1>2, ItemEnds
  <2> QED  BY <1>1, <1>2, <2>1 DEF AsOrigin, AsComplete
<1>3. CASE Is("assemble", i) /\ as_results' = Append(as_results, AsResult(i))
  <2> DEFINE r == AsResult(i)
  <2>1. /\ \A n \in DOMAIN Append(as_results, r) :
             \/ n \in DOMAIN as_results /\ Append(as_results, r)[n] = as_results[n]
             \/ Append(as_results, r)[n] = r
        /\ ToSet(Append(as_results, r)) = ToSet(as_results) \cup {r}
    <3> HIDE DEF r
    <3> QED  BY AppendToList
  <2>2. AsOrigin'
    <3> SUFFICES ASSUME NEW n \in DOMAIN as_results'
                 PROVE  \E j \in Items : Is("assemble", j) /\ as_results'[n] = AsResult(j)
      BY DEF AsOrigin
    <3> QED  BY <1>1, <1>3, <2>1
  <2>3. AsComplete'
    <3> SUFFICES ASSUME NEW j \in Items, Is("assemble", j), state'[j] = "over"
                 PROVE  AsResult(j) \in ToSet(as_results')
      BY DEF AsComplete
    <3>1. j = i \/ state[j] = "over"
      BY ItemEnds
    <3> QED  BY <1>1, <1>3, <2>1, <3>1
  <2> QED  BY <2>2, <2>3
<1> QED  BY <1>2, <1>3, AsAdds

\* The made-up targets that are kept are those of the item.
LEMMA ItemMadeUp ==
  ASSUME NEW i \in Items, ResultStep(i)
  PROVE  MadeUpKept'
<1>0. ItemStep(i) /\ cdb' = cdb /\ cdb \in Cdbs
  BY ItemMoves DEF ResultStep, ItemStep, IInv, ItemsInv, ItemSteps
<1> USE SameCommands, <1>0
<1>1. /\ bridged = [j \in Items |-> bridged[j]] /\ \A j \in Items : IsList(bridged[j])
      /\ \A j \in Items : \A s \in ToSet(bridged[j]) : \E k \in DOMAIN Command(j).sources : s = MadeUp(j, k)
  BY DEF ResultStep, ResultsInv, MadeUpKept, ItemStep, IInv, ListTypes
<1>2. CASE bridged' = bridged
  <2>1. \A j, k : MadeUp(j, k)' = MadeUp(j, k)
    BY DEF MadeUp
  <2> QED  BY <1>1, <1>2, <2>1 DEF MadeUpKept
<1>3. CASE PreprocessSucceeds(i) /\ MultiSource(i) /\ ~IntoDir(i)
  <2>1. bridged' = [bridged EXCEPT ![i] = Append(@, SourceTarget(i))]
    BY <1>3 DEF PreprocessSucceeds
  <2>2. SourceTarget(i) = MadeUp(i, source[i])
    BY <1>3 DEF SourceTarget, MadeUp
  <2>3. source[i] \in DOMAIN Command(i).sources
    <3>1. HasMore(i) /\ source[i] \in Nat \ {0} /\ IsList(Command(i).sources)
      BY <1>3, CommandSources DEF PreprocessSucceeds, ItemStep, IInv, ItemsInv, ItemSteps, TypeOK
    <3> QED  BY <3>1, ListElements DEF HasMore
  <2>4. ToSet(Append(bridged[i], SourceTarget(i))) = ToSet(bridged[i]) \cup {SourceTarget(i)}
    BY <1>1, AppendToList
  <2>5. /\ ToSet(bridged'[i]) = ToSet(bridged[i]) \cup {SourceTarget(i)}
        /\ \A j \in Items : j # i => bridged'[j] = bridged[j]
    BY <1>1, <2>1, <2>4
  <2> HIDE DEF ResultStep
  <2>6. ASSUME NEW j \in Items, NEW s \in ToSet(bridged'[j])
        PROVE  \E k \in DOMAIN Command(j).sources : s = MadeUp(j, k)
    BY <1>1, <2>2, <2>3, <2>5
  <2>7. \A j, k : MadeUp(j, k)' = MadeUp(j, k)
    BY DEF MadeUp
  <2> QED  BY <2>6, <2>7 DEF MadeUpKept
<1> QED
  BY <1>2, <1>3 DEF ItemStep, Process, Begin, Assemble, Link, SkipMissing, Preprocess,
                    PreprocessFails, PreprocessSucceeds, EndCompile

\* The link results are still those of the commands, one of each, and none is missing.
LEMMA ItemLinked ==
  ASSUME NEW i \in Items, ResultStep(i)
  PROVE  LinksOrigin' /\ LinksComplete'
<1>0. ItemStep(i) /\ cdb' = cdb /\ IsList(ld_results)
  BY ItemMoves DEF ResultStep, ItemStep, IInv, ListTypes
<1> USE SameCommands, <1>0
<1>1. /\ \A m \in DOMAIN ld_results : \E j \in Items : state[j] = "over" /\ LinkedBy(ld_results[m], j)
      /\ \A m, n \in DOMAIN ld_results : m # n =>
           \E j, k \in Items : j # k /\ LinkedBy(ld_results[m], j) /\ LinkedBy(ld_results[n], k)
      /\ \A j \in Items : Is("link", j) /\ state[j] = "over" /\ LinkTarget(j).name \in Linkable =>
           LinkResult(j) \in ToSet(ld_results)
  BY DEF ResultStep, ResultsInv, LinksOrigin, LinksComplete
<1>2. \A j \in Items : state[j] = "over" => state'[j] = "over" /\ j # i
  BY ItemEnds
<1>3. ASSUME NEW r, LinkedBy(r, i), state'[i] = "over", ld_results' = Append(ld_results, r)
      PROVE  LinksOrigin' /\ ToSet(ld_results') = ToSet(ld_results) \cup {r}
  <2>1. /\ \A n \in DOMAIN ld_results' :
             \/ n \in DOMAIN ld_results /\ ld_results'[n] = ld_results[n]
             \/ n = Len(ld_results) + 1 /\ ld_results'[n] = r
        /\ ToSet(ld_results') = ToSet(ld_results) \cup {r}
    BY <1>3, AppendToList
  <2>2. ASSUME NEW m \in DOMAIN ld_results'
        PROVE  \E j \in Items : state'[j] = "over" /\ LinkedBy(ld_results'[m], j)
    BY <1>1, <1>2, <1>3, <2>1
  <2>3. ASSUME NEW m \in DOMAIN ld_results', NEW n \in DOMAIN ld_results', m # n
        PROVE  \E j, k \in Items : j # k /\ LinkedBy(ld_results'[m], j) /\ LinkedBy(ld_results'[n], k)
    <3>1. CASE m \in DOMAIN ld_results /\ ld_results'[m] = ld_results[m]
               /\ n \in DOMAIN ld_results /\ ld_results'[n] = ld_results[n]
      BY <1>1, <2>3, <3>1
    <3>2. CASE m \in DOMAIN ld_results /\ ld_results'[m] = ld_results[m] /\ ld_results'[n] = r
      <4>1. PICK j \in Items : state[j] = "over" /\ LinkedBy(ld_results[m], j)
        BY <1>1, <3>2
      <4> QED  BY <1>2, <1>3, <3>2, <4>1
    <3>3. CASE n \in DOMAIN ld_results /\ ld_results'[n] = ld_results[n] /\ ld_results'[m] = r
      <4>1. PICK j \in Items : state[j] = "over" /\ LinkedBy(ld_results[n], j)
        BY <1>1, <3>3
      <4> QED  BY <1>2, <1>3, <3>3, <4>1
    <3> QED  BY <2>1, <2>3, <3>1, <3>2, <3>3
  <2> QED  BY <2>1, <2>2, <2>3 DEF LinksOrigin
<1>4. LinksOrigin' /\ ToSet(ld_results) \subseteq ToSet(ld_results')
  <2>1. CASE ld_results' = ld_results
    BY <1>1, <1>2, <2>1 DEF LinksOrigin
  <2> QED  BY <1>3, <2>1, LdAdds
<1>5. LinksComplete'
  <2> SUFFICES ASSUME NEW j \in Items, Is("link", j), state'[j] = "over", LinkTarget(j).name \in Linkable
               PROVE  LinkResult(j) \in ToSet(ld_results')
    BY DEF LinksComplete
  <2>1. CASE j = i
    <3>1. HandleLink(LinkTarget(i), FilesOf(i))
      BY <2>1, ItemEnds DEF Link, FilesOf
    <3>2. ld_results' = Append(ld_results, LinkResult(i))
      BY <2>1, <3>1 DEF HandleLink, LinkResult
    <3> QED  BY <2>1, <3>2, AppendToList
  <2>2. CASE j # i
    BY <1>1, <1>4, <2>2, ItemEnds
  <2> QED  BY <2>1, <2>2
<1> QED  BY <1>4, <1>5

\* An item's step keeps all this.
LEMMA ItemResults ==
  ASSUME NEW i \in Items, ResultStep(i)
  PROVE  ResultsInv'
BY ItemUnits, ItemAssembled, ItemMadeUp, ItemLinked DEF ResultsInv

\* Every other step leaves the items, their lists and the database alone.
LEMMA ResultsStay ==
  ASSUME ResultsInv, UNCHANGED <<cdb, state, source, bridged, cc_results, as_results, ld_results>>
  PROVE  ResultsInv'
<1> USE SameCommands
<1>1. UnitsOrigin' /\ AsOrigin' /\ AsComplete' /\ LinksOrigin' /\ LinksComplete'
  BY DEF ResultsInv, UnitsOrigin, AsOrigin, AsComplete, LinksOrigin, LinksComplete
<1>2. UnitsComplete'
  BY DEF ResultsInv, UnitsComplete, HasMore
<1>3. MadeUpKept'
  BY DEF ResultsInv, MadeUpKept, MadeUp
<1> QED  BY <1>1, <1>2, <1>3 DEF ResultsInv

\* It holds at the start.
LEMMA ResultsInit == Init => ResultsInv
<1> SUFFICES ASSUME Init PROVE ResultsInv
  OBVIOUS
<1>1. /\ cc_results = <<>> /\ as_results = <<>> /\ ld_results = <<>>
      /\ \A i \in Items : source[i] = 1 /\ state[i] = "waiting" /\ bridged[i] = <<>>
  BY DEF Init, InitItems, InitResults
<1>2. UnitsOrigin /\ AsOrigin /\ AsComplete /\ LinksOrigin /\ LinksComplete
  BY <1>1, EmptyList DEF UnitsOrigin, AsOrigin, AsComplete, LinksOrigin, LinksComplete
<1>3. UnitsComplete /\ MadeUpKept
  BY <1>1, EmptyList DEF UnitsComplete, MadeUpKept
<1> QED  BY <1>2, <1>3 DEF ResultsInv

-----------------------------------------------------------------------------
(* What the output holds, step by step.                                    *)

\* What is read off the lists alone is the same while they are.
LEMMA SamePaths ==
  ASSUME UNCHANGED <<cc_results, as_results, ld_results>>
  PROVE  \A m : /\ Sources(m)' = Sources(m) /\ PathOf(m)' = PathOf(m)
                /\ (Alone(m)' <=> Alone(m)) /\ \A n : Consumes(m, n)' <=> Consumes(m, n)
<1>1. \A m : Sources(m)' = Sources(m) /\ PathOf(m)' = PathOf(m)
  BY DEF Sources, LinkSources, Actual, Assembled, AsSource, PathOf, TargetPath
<1> QED  BY <1>1 DEF Alone, Consumes

\* A step of generate_output, the contents accounted for.
ContentStep == OutputStep /\ ContentsInv

\* The property files are begun when the link infos are complete.
LEMMA NoneWritten ==
  ASSUME IInv, stage \notin {"properties", "written"}
  PROVE  properties = <<>> /\ DOMAIN properties = {}
BY EmptyList DEF IInv, PropertiesInv

\* A step that neither adds to the link infos nor to the files leaves them as they are.
LEMMA InfosUntouched ==
  ASSUME OutputStep, ~(AddLink \/ AddTestLd \/ CopyCompiled)
  PROVE  /\ UNCHANGED <<ld_infos, pp_files>> /\ Infos' = Infos
         /\ stage' = "test_ld" => stage = "links" /\ need_process_link_using_compiler
         /\ stage' \in {"links", "test_ld"} => stage \in {"links", "test_ld"}
         /\ stage \notin {"links", "test_ld"} => stage' \notin {"links", "test_ld"}
<1>1. UNCHANGED <<ld_infos, pp_files, ld_results>>
  BY OutputMoves, CompileMoves, TakeMoves, WriteMoves DEF OutputStep, NextOutput
<1>2. /\ stage' = "test_ld" => stage = "links" /\ need_process_link_using_compiler
      /\ stage' \in {"links", "test_ld"} => stage \in {"links", "test_ld"}
      /\ stage \notin {"links", "test_ld"} => stage' \notin {"links", "test_ld"}
  BY CompileMoves, TakeMoves, WriteMoves DEF OutputStep, NextOutput
<1> QED  BY <1>1, <1>2 DEF Infos

\* The link info that is added is that of the next link result, or of test_ld.
LEMMA AddedInfo ==
  ASSUME OutputStep, AddLink \/ AddTestLd
  PROVE  LET l == Len(ld_infos) + 1
         IN /\ \A m \in DOMAIN ld_infos : ld_infos'[m] = ld_infos[m]
            /\ ld_infos'[l].dir = Deduplicated(Base) /\ ld_infos'[l].dependencies = Needed
            /\ AddLink => /\ l = next_result /\ l \in DOMAIN ld_results /\ Needed = Sources(l)
                          /\ Infos' = Infos \cup {l} /\ l \notin Infos
                          /\ stage = "links" /\ stage' = "links" /\ Len(ld_infos') <= Len(ld_results)
            /\ AddTestLd => Infos' = Infos /\ stage = "test_ld" /\ stage' = "compiles"
            /\ Infos \subseteq DOMAIN ld_infos
<1> DEFINE l == Len(ld_infos) + 1
<1>1. /\ Len(ld_infos) \in Nat /\ Len(ld_results) \in Nat /\ DOMAIN ld_results = 1 .. Len(ld_results)
      /\ ld_results' = ld_results
  BY OutputMoves, ListElements DEF OutputStep, IInv, ListTypes
<1>2. /\ DOMAIN ld_infos' = DOMAIN ld_infos \cup {l} /\ l \notin DOMAIN ld_infos
      /\ \A m \in DOMAIN ld_infos : ld_infos'[m] = ld_infos[m]
      /\ ld_infos'[l].dir = Deduplicated(Base) /\ ld_infos'[l].dependencies = Needed
      /\ Len(ld_infos') = l
  BY AddInfos DEF NewInfo
<1>3. CASE AddLink
  <2>1. /\ l = next_result /\ l \in DOMAIN ld_results /\ stage = "links" /\ stage' = "links"
        /\ Needed = Sources(l)
    BY <1>3, AddMoves DEF Needed
  <2>2. ~AddTestLd
    BY <2>1 DEF AddTestLd
  <2> HIDE DEF l
  <2>3. Infos' = Infos \cup {l} /\ l \notin Infos /\ Len(ld_infos') <= Len(ld_results)
    BY <1>1, <1>2, <2>1 DEF Infos
  <2> QED  BY <1>2, <2>1, <2>2, <2>3 DEF Infos, l
<1>4. CASE AddTestLd
  <2>1. /\ stage = "test_ld" /\ stage' = "compiles" /\ l \notin DOMAIN ld_results
    BY <1>1, <1>4, AddMoves
  <2>2. ~AddLink
    BY <2>1 DEF AddLink
  <2> HIDE DEF l
  <2>3. Infos' = Infos
    BY <1>1, <1>2, <2>1 DEF Infos
  <2> QED  BY <1>2, <2>1, <2>2, <2>3 DEF Infos, l
<1> QED  BY <1>3, <1>4

\* A copy brings the compile result to a link that consumes it.
LEMMA OutputCopiesOrigin == ASSUME ContentStep PROVE CopiesOrigin'
<1>1. /\ OutputStep /\ UNCHANGED <<need_process_link_using_compiler, cc_results, as_results, ld_results>>
      /\ \A m, n : Consumes(m, n)' <=> Consumes(m, n)
  BY OutputMoves, SamePaths DEF ContentStep
<1>2. SUFFICES ASSUME ~need_process_link_using_compiler
               PROVE  /\ stage' # "test_ld" /\ Len(ld_infos') <= Len(ld_results)
                      /\ \A f \in pp_files' : \E m \in Infos' : \E n \in DOMAIN cc_results :
                           Consumes(m, n) /\ f.path[1] = ld_infos'[m].dir /\ f.file = cc_results[n].file
  BY <1>1 DEF CopiesOrigin
<1>3. /\ stage # "test_ld" /\ Len(ld_infos) <= Len(ld_results)
      /\ \A f \in pp_files : \E m \in Infos : \E n \in DOMAIN cc_results :
           Consumes(m, n) /\ f.path[1] = ld_infos[m].dir /\ f.file = cc_results[n].file
  BY <1>2 DEF ContentStep, ContentsInv, CopiesOrigin
<1>4. CASE AddLink \/ AddTestLd
  <2>1. AddLink /\ pp_files' = pp_files
    BY <1>1, <1>3, <1>4, AddMoves
  <2>2. /\ stage' = "links" /\ Len(ld_infos') <= Len(ld_results) /\ Infos \subseteq Infos'
        /\ \A m \in Infos : ld_infos'[m] = ld_infos[m]
    BY <1>1, <2>1, AddedInfo
  <2> QED  BY <1>3, <2>1, <2>2
<1>5. CASE CopyCompiled
  <2>1. PICK info \in to_copy : CopiedInto(info)
    BY <1>1, <1>5, CopyMoves
  <2>2. /\ stage' # "test_ld" /\ Infos' = Infos /\ Len(ld_infos') <= Len(ld_results)
        /\ next_result \in DOMAIN cc_results
        /\ \A m \in Infos : ld_infos'[m].dir = ld_infos[m].dir
    BY <1>1, <1>3, <1>5, CompileMoves, CopiedInfos DEF Infos
  <2>3. info \in Infos
    <3>1. info \in DOMAIN ld_infos /\ IsList(ld_infos) /\ IsList(ld_results)
      BY <1>1, <2>1 DEF CopiedInto, OutputStep, IInv, ListTypes
    <3> QED  BY <1>3, <3>1, ListElements DEF Infos
  <2>4. Consumes(info, next_result)
    BY <1>1, <2>1, <2>3 DEF Infos, OutputStep, IInv, CompilesInv, CopyRight
  <2>5. \A f \in pp_files' :
          f \in pp_files \/ (f.path[1] = ld_infos[info].dir /\ f.file = cc_results[next_result].file)
    BY <2>1 DEF CopiedInto, Compiled
  <2> QED  BY <1>3, <2>2, <2>3, <2>4, <2>5
<1>6. CASE ~(AddLink \/ AddTestLd \/ CopyCompiled)
  BY <1>1, <1>2, <1>3, <1>6, InfosUntouched
<1> QED  BY <1>4, <1>5, <1>6

\* Only what is compiled is struck off the dependencies.
LEMMA OutputDependenciesKept == ASSUME ContentStep PROVE DependenciesKept'
<1>1. /\ OutputStep /\ UNCHANGED <<cc_results, as_results, ld_results>>
      /\ \A m : Sources(m)' = Sources(m)
  BY OutputMoves DEF ContentStep
<1> DEFINE Units == {cc_results[n].target : n \in DOMAIN cc_results}
<1>2. SUFFICES \A m \in Infos' : Sources(m) \ Units \subseteq ld_infos'[m].dependencies
  BY <1>1 DEF DependenciesKept
<1>3. \A m \in Infos : Sources(m) \ Units \subseteq ld_infos[m].dependencies
  BY DEF ContentStep, ContentsInv, DependenciesKept
<1>4. CASE AddLink \/ AddTestLd
  <2> HIDE DEF Units
  <2> QED  BY <1>1, <1>3, <1>4, AddedInfo
<1>5. CASE CopyCompiled
  <2>1. PICK info \in to_copy : CopiedInto(info)
    BY <1>1, <1>5, CopyMoves
  <2>2. Compiled.target \in Units
    BY <1>1, <1>5, CompileMoves DEF Compiled
  <2>3. Infos' = Infos /\ Infos \subseteq DOMAIN ld_infos
    BY <1>1, <1>5, CopiedInfos DEF Infos
  <2> HIDE DEF Units
  <2>4. \A m \in Infos : ld_infos[m].dependencies \ Units \subseteq ld_infos'[m].dependencies
    BY <2>1, <2>2, <2>3 DEF CopiedInto
  <2> QED  BY <1>3, <2>3, <2>4
<1>6. CASE ~(AddLink \/ AddTestLd \/ CopyCompiled)
  BY <1>1, <1>3, <1>6, InfosUntouched
<1> QED  BY <1>4, <1>5, <1>6

\* What a step makes of the names.
LEMMA NameMoves ==
  ASSUME OutputStep
  PROVE  /\ AddLink => dependency_names' = Insert(dependency_names, PathOf(next_result), Deduplicated(Base))
         /\ AddTestLd => dependency_names' = Insert(dependency_names, TestLd, Deduplicated(Base))
         /\ ~(AddLink \/ AddTestLd \/ WriteProperties) => UNCHANGED <<dependency_names, properties>>
         /\ AddLink \/ AddTestLd => properties' = properties
<1>1. AddLink => /\ properties' = properties
                 /\ dependency_names' = Insert(dependency_names, PathOf(next_result), Deduplicated(Base))
  BY DEF AddLink, PathOf, Base
<1>2. AddTestLd => /\ properties' = properties
                   /\ dependency_names' = Insert(dependency_names, TestLd, Deduplicated(Base))
  BY DEF AddTestLd, Base
<1>3. ~(AddLink \/ AddTestLd \/ WriteProperties) => UNCHANGED <<dependency_names, properties>>
  BY DEF OutputStep, NextOutput, EndLinks, DropUnlinked, TakeCompiled, CopyCompiled,
         EndCompiled, EndCompiles, EndProperties
<1> QED  BY <1>1, <1>2, <1>3

\* A property file takes the names of its dependencies out of the map.
LEMMA NamesWritten ==
  ASSUME OutputStep, WriteProperties
  PROVE  LET p == Len(properties) + 1
             known == ld_infos[p].dependencies \cap DOMAIN dependency_names
         IN /\ DOMAIN properties = 1 .. Len(properties) /\ Len(properties) \in Nat
            /\ DOMAIN properties' = DOMAIN properties \cup {p}
            /\ \A q \in DOMAIN properties : properties'[q] = properties[q]
            /\ properties'[p].names = {dependency_names[d] : d \in known}
            /\ DOMAIN dependency_names' = DOMAIN dependency_names
            /\ \A d \in DOMAIN dependency_names \ known : dependency_names'[d] = dependency_names[d]
            /\ ld_infos' = ld_infos
<1> DEFINE p == Len(properties) + 1
           known == ld_infos[p].dependencies \cap DOMAIN dependency_names
           r == [dir |-> ld_infos[p].dir, scan_options |-> ld_infos[p].scan_options,
                 names |-> {dependency_names[d] : d \in known},
                 paths |-> ld_infos[p].dependencies \ known]
<1>1. stage = "properties" /\ next_result \in Nat \ {0} /\ IsList(properties)
  BY DEF WriteProperties, OutputStep, IInv, TypeOK, ListTypes
<1>2. next_result = p /\ Len(properties) \in Nat
  BY <1>1, ListElements DEF OutputStep, IInv, PropertiesInv
<1>3. /\ properties' = Append(properties, r)
      /\ dependency_names' = [d \in DOMAIN dependency_names |->
                                IF d \in known THEN Moved ELSE dependency_names[d]]
      /\ ld_infos' = ld_infos
  BY <1>2 DEF WriteProperties
<1>4. r.names = {dependency_names[d] : d \in known}
  OBVIOUS
<1> HIDE DEF r, known
<1>5. /\ DOMAIN properties = 1 .. Len(properties)
      /\ DOMAIN Append(properties, r) = 1 .. Len(properties) + 1
      /\ \A q \in 1 .. Len(properties) : Append(properties, r)[q] = properties[q]
      /\ Append(properties, r)[Len(properties) + 1] = r
  BY <1>1, AppendToList
<1>6. 1 .. Len(properties) + 1 = (1 .. Len(properties)) \cup {p}
  BY <1>2
<1>7. /\ DOMAIN dependency_names' = DOMAIN dependency_names
      /\ \A d \in DOMAIN dependency_names \ known : dependency_names'[d] = dependency_names[d]
  BY <1>3
<1>8. /\ DOMAIN properties' = DOMAIN properties \cup {p}
      /\ \A q \in DOMAIN properties : properties'[q] = properties[q]
      /\ properties'[p].names = {dependency_names[d] : d \in known}
  BY <1>3, <1>4, <1>5, <1>6
<1> QED  BY <1>2, <1>3, <1>5, <1>7, <1>8 DEF known

\* A name that is put in the map for a path stays there until it is moved.
LEMMA OutputNamesKept == ASSUME ContentStep PROVE NamesKept'
<1>1. /\ OutputStep /\ IInv /\ UNCHANGED <<cc_results, as_results, ld_results>>
      /\ \A m : PathOf(m)' = PathOf(m) /\ (Alone(m)' <=> Alone(m))
  BY OutputMoves, SamePaths DEF ContentStep, OutputStep
<1>2. SUFFICES
        /\ \A d \in DOMAIN dependency_names' :
             \/ d = TestLd /\ stage' \notin {"links", "test_ld"}
             \/ \E m \in Infos' : d = PathOf(m)
        /\ \A m \in Infos' :
             /\ PathOf(m) \in DOMAIN dependency_names'
             /\ Alone(m) /\ (\A p \in DOMAIN properties' : PathOf(m) \notin ld_infos'[p].dependencies) =>
                  dependency_names'[PathOf(m)] = ld_infos'[m].dir
  BY <1>1 DEF NamesKept
<1>3. /\ \A d \in DOMAIN dependency_names :
           \/ d = TestLd /\ stage \notin {"links", "test_ld"}
           \/ \E m \in Infos : d = PathOf(m)
      /\ \A m \in Infos :
           /\ PathOf(m) \in DOMAIN dependency_names
           /\ Alone(m) /\ (\A p \in DOMAIN properties : PathOf(m) \notin ld_infos[p].dependencies) =>
                dependency_names[PathOf(m)] = ld_infos[m].dir
  BY DEF ContentStep, ContentsInv, NamesKept
<1>4. CASE AddLink
  <2> DEFINE l == Len(ld_infos) + 1  P == PathOf(l)  d == Deduplicated(Base)
  <2>1. /\ stage = "links" /\ l = next_result /\ Infos' = Infos \cup {l} /\ l \notin Infos
        /\ \A m \in Infos : ld_infos'[m] = ld_infos[m]
        /\ l \in DOMAIN ld_results /\ ld_infos'[l].dir = d
    BY <1>1, <1>4, AddedInfo
  <2>2. DOMAIN properties = {} /\ DOMAIN properties' = {}
    BY <1>1, <1>4, <2>1, NoneWritten, NameMoves
  <2>3. dependency_names' = Insert(dependency_names, P, d)
    BY <1>1, <1>4, <2>1, NameMoves
  <2> HIDE DEF P, d, l
  <2>4. /\ DOMAIN dependency_names' = DOMAIN dependency_names \cup {P}
        /\ \A k \in DOMAIN dependency_names : dependency_names'[k] = dependency_names[k]
        /\ P \notin DOMAIN dependency_names => dependency_names'[P] = d
    BY <2>3 DEF Insert, Put
  <2>5. ASSUME Alone(l) PROVE P \notin DOMAIN dependency_names
    <3> SUFFICES ASSUME NEW m \in Infos, P = PathOf(m) PROVE FALSE
      BY <1>3, <2>1
    <3> QED  BY <2>1, <2>5 DEF Alone, Infos, P
  <2>6. \A m \in Infos : /\ PathOf(m) \in DOMAIN dependency_names'
                         /\ Alone(m) => dependency_names'[PathOf(m)] = ld_infos'[m].dir
    BY <1>3, <2>1, <2>2, <2>4
  <2>7. PathOf(l) \in DOMAIN dependency_names' /\ (Alone(l) => dependency_names'[PathOf(l)] = ld_infos'[l].dir)
    BY <2>1, <2>4, <2>5 DEF P
  <2>8. \A k \in DOMAIN dependency_names' : \E m \in Infos' : k = PathOf(m)
    BY <1>3, <2>1, <2>4 DEF P
  <2> QED  BY <2>1, <2>6, <2>7, <2>8
<1>5. CASE AddTestLd
  <2>1. /\ stage = "test_ld" /\ stage' = "compiles" /\ Infos' = Infos
        /\ \A m \in Infos : ld_infos'[m] = ld_infos[m]
    BY <1>1, <1>5, AddedInfo
  <2>2. DOMAIN properties = {} /\ DOMAIN properties' = {}
    BY <1>1, <1>5, <2>1, NoneWritten, NameMoves
  <2>3. /\ DOMAIN dependency_names' = DOMAIN dependency_names \cup {TestLd}
        /\ \A k \in DOMAIN dependency_names : dependency_names'[k] = dependency_names[k]
    BY <1>1, <1>5, NameMoves DEF Insert, Put
  <2> QED  BY <1>3, <2>1, <2>2, <2>3
<1>6. CASE CopyCompiled
  <2>1. /\ stage = "copies" /\ stage' = "copies" /\ Infos' = Infos
        /\ \A m \in Infos : ld_infos'[m].dir = ld_infos[m].dir
    BY <1>1, <1>6, CompileMoves, CopiedInfos DEF Infos
  <2>2. UNCHANGED <<dependency_names, properties>>
    BY <1>6 DEF CopyCompiled
  <2>3. DOMAIN properties = {} /\ DOMAIN properties' = {}
    BY <1>1, <2>1, <2>2, NoneWritten
  <2> QED  BY <1>3, <2>1, <2>2, <2>3
<1>7. CASE ~(AddLink \/ AddTestLd \/ CopyCompiled \/ WriteProperties)
  BY <1>1, <1>3, <1>7, InfosUntouched, NameMoves
<1>8. CASE WriteProperties
  <2> DEFINE p == Len(properties) + 1
             known == ld_infos[p].dependencies \cap DOMAIN dependency_names
  <2>1. /\ DOMAIN properties' = DOMAIN properties \cup {p}
        /\ DOMAIN dependency_names' = DOMAIN dependency_names
        /\ \A d \in DOMAIN dependency_names \ known : dependency_names'[d] = dependency_names[d]
        /\ ld_infos' = ld_infos
    BY <1>1, <1>8, NamesWritten
  <2>2. stage \notin {"links", "test_ld"} /\ stage' \notin {"links", "test_ld"} /\ Infos' = Infos
    BY <1>1, <1>8, <2>1, WriteMoves DEF Infos
  <2> QED  BY <1>3, <2>1, <2>2
<1> QED  BY <1>4, <1>5, <1>6, <1>7, <1>8

\* The first property file that depends on a path gets its name.
LEMMA OutputNamesListed == ASSUME ContentStep PROVE NamesListed'
<1>1. /\ OutputStep /\ IInv /\ UNCHANGED <<cc_results, as_results, ld_results>>
      /\ \A m : PathOf(m)' = PathOf(m) /\ (Alone(m)' <=> Alone(m))
  BY OutputMoves, SamePaths DEF ContentStep, OutputStep
<1>2. SUFFICES ASSUME NEW p \in DOMAIN properties', NEW m \in Infos', Alone(m),
                      PathOf(m) \in ld_infos'[p].dependencies,
                      \A q \in 1 .. p - 1 : PathOf(m) \notin ld_infos'[q].dependencies
               PROVE  ld_infos'[m].dir \in properties'[p].names
  BY <1>1 DEF NamesListed
<1>3. \A q \in DOMAIN properties, k \in Infos :
        /\ Alone(k) /\ PathOf(k) \in ld_infos[q].dependencies
        /\ \A r \in 1 .. q - 1 : PathOf(k) \notin ld_infos[r].dependencies
        => ld_infos[k].dir \in properties[q].names
  BY DEF ContentStep, ContentsInv, NamesListed
<1>4. CASE WriteProperties
  <2> DEFINE new == Len(properties) + 1
             known == ld_infos[new].dependencies \cap DOMAIN dependency_names
  <2>1. /\ DOMAIN properties = 1 .. Len(properties) /\ Len(properties) \in Nat
        /\ DOMAIN properties' = DOMAIN properties \cup {new}
        /\ \A q \in DOMAIN properties : properties'[q] = properties[q]
        /\ properties'[new].names = {dependency_names[d] : d \in known}
        /\ ld_infos' = ld_infos /\ Infos' = Infos
    BY <1>1, <1>4, NamesWritten DEF Infos
  <2>2. CASE p \in DOMAIN properties
    BY <1>2, <1>3, <2>1, <2>2
  <2>3. CASE p = new
    <3>1. PathOf(m) \in known /\ dependency_names[PathOf(m)] = ld_infos[m].dir
      <4>1. \A q \in DOMAIN properties : PathOf(m) \notin ld_infos[q].dependencies
        BY <1>2, <2>1, <2>3
      <4> QED  BY <1>2, <2>1, <2>3, <4>1 DEF ContentStep, ContentsInv, NamesKept
    <3> QED  BY <2>1, <2>3, <3>1
  <2> QED  BY <2>1, <2>2, <2>3
<1>5. CASE ~WriteProperties
  <2>1. properties' = properties
    BY <1>1, <1>5, NameMoves
  <2>2. stage \in {"properties", "written"}
    BY <1>1, <1>2, <2>1, NoneWritten
  <2>3. ~(AddLink \/ AddTestLd \/ CopyCompiled)
    BY <1>1, <2>2, CompileMoves, AddMoves
  <2> QED  BY <1>1, <1>2, <1>3, <2>1, <2>3, InfosUntouched
<1> QED  BY <1>4, <1>5

\* A step of generate_output keeps all this.
LEMMA OutputContents == ASSUME ContentStep PROVE ContentsInv'
BY OutputCopiesOrigin, OutputDependenciesKept, OutputNamesKept, OutputNamesListed DEF ContentsInv

\* While the items are worked on there is nothing to be accounted for.
LEMMA NoContents ==
  ASSUME stage = "links", ld_infos = <<>>, pp_files = {}, properties = <<>>, IsList(ld_results),
         DOMAIN dependency_names = {}
  PROVE  ContentsInv
<1>1. Infos = {} /\ DOMAIN properties = {} /\ Len(ld_infos) = 0 /\ Len(ld_results) \in Nat
  BY EmptyList, ListElements DEF Infos
<1> QED  BY <1>1 DEF ContentsInv, CopiesOrigin, DependenciesKept, NamesKept, NamesListed

\* An item's step keeps it so.
LEMMA ItemContents == ASSUME NEW i \in Items, ItemStep(i), ContentsInv PROVE ContentsInv'
<1>1. /\ stage = "links" /\ ld_infos = <<>> /\ pp_files = {} /\ properties = <<>>
      /\ UNCHANGED <<stage, ld_infos, pp_files, properties, dependency_names>>
  BY ItemOutput
<1>2. Infos = {}
  BY <1>1, EmptyList DEF Infos
<1>3. DOMAIN dependency_names = {}
  BY <1>1, <1>2 DEF ContentsInv, NamesKept
<1>4. IsList(ld_results')
  BY ItemListTypes DEF ListTypes, IsList
<1> DEFINE E == <<>>
<1>5. /\ stage' = "links" /\ ld_infos' = <<>> /\ pp_files' = {} /\ properties' = <<>>
      /\ DOMAIN dependency_names' = {}
  BY <1>1, <1>3
<1>6. Infos' = {} /\ DOMAIN properties' = {} /\ Len(ld_infos') = 0 /\ Len(ld_results') \in Nat
  BY <1>4, <1>5, EmptyList, ListElements DEF Infos
<1> QED  BY <1>5, <1>6 DEF ContentsInv, CopiesOrigin, DependenciesKept, NamesKept, NamesListed

\* A step of process itself touches nothing of it.
LEMMA ControlContents == ASSUME ControlStep, ContentsInv PROVE ContentsInv'
<1>1. /\ UNCHANGED <<need_process_link_using_compiler, cc_results, as_results, ld_results>>
      /\ UNCHANGED <<stage, dependency_names, ld_infos, pp_files, properties>>
  BY ControlMoves
<1>2. /\ \A m : Sources(m)' = Sources(m) /\ PathOf(m)' = PathOf(m) /\ (Alone(m)' <=> Alone(m))
      /\ \A m, n : Consumes(m, n)' <=> Consumes(m, n)
      /\ Infos' = Infos
  BY <1>1, SamePaths DEF Infos
<1>3. CopiesOrigin' /\ DependenciesKept'
  BY <1>1, <1>2 DEF ContentsInv, CopiesOrigin, DependenciesKept
<1>4. NamesKept' /\ NamesListed'
  BY <1>1, <1>2 DEF ContentsInv, NamesKept, NamesListed
<1> QED  BY <1>3, <1>4 DEF ContentsInv

-----------------------------------------------------------------------------
\* In every run, for every compile database, thread count and loss of files, each
\* result and each file of the archive comes from a command of the database that asks
\* for it, none is missing that no lost source accounts for, and the names of the
\* link targets are kept until they are listed: every part of the invariant holds.
\* (work-item-processor.cpp:60-110 and 130-236, build-processor.cpp:286-480)
THEOREM BuildInvariantHolds == Spec => []BuildInv
<1>1. Init => BuildInv
  <2> SUFFICES ASSUME Init PROVE BuildInv
    OBVIOUS
  <2>1. IInv /\ ResultsInv
    BY InitInvariant, ResultsInit
  <2>2. ContentsInv
    <3>1. DOMAIN dependency_names = {}
      BY EmptyList DEF Init, InitOutput
    <3> QED  BY <2>1, <3>1, NoContents DEF Init, InitOutput, IInv, ListTypes
  <2> QED  BY <2>1, <2>2 DEF BuildInv
<1>2. BuildInv /\ [Next]_vars => BuildInv'
  <2> SUFFICES ASSUME BuildInv, [Next]_vars PROVE BuildInv'
    OBVIOUS
  <2>1. IInv /\ ResultsInv /\ ContentsInv
    BY DEF BuildInv
  <2>2. CASE OutputStep
    <3>1. ResultsInv'
      BY <2>1, <2>2, OutputMoves, ResultsStay
    <3>2. ContentsInv'
      BY <2>1, <2>2, OutputContents DEF ContentStep
    <3> QED  BY <2>2, <3>1, <3>2, OutputIInv DEF BuildInv
  <2>3. CASE ControlStep
    <3>1. ResultsInv'
      BY <2>1, <2>3, ControlMoves, ResultsStay
    <3> QED  BY <2>1, <2>3, <3>1, ControlIInv, ControlContents DEF BuildInv
  <2>4. ASSUME NEW i \in Items, ItemStep(i) PROVE BuildInv'
    BY <2>1, <2>4, ItemIInv, ItemResults, ItemContents DEF BuildInv, ResultStep
  <2> QED  BY <2>1, <2>2, <2>3, <2>4, StepKinds
<1> QED  BY <1>1, <1>2, PTL DEF Spec

-----------------------------------------------------------------------------
(* Which units reach which link targets.                                   *)

\* The assembler commands that make a path.
AssemblersOf(path) == {a \in Items : Is("assemble", a) /\ Command(a).target = path}

\* When all items are over, a path is looked through exactly if a command assembles it.
LEMMA ActualOf ==
  ASSUME BuildInv, AllOver, NEW path
  PROVE  IF AssemblersOf(path) = {} THEN Actual(path) = path
         ELSE \E a \in AssemblersOf(path) : Actual(path) = Command(a).sources[1].file
<1>1. /\ \A n \in DOMAIN as_results : \E a \in Items : Is("assemble", a) /\ as_results[n] = AsResult(a)
      /\ \A a \in Items : Is("assemble", a) => AsResult(a) \in ToSet(as_results)
      /\ Len(as_results) \in Nat /\ DOMAIN as_results = 1 .. Len(as_results)
  BY ListElements DEF BuildInv, IInv, ListTypes, ResultsInv, AsOrigin, AsComplete, AllOver
<1>2. CASE AssemblersOf(path) = {}
  <2>1. path \notin Assembled
    BY <1>1, <1>2 DEF AssemblersOf, Assembled, AsResult
  <2> QED  BY <1>2, <2>1 DEF Actual
<1>3. CASE AssemblersOf(path) # {}
  <2> DEFINE Mine == {n \in DOMAIN as_results : as_results[n].target = path}
  <2>1. Mine # {} /\ path \in Assembled
    <3>1. PICK a \in Items : Is("assemble", a) /\ Command(a).target = path
      BY <1>3 DEF AssemblersOf
    <3>2. AsResult(a).target = path
      BY <3>1 DEF AsResult
    <3>3. PICK n \in DOMAIN as_results : as_results[n] = AsResult(a)
      BY <1>1, <3>1 DEF ToSet
    <3> QED  BY <3>2, <3>3 DEF Assembled
  <2>2. \E g \in Mine : \A k \in Mine : k <= g
    <3>1. Mine \in SUBSET (0 .. Len(as_results))
      BY <1>1
    <3> HIDE DEF Mine
    <3> QED  BY <1>1, <2>1, <3>1, GreatestExists
  <2>3. \E g \in DOMAIN as_results : /\ as_results[g].target = path
                                     /\ \A k \in DOMAIN as_results : as_results[k].target = path => k <= g
    BY <2>2
  <2>4. PICK g \in DOMAIN as_results : as_results[g].target = path /\ AsSource(path) = as_results[g].source
    BY <2>3 DEF AsSource
  <2>5. PICK a \in Items : Is("assemble", a) /\ as_results[g] = AsResult(a)
    BY <1>1
  <2>6. a \in AssemblersOf(path) /\ Actual(path) = Command(a).sources[1].file
    BY <2>1, <2>4, <2>5 DEF AssemblersOf, AsResult, Actual
  <2> QED  BY <1>3, <2>6
<1> QED  BY <1>2, <1>3

\* What a database of fresh paths says of the made-up ones.
Fresh(path) == path.dir \notin MadeUpDirs

\* What an orderly database says of one command: no path of it is made up.
LEMMA FreshCommands ==
  ASSUME cdb \in Cdbs, FreshPaths(cdb), NEW i \in Items
  PROVE  /\ Fresh(Command(i).target) /\ IsPlain(Command(i).target.name)
         /\ IntoDir(i) => Command(i).target.name.stem \notin MadeUpDirs
         /\ \A n \in DOMAIN Command(i).sources : Fresh(Command(i).sources[n].file)
         /\ \A file \in ToSet(FilesOf(i)) : Fresh(file)
         /\ Command(i).sources # <<>> => 1 \in DOMAIN Command(i).sources
<1>1. /\ Fresh(Command(i).target) /\ IsPlain(Command(i).target.name)
      /\ IntoDir(i) => Command(i).target.name.stem \notin MadeUpDirs
      /\ \A n \in DOMAIN Command(i).sources : Fresh(Command(i).sources[n].file)
  BY DEF FreshPaths, Items, Command, Fresh, IntoDir, SourceFiles
<1>2. \A file \in ToSet(FilesOf(i)) : Fresh(file)
  BY <1>1 DEF FilesOf, ToSet
<1>3. Command(i).sources # <<>> => 1 \in DOMAIN Command(i).sources
  <2>1. IsList(Command(i).sources)
    BY CommandSources
  <2>2. Command(i).sources = <<>> \/ 1 \in DOMAIN Command(i).sources
    <3> DEFINE list == Command(i).sources
    <3>1. list \in Seq(ToSet(list))
      BY <2>1 DEF IsList
    <3> HIDE DEF list
    <3>2. list = <<>> \/ 1 \in DOMAIN list
      BY <3>1, EmptySeq, LenProperties
    <3> QED  BY <3>2 DEF list
  <2> QED  BY <2>2
<1> QED  BY <1>1, <1>2, <1>3

\* A made-up path tells its item, and no command assembles it or a source to it.
LEMMA MadeUpFacts ==
  ASSUME NEW i, NEW k
  PROVE  /\ MadeUp(i, k).dir = "unique" /\ ~Fresh(MadeUp(i, k))
         /\ \A j, l : MadeUp(i, k) = MadeUp(j, l) => i = j
<1>1. \A j, l : MadeUp(j, l).dir = "unique" /\ MadeUp(j, l).name.stem = j
  BY DEF MadeUp, Numbered, Name
<1> QED  BY <1>1 DEF Fresh, MadeUpDirs

\* What a link consumes is a path of the database, or a made-up one of its own item.
LEMMA ConsumedPaths ==
  ASSUME BuildInv, AllOver, FreshPaths(cdb), NEW m \in DOMAIN ld_results, NEW path \in Sources(m)
  PROVE  \/ /\ Fresh(path)
            /\ \E j \in Items : /\ Is("link", j) /\ LinkTarget(j).name \in Linkable
                                /\ ld_results[m] = LinkResult(j)
                                /\ \E s \in ToSet(FilesOf(j)) : path = Actual(s)
         \/ \E j \in Items : \E k : /\ Is("compile", j) /\ path = MadeUp(j, k)
                                    /\ CompileTarget(j).name \in Linkable
                                    /\ ld_results[m].target = Basename(CompileTarget(j))
<1>1. cdb \in Cdbs
  BY DEF BuildInv, IInv, ItemsInv, ItemSteps
<1>2. PICK t \in ToSet(ld_results[m].sources) : path = Actual(t)
  BY DEF Sources, LinkSources
<1>3. PICK j \in Items : LinkedBy(ld_results[m], j)
  BY DEF BuildInv, ResultsInv, LinksOrigin
<1>4. \A a \in AssemblersOf(t) : Fresh(t) /\ Fresh(Command(a).sources[1].file)
  BY <1>1, FreshCommands DEF AssemblersOf, Is, Skipped
<1>5. CASE Is("link", j) /\ LinkTarget(j).name \in Linkable /\ ld_results[m] = LinkResult(j)
  <2>1. t \in ToSet(FilesOf(j)) /\ Fresh(t)
    BY <1>1, <1>2, <1>5, FreshCommands DEF LinkResult
  <2>2. Fresh(path)
    BY <1>2, <1>4, <2>1, ActualOf
  <2> QED  BY <1>2, <1>5, <2>1, <2>2
<1>6. CASE ~(Is("link", j) /\ LinkTarget(j).name \in Linkable /\ ld_results[m] = LinkResult(j))
  <2>1. /\ Is("compile", j) /\ CompileTarget(j).name \in Linkable
        /\ ld_results[m].target = Basename(CompileTarget(j))
        /\ \A s \in ToSet(ld_results[m].sources) : \E k \in DOMAIN Command(j).sources : s = MadeUp(j, k)
    BY <1>3, <1>6 DEF LinkedBy
  <2>2. PICK k : t = MadeUp(j, k)
    BY <1>2, <2>1
  <2>3. AssemblersOf(t) = {}
    BY <1>4, <2>2, MadeUpFacts
  <2>4. path = MadeUp(j, k)
    BY <1>2, <2>2, <2>3, ActualOf
  <2> QED  BY <2>1, <2>4
<1> QED  BY <1>5, <1>6

\* A file of the archive lies in the directory of a link that consumes its unit.
LEMMA ArchivedAs ==
  ASSUME BuildInv, Written, ~need_process_link_using_compiler, FreshPaths(cdb),
         NEW i \in Items, Is("compile", i), Lossless(i), NEW n \in DOMAIN Command(i).sources
  PROVE  /\ ArchivedUnder(<<i, n>>) =
              {ld_results[m].target.name : m \in {m \in DOMAIN ld_results : UnitTarget(i, n) \in Sources(m)}}
         /\ \E c \in DOMAIN cc_results : cc_results[c].file = <<i, n>> /\ cc_results[c].target = UnitTarget(i, n)
         /\ ~HasMore(i)
<1>1. /\ AllOver /\ cdb \in Cdbs /\ Len(ld_results) <= Len(ld_infos)
      /\ IsList(ld_results) /\ IsList(ld_infos) /\ source[i] \in Nat \ {0}
  BY DEF Written, BuildInv, IInv, ItemsInv, ItemSteps, PhasesApart, LinksInv, InfosNumbered, ListTypes, TypeOK
<1>2. DOMAIN ld_results \subseteq DOMAIN ld_infos
  BY <1>1, ListElements
<1>3. ~HasMore(i) /\ \A k \in 1 .. source[i] - 1 : \E c \in DOMAIN cc_results : cc_results[c].file = <<i, k>>
  BY <1>1 DEF BuildInv, ResultsInv, UnitsComplete, AllOver
<1>4. PICK c \in DOMAIN cc_results : cc_results[c].file = <<i, n>>
  <2>1. IsList(Command(i).sources)
    BY <1>1, CommandSources
  <2>2. n \in 1 .. source[i] - 1
    BY <1>1, <1>3, <2>1, ListElements DEF HasMore
  <2> QED  BY <1>3, <2>2
<1>5. \A d \in DOMAIN cc_results : cc_results[d].file = <<i, n>> => cc_results[d].target = UnitTarget(i, n)
  BY DEF BuildInv, ResultsInv, UnitsOrigin
<1>6. \A m \in DOMAIN ld_results : IsPlain(ld_results[m].target.name)
  <2> SUFFICES ASSUME NEW m \in DOMAIN ld_results PROVE IsPlain(ld_results[m].target.name)
    OBVIOUS
  <2>1. PICK j \in Items : LinkedBy(ld_results[m], j)
    BY DEF BuildInv, ResultsInv, LinksOrigin
  <2>2. IsPlain(LinkTarget(j).name) /\ IsPlain(CompileTarget(j).name)
    BY <1>1, FreshCommands DEF LinkTarget, TargetToLink, CompileTarget, IsPlain, File, Name
  <2>3. ld_results[m].target \in {Basename(LinkTarget(j)), Basename(CompileTarget(j))}
    BY <2>1 DEF LinkedBy, LinkResult
  <2>4. IsFile(LinkTarget(j)) /\ IsFile(CompileTarget(j))
    <3>1. \A d, s, e : IsFile(File(d, s, e))
      BY DEF IsFile, IsName, File, Name
    <3> QED  BY <1>1, <3>1, CommandSources DEF LinkTarget, TargetToLink, CompileTarget
  <2>5. \A path : IsFile(path) => Basename(path).name = path.name
    BY DEF IsFile, Basename
  <2> QED  BY <2>2, <2>3, <2>4, <2>5
<1>7. \A l, m \in DOMAIN ld_infos : ld_infos[l].dir = ld_infos[m].dir => l = m
  BY <1>6 DEF BuildInv, IInv, LinksInv, ArchivePathsDistinct, DirsDistinct
<1>8. ASSUME NEW m \in DOMAIN ld_results
      PROVE  (\E f \in pp_files : f.file = <<i, n>> /\ f.path[1] = ld_infos[m].dir)
               <=> UnitTarget(i, n) \in Sources(m)
  <2>1. ASSUME NEW f \in pp_files, f.file = <<i, n>>, f.path[1] = ld_infos[m].dir
        PROVE  UnitTarget(i, n) \in Sources(m)
    <3>1. PICK l \in Infos, d \in DOMAIN cc_results :
            Consumes(l, d) /\ f.path[1] = ld_infos[l].dir /\ f.file = cc_results[d].file
      BY DEF BuildInv, ContentsInv, CopiesOrigin
    <3>2. l = m
      BY <1>2, <1>7, <2>1, <3>1 DEF Infos
    <3> QED  BY <1>5, <2>1, <3>1, <3>2 DEF Consumes
  <2>2. ASSUME UnitTarget(i, n) \in Sources(m)
        PROVE  \E f \in pp_files : f.file = <<i, n>> /\ f.path[1] = ld_infos[m].dir
    <3>1. Handled(c, m) /\ Consumes(m, c)
      BY <1>4, <1>5, <2>2 DEF Handled, AfterCompiles, Written, Consumes
    <3> QED  BY <1>4, <3>1 DEF BuildInv, IInv, CompilesInv, UnitsHandled
  <2> QED  BY <2>1, <2>2
<1>9. ArchivedUnder(<<i, n>>) =
        {ld_results[m].target.name : m \in {m \in DOMAIN ld_results : UnitTarget(i, n) \in Sources(m)}}
  BY <1>8 DEF ArchivedUnder
<1> QED  BY <1>3, <1>4, <1>5, <1>9

\* The made-up targets of a command's sources go where the command's target goes.
LEMMA BridgedExpected ==
  ASSUME BuildInv, Written, ~need_process_link_using_compiler, FreshPaths(cdb),
         NEW i \in Items, Is("compile", i), Lossless(i), NEW n \in DOMAIN Command(i).sources,
         MultiSource(i), ~IntoDir(i)
  PROVE  ArchivedUnder(<<i, n>>) = {CompileTarget(i).name} \cap Linkable
<1> DEFINE path == MadeUp(i, n)
           Into == {m \in DOMAIN ld_results : path \in Sources(m)}
<1>1. AllOver /\ cdb \in Cdbs
  BY DEF Written, BuildInv, IInv, ItemsInv, ItemSteps, PhasesApart
<1>2. /\ UnitTarget(i, n) = path
      /\ ArchivedUnder(<<i, n>>) = {ld_results[m].target.name : m \in Into}
  BY ArchivedAs DEF UnitTarget
<1>3. Basename(CompileTarget(i)).name = CompileTarget(i).name
  <2>1. IsFile(CompileTarget(i))
    <3>1. \A d, s, e : IsFile(File(d, s, e))
      BY DEF IsFile, IsName, File, Name
    <3> QED  BY <1>1, <3>1, CommandSources DEF CompileTarget
  <2> QED  BY <2>1 DEF IsFile, Basename
<1>4. ASSUME NEW m \in Into
      PROVE  ld_results[m].target.name = CompileTarget(i).name /\ CompileTarget(i).name \in Linkable
  <2>1. PICK j \in Items : \E k : /\ path = MadeUp(j, k) /\ CompileTarget(j).name \in Linkable
                                  /\ ld_results[m].target = Basename(CompileTarget(j))
    BY <1>1, <1>4, ConsumedPaths, MadeUpFacts
  <2>2. j = i
    BY <2>1, MadeUpFacts
  <2> QED  BY <1>3, <2>1, <2>2
<1>5. ASSUME CompileTarget(i).name \in Linkable
      PROVE  \E m \in Into : ld_results[m].target.name = CompileTarget(i).name
  <2>1. PICK c \in DOMAIN cc_results : cc_results[c].file = <<i, n>> /\ cc_results[c].target = path
    BY <1>2, ArchivedAs
  <2>2. state[i] = "over" /\ ~GaveUp(i)
    BY <1>1, ArchivedAs DEF AllOver, GaveUp
  <2>3. PICK m \in DOMAIN ld_results : /\ ld_results[m].target = Basename(CompileTarget(i))
                                       /\ path \in ToSet(ld_results[m].sources)
    BY <1>5, <2>1, <2>2 DEF BuildInv, IInv, ItemsInv, SourcesBridged
  <2>4. Actual(path) = path
    <3>1. AssemblersOf(path) = {}
      BY <1>1, FreshCommands, MadeUpFacts DEF AssemblersOf
    <3> QED  BY <1>1, <3>1, ActualOf
  <2>5. m \in Into
    BY <2>3, <2>4 DEF Sources, LinkSources
  <2> QED  BY <1>3, <2>3, <2>5
<1> HIDE DEF Into
<1> QED  BY <1>2, <1>4, <1>5

\* The target of a command with one source, or of a source compiled into a
\* directory, goes into what links it, directly or through the assembler.
LEMMA LinkedExpected ==
  ASSUME BuildInv, Written, ~need_process_link_using_compiler, FreshPaths(cdb), AssembledOnce(cdb),
         NEW i \in Items, Is("compile", i), Lossless(i), NEW n \in DOMAIN Command(i).sources,
         ~(MultiSource(i) /\ ~IntoDir(i))
  PROVE  ArchivedUnder(<<i, n>>) = {LinkTarget(j).name : j \in ConsumedBy(ToolPath(i, n))}
<1> DEFINE path == ToolPath(i, n)
           Into == {m \in DOMAIN ld_results : path \in Sources(m)}
<1>1. AllOver /\ cdb \in Cdbs
  BY DEF Written, BuildInv, IInv, ItemsInv, ItemSteps, PhasesApart
<1>2. ArchivedUnder(<<i, n>>) = {ld_results[m].target.name : m \in Into}
  BY ArchivedAs DEF UnitTarget
<1>3. path.dir # "unique"
  <2>1. CASE IntoDir(i)
    BY <1>1, <2>1, FreshCommands DEF ToolPath, MadeUpDirs
  <2>2. CASE ~IntoDir(i)
    BY <1>1, <2>2, FreshCommands DEF ToolPath, CompileTarget, File, Fresh, MadeUpDirs
  <2> QED  BY <2>1, <2>2
<1>4. \A j \in Items : Basename(LinkTarget(j)).name = LinkTarget(j).name
  <2>1. \A d, s, e : IsFile(File(d, s, e))
    BY DEF IsFile, IsName, File, Name
  <2>2. \A j \in Items : IsFile(LinkTarget(j))
    BY <1>1, <2>1, CommandSources DEF LinkTarget, TargetToLink
  <2> QED  BY <2>2 DEF IsFile, Basename
<1>5. ConsumedBy(path) =
        {j \in Items : /\ Is("link", j) /\ LinkTarget(j).name \in Linkable
                       /\ \E t \in ToSet(FilesOf(j)) :
                            IF AssemblersOf(t) = {} THEN t = path
                            ELSE \E a \in AssemblersOf(t) : Command(a).sources[1].file = path}
  <2>1. \A j : ToSet(FilesOf(j)) = {Command(j).sources[s].file : s \in DOMAIN Command(j).sources}
    BY DEF ToSet, FilesOf
  <2> HIDE DEF path
  <2>2. \A a : Command(a).kind = "assemble" <=> HandledAs(Command(a)) = "assemble"
    BY DEF HandledAs
  <2> QED  BY <2>1, <2>2 DEF ConsumedBy, Is, AssemblersOf
<1> HIDE DEF path
<1>6. ASSUME NEW m \in Into
      PROVE  \E j \in ConsumedBy(path) : ld_results[m].target.name = LinkTarget(j).name
  <2>1. PICK j \in Items : /\ Is("link", j) /\ LinkTarget(j).name \in Linkable
                           /\ ld_results[m] = LinkResult(j)
                           /\ \E s \in ToSet(FilesOf(j)) : path = Actual(s)
    BY <1>1, <1>3, <1>6, ConsumedPaths, MadeUpFacts
  <2>2. PICK t \in ToSet(FilesOf(j)) : path = Actual(t)
    BY <2>1
  <2>3. IF AssemblersOf(t) = {} THEN t = path
        ELSE \E a \in AssemblersOf(t) : Command(a).sources[1].file = path
    BY <1>1, <2>2, ActualOf
  <2>4. j \in ConsumedBy(path)
    BY <1>5, <2>1, <2>3
  <2>5. ld_results[m].target.name = LinkTarget(j).name
    BY <1>4, <2>1 DEF LinkResult
  <2> QED  BY <2>4, <2>5
<1>7. ASSUME NEW j \in ConsumedBy(path)
      PROVE  \E m \in Into : ld_results[m].target.name = LinkTarget(j).name
  <2>1. j \in Items /\ Is("link", j) /\ LinkTarget(j).name \in Linkable
    BY <1>5
  <2>2. PICK t \in ToSet(FilesOf(j)) :
          IF AssemblersOf(t) = {} THEN t = path
          ELSE \E a \in AssemblersOf(t) : Command(a).sources[1].file = path
    BY <1>5
  <2>3. PICK m \in DOMAIN ld_results : ld_results[m] = LinkResult(j)
    BY <1>1, <2>1 DEF BuildInv, ResultsInv, LinksComplete, AllOver, ToSet
  <2>4. \A a, b \in AssemblersOf(t) : Command(a).sources[1].file = Command(b).sources[1].file
    BY DEF AssembledOnce, AssemblersOf, Commands, Items, Command, Is, Skipped
  <2>5. Actual(t) = path
    BY <1>1, <2>2, <2>4, ActualOf
  <2>6. m \in Into /\ ld_results[m].target.name = LinkTarget(j).name
    BY <1>4, <2>1, <2>2, <2>3, <2>5 DEF LinkResult, Sources, LinkSources
  <2> QED  BY <2>6
<1> HIDE DEF Into
<1>8. ArchivedUnder(<<i, n>>) = {LinkTarget(j).name : j \in ConsumedBy(path)}
  BY <1>2, <1>6, <1>7
<1> QED  BY <1>8 DEF path

\* Whatever order the threads take, the archive holds every unit of the build under
\* the link targets it belongs to, and under no others, when no source of its command
\* is lost: for every database whose paths are none of those that xcalbuild makes up,
\* and that assembles no object of two sources.
\* (build-processor.cpp:240-244 and 319-435, work-item-processor.cpp:130-236)
THEOREM OrderDoesNotMatter ==
  ASSUME \A db \in Cdbs : FreshPaths(db) /\ AssembledOnce(db)
  PROVE  Spec => []ScheduleIndependent
<1>1. BuildInv => ScheduleIndependent
  <2> SUFFICES ASSUME BuildInv, Written, ~need_process_link_using_compiler,
                      NEW i \in Items, Command(i).kind = "compile", ~Skipped(i),
                      \A k \in DOMAIN Command(i).sources :
                        Command(i).sources[k].file \notin Failing \cup Transient,
                      NEW n \in DOMAIN Command(i).sources
               PROVE  ArchivedUnder(<<i, n>>) = ExpectedTargets(i, n)
    BY DEF ScheduleIndependent
  <2>1. FreshPaths(cdb) /\ AssembledOnce(cdb)
    BY DEF BuildInv, IInv, ItemsInv, ItemSteps
  <2>2. Is("compile", i) /\ Lossless(i)
    BY DEF Is, HandledAs, Lossless, FilesOf, ToSet
  <2>3. CASE MultiSource(i) /\ ~IntoDir(i)
    BY <2>1, <2>2, <2>3, BridgedExpected DEF ExpectedTargets
  <2>4. CASE ~(MultiSource(i) /\ ~IntoDir(i))
    BY <2>1, <2>2, <2>4, LinkedExpected DEF ExpectedTargets
  <2> QED  BY <2>3, <2>4
<1> QED  BY <1>1, BuildInvariantHolds, PTL

-----------------------------------------------------------------------------
(* Under which name a library is listed.                                   *)

\* The hypotheses on a database of which a library is found.
Honest(db) == FreshPaths(db) /\ MadeOnce(db) /\ LinkedOnce(db) /\ ObjectsBeside(db)

\* A command without a target has none with a directory.
LEMMA NoTargetPath == NoTarget.dir = ""
BY DEF NoTarget, File

\* Indexes of a list, for MinFacts.
LEMMA FromZero ==
  ASSUME NEW n \in Nat, NEW S, S \subseteq 1 .. n
  PROVE  S \in SUBSET (0 .. n)
OBVIOUS

\* The object of a file's name.
LEMMA ObjectName ==
  ASSUME NEW file, IsFile(file)
  PROVE  LET name == [file EXCEPT !.name.ext = "o"].name
         IN name.ext = "o" /\ name.stem = file.name.stem /\ name.dups = file.name.dups
<1>1. file.name = [stem |-> file.name.stem, ext |-> file.name.ext, dups |-> file.name.dups]
  BY DEF IsFile, IsName
<1>2. [file EXCEPT !.name.ext = "o"].name = [file.name EXCEPT !.ext = "o"]
  BY DEF IsFile
<1> DEFINE n == file.name
<1>3. n = [stem |-> n.stem, ext |-> n.ext, dups |-> n.dups]
  BY <1>1
<1> HIDE DEF n
<1>4. LET name == [n EXCEPT !.ext = "o"] IN name.ext = "o" /\ name.stem = n.stem /\ name.dups = n.dups
  BY <1>3
<1> QED  BY <1>2, <1>4 DEF n

\* The commands that two files of a build tell apart.
LEMMA MadeByOne ==
  ASSUME MadeOnce(cdb), NEW i \in Items, NEW j \in Items, NEW path, path # NoTarget,
         Is("link", i) \/ Is("assemble", i), Command(i).target = path,
         ~Skipped(j), HandledAs(Command(j)) \in {"compile", "assemble", "link"}, path \in Made(cdb, j)
  PROVE  i = j
<1>1. path \in Made(cdb, i)
  BY DEF Made, HandledAs, Is, Command
<1>2. \A k \in Items : ~Skipped(k) /\ HandledAs(Command(k)) \in {"compile", "assemble", "link"} =>
        k \in UNION {Commands(cdb, kind) : kind \in {"compile", "assemble", "link"}}
  BY DEF Commands, Items, Command, Skipped
<1>3. ~Skipped(i) /\ HandledAs(Command(i)) \in {"compile", "assemble", "link"}
  BY DEF Is
<1>4. Made(cdb, i) \cap Made(cdb, j) # {}
  BY <1>1
<1> HIDE DEF Made
<1> QED  BY <1>2, <1>3, <1>4 DEF MadeOnce

\* What a compile result is the target of is made by a compile command, or made up.
LEMMA UnitsMadeBy ==
  ASSUME BuildInv, NEW n \in DOMAIN cc_results
  PROVE  \E c \in Items : /\ Command(c).kind = "compile" /\ ~Skipped(c)
                          /\ \/ cc_results[n].target \in Made(cdb, c)
                             \/ ~Fresh(cc_results[n].target)
<1>0. PICK c \in Items : \E k \in DOMAIN Command(c).sources :
        cc_results[n].file = <<c, k>> /\ cc_results[n].target = UnitTarget(c, k)
  BY DEF BuildInv, ResultsInv, UnitsOrigin
<1>1. PICK k \in DOMAIN Command(c).sources :
        cc_results[n].file = <<c, k>> /\ cc_results[n].target = UnitTarget(c, k)
  BY <1>0
<1>2. Command(c).kind = "compile"
  BY <1>1 DEF BuildInv, IInv, ItemsInv, UnitsMade
<1>3. ~Skipped(c)
  BY <1>1, <1>2, EmptyList DEF Skipped
<1>4. CASE MultiSource(c) /\ ~IntoDir(c)
  BY <1>1, <1>2, <1>3, <1>4, MadeUpFacts DEF UnitTarget
<1>5. CASE IntoDir(c)
  <2> DEFINE file == Command(c).sources[k].file
             made == [dir |-> Command(c).target.name.stem, name |-> [file.name EXCEPT !.ext = "o"]]
  <2>1. cc_results[n].target = made
    BY <1>1, <1>5 DEF UnitTarget, ToolPath
  <2>2. file \in SourceFiles(cdb, c)
    BY <1>1 DEF SourceFiles, Command
  <2>3. Made(cdb, c) = {[dir |-> Command(c).target.name.stem, name |-> [f.name EXCEPT !.ext = "o"]] :
                          f \in SourceFiles(cdb, c)}
    BY <1>2, <1>5 DEF Made, Command, IntoDir
  <2> HIDE DEF file
  <2>4. made \in Made(cdb, c)
    BY <2>2, <2>3
  <2> QED  BY <1>2, <1>3, <2>1, <2>4
<1>6. CASE ~MultiSource(c) /\ ~IntoDir(c)
  <2>1. cc_results[n].target = CompileTarget(c)
    BY <1>1, <1>6 DEF UnitTarget, ToolPath
  <2>2. CASE Command(c).target = NoTarget
    BY <1>2, <1>3, <2>1, <2>2 DEF CompileTarget, File, Fresh, MadeUpDirs
  <2>3. CASE Command(c).target # NoTarget
    <3>1. cc_results[n].target \in Made(cdb, c)
      BY <1>6, <2>1, <2>3 DEF CompileTarget, Made, Command, IntoDir
    <3> QED  BY <1>2, <1>3, <3>1
  <2> QED  BY <2>2, <2>3
<1> QED  BY <1>4, <1>5, <1>6

\* A path with a directory that a link result goes by is the target of its command.
LEMMA PathTells ==
  ASSUME BuildInv, FreshPaths(cdb), ObjectsBeside(cdb), NEW k \in DOMAIN ld_results,
         NEW a \in Items, LinkedBy(ld_results[k], a), PathOf(k).dir # ""
  PROVE  Is("link", a) /\ Command(a).target = PathOf(k)
<1> DEFINE ld == ld_results[k]
           Same(s) == s.name.ext = "o" /\ IsPlain(s.name) /\ IsPlain(ld.target.name)
                      /\ s.name.stem = ld.target.name.stem
           same == {n \in DOMAIN ld.sources : Same(ld.sources[n])}
<1>1. /\ cdb \in Cdbs /\ IsFile(LinkTarget(a)) /\ IsFile(CompileTarget(a))
      /\ IsList(Command(a).sources)
  <2>1. \A d, s, e : IsFile(File(d, s, e))
    BY DEF IsFile, IsName, File, Name
  <2>2. cdb \in Cdbs
    BY DEF BuildInv, IInv, ItemsInv, ItemSteps
  <2> QED  BY <2>1, <2>2, CommandSources DEF LinkTarget, TargetToLink, CompileTarget
<1>2. \A path : IsFile(path) => /\ Basename(path).dir = "" /\ Basename(path).name = path.name
                                /\ [Basename(path) EXCEPT !.dir = path.dir] = path
  BY DEF IsFile, Basename
<1>3. PathOf(k) = IF same = {} THEN ld.target ELSE [ld.target EXCEPT !.dir = ld.sources[Min(same)].dir]
  BY DEF PathOf, TargetPath
<1>4. ld.target.dir = ""
  <2>1. ld.target \in {Basename(LinkTarget(a)), Basename(CompileTarget(a))}
    <3>1. LinkResult(a).target = Basename(LinkTarget(a))
      BY DEF LinkResult
    <3> QED  BY <3>1 DEF LinkedBy
  <2> HIDE DEF ld
  <2> QED  BY <1>1, <1>2, <2>1
<1>5. same # {}
  <2> HIDE DEF same, ld
  <2> QED  BY <1>3, <1>4
<1>6. Is("link", a) /\ ld = LinkResult(a)
  <2> SUFFICES ASSUME ~(Is("link", a) /\ ld = LinkResult(a)) PROVE FALSE
    OBVIOUS
  <2>1. \A s \in ToSet(ld.sources) : \E l : s = MadeUp(a, l)
    BY DEF LinkedBy
  <2>2. \A l : MadeUp(a, l).name.ext = "tmp"
    BY DEF MadeUp, Numbered, Name
  <2>3. PICK n \in DOMAIN ld.sources : ld.sources[n].name.ext = "o"
    BY <1>5
  <2> HIDE DEF ld
  <2>4. ld.sources[n] \in ToSet(ld.sources)
    BY <2>3 DEF ToSet
  <2> QED  BY <2>1, <2>2, <2>3, <2>4
<1>7. ld.sources = FilesOf(a) /\ ld.target = Basename(LinkTarget(a)) /\ ld.target.name = LinkTarget(a).name
  <2>1. LinkResult(a).sources = FilesOf(a) /\ LinkResult(a).target = Basename(LinkTarget(a))
    BY DEF LinkResult
  <2> HIDE DEF ld
  <2> QED  BY <1>1, <1>2, <1>6, <2>1
<1>8. Min(same) \in same
  <2>1. /\ DOMAIN FilesOf(a) = 1 .. Len(Command(a).sources) /\ Len(Command(a).sources) \in Nat
        /\ same \subseteq DOMAIN FilesOf(a)
    BY <1>1, <1>7, ListElements DEF FilesOf
  <2>2. same \in SUBSET (0 .. Len(Command(a).sources))
    <3> HIDE DEF same
    <3> QED  BY <2>1, FromZero
  <2> HIDE DEF same
  <2> QED  BY <1>5, <2>1, <2>2, MinFacts
<1>9. LET file == ld.sources[Min(same)]
      IN /\ file \in SourceFiles(cdb, a)
         /\ file.name.ext = "o" /\ IsPlain(file.name) /\ file.name.stem = LinkTarget(a).name.stem
  <2>1. Min(same) \in DOMAIN Command(a).sources
        /\ ld.sources[Min(same)] = Command(a).sources[Min(same)].file
        /\ Same(ld.sources[Min(same)])
    BY <1>7, <1>8 DEF FilesOf
  <2> HIDE DEF same, ld
  <2> QED  BY <1>7, <2>1 DEF SourceFiles, Command
<1>10. ld.sources[Min(same)].dir = LinkTarget(a).dir
  <2> DEFINE file == ld.sources[Min(same)]
  <2>1. a \in Commands(cdb, "link")
    BY <1>6 DEF Commands, Is, Skipped, Items, Command
  <2> HIDE DEF same, ld
  <2>2. file \in SourceFiles(cdb, a) /\ file.name.ext = "o" /\ IsPlain(file.name)
        /\ file.name.stem = LinkTarget(a).name.stem
    BY <1>9
  <2> HIDE DEF file
  <2>3. file.dir = LinkTarget(a).dir
    BY <2>1, <2>2 DEF ObjectsBeside, LinkTarget, TargetToLink, Command
  <2> QED  BY <2>3 DEF file
<1> HIDE DEF same, ld
<1>11. PathOf(k) = LinkTarget(a)
  BY <1>1, <1>2, <1>3, <1>5, <1>7, <1>10
<1>12. LinkTarget(a) = Command(a).target
  <2>1. File("", "DEFAULT_OUTPUT", "").dir = ""
    BY DEF File
  <2>2. LinkTarget(a).dir # ""
    BY <1>11
  <2> QED  BY <2>1, <2>2 DEF LinkTarget, TargetToLink
<1> QED  BY <1>6, <1>11, <1>12

\* A link result that has a path of the build among its sources is that of a command
\* that uses it.
LEMMA UsedBy ==
  ASSUME NEW m \in DOMAIN ld_results, NEW j \in Items, LinkedBy(ld_results[m], j),
         NEW path \in ToSet(ld_results[m].sources), Fresh(path)
  PROVE  Is("link", j) /\ ld_results[m] = LinkResult(j) /\ j \in Uses(cdb, path)
<1>1. Is("link", j) /\ ld_results[m] = LinkResult(j)
  BY MadeUpFacts DEF LinkedBy
<1>2. path \in SourceFiles(cdb, j)
  <2>1. path \in ToSet(FilesOf(j))
    BY <1>1 DEF LinkResult
  <2> QED  BY <2>1 DEF ToSet, FilesOf, SourceFiles, Command
<1> QED  BY <1>1, <1>2 DEF Uses, Commands, Is, Skipped, Items, Command

\* The link result of a library that is used, the path it goes by, and that no other
\* link result goes by it.
LEMMA LibraryPath ==
  ASSUME BuildInv, AllOver, Honest(cdb), NEW i \in Items, Is("link", i), NamedAfterObject(i),
         LinkTarget(i) = Command(i).target, LinkTarget(i).dir # "", LinkTarget(i).name \in Linkable
  PROVE  \E m \in DOMAIN ld_results : /\ ld_results[m] = LinkResult(i)
                                      /\ PathOf(m) = LinkTarget(i) /\ Alone(m)
<1> DEFINE L == LinkTarget(i)
<1>1. cdb \in Cdbs /\ FreshPaths(cdb) /\ MadeOnce(cdb) /\ ObjectsBeside(cdb)
  BY DEF BuildInv, IInv, ItemsInv, ItemSteps, Honest
<1>2. PICK m \in DOMAIN ld_results : ld_results[m] = LinkResult(i)
  BY DEF BuildInv, ResultsInv, LinksComplete, AllOver, ToSet
<1>3. IsFile(L) /\ IsPlain(L.name) /\ IsList(Command(i).sources)
  BY <1>1, CommandSources, FreshCommands
<1>4. LinkedBy(ld_results[m], i)
  BY <1>2 DEF LinkedBy
<1>5. PathOf(m).dir # ""
  <2> DEFINE ld == ld_results[m]
             Same(s) == s.name.ext = "o" /\ IsPlain(s.name) /\ IsPlain(ld.target.name)
                        /\ s.name.stem = ld.target.name.stem
             same == {n \in DOMAIN ld.sources : Same(ld.sources[n])}
  <2>1. PathOf(m) = IF same = {} THEN ld.target ELSE [ld.target EXCEPT !.dir = ld.sources[Min(same)].dir]
    BY DEF PathOf, TargetPath
  <2>2. ld.sources = FilesOf(i) /\ ld.target = [L EXCEPT !.dir = ""]
    <3>1. LinkResult(i).sources = FilesOf(i) /\ LinkResult(i).target = [L EXCEPT !.dir = ""]
      BY DEF LinkResult, Basename
    <3> HIDE DEF L
    <3> QED  BY <1>2, <3>1
  <2>3. ld.target = [dir |-> "", name |-> L.name]
    BY <1>3, <2>2 DEF IsFile
  <2>4. PICK s \in DOMAIN Command(i).sources : Command(i).sources[s].file = [L EXCEPT !.name.ext = "o"]
    BY DEF NamedAfterObject
  <2>5. LET name == Command(i).sources[s].file.name
        IN name.ext = "o" /\ name.stem = L.name.stem /\ name.dups = L.name.dups
    BY <1>3, <2>4, ObjectName
  <2>6. s \in same
    BY <1>3, <2>2, <2>3, <2>4, <2>5 DEF FilesOf, IsPlain
  <2>7. Min(same) \in DOMAIN FilesOf(i)
    <3>1. /\ DOMAIN FilesOf(i) = 1 .. Len(Command(i).sources) /\ Len(Command(i).sources) \in Nat
          /\ same \subseteq DOMAIN FilesOf(i)
      BY <1>3, <2>2, ListElements DEF FilesOf
    <3>2. same \in SUBSET (0 .. Len(Command(i).sources)) /\ same # {}
      <4> HIDE DEF same
      <4> QED  BY <2>6, <3>1, FromZero
    <3> HIDE DEF same
    <3> QED  BY <3>1, <3>2, MinFacts
  <2> HIDE DEF same, ld
  <2>8. ld.sources[Min(same)].dir # ""
    <3>1. Min(same) \in DOMAIN Command(i).sources
          /\ FilesOf(i)[Min(same)] = Command(i).sources[Min(same)].file
      BY <2>7 DEF FilesOf
    <3> QED  BY <1>1, <2>2, <3>1, CommandSources
  <2>9. same # {}
    BY <2>6
  <2> QED  BY <2>1, <2>3, <2>8, <2>9
<1>6. PathOf(m) = L
  BY <1>1, <1>4, <1>5, PathTells
<1>7. Alone(m)
  <2> SUFFICES ASSUME NEW k \in DOMAIN ld_results, PathOf(k) = PathOf(m), k # m PROVE FALSE
    BY DEF Alone
  <2>1. PICK a \in Items, b \in Items : a # b /\ LinkedBy(ld_results[k], a) /\ LinkedBy(ld_results[m], b)
    BY DEF BuildInv, ResultsInv, LinksOrigin
  <2>2. /\ Is("link", a) /\ Command(a).target = PathOf(m)
        /\ Is("link", b) /\ Command(b).target = PathOf(m)
    BY <1>1, <1>5, <2>1, PathTells
  <2>3. PathOf(m) # NoTarget
    BY <1>5, NoTargetPath
  <2>4. PathOf(m) \in Made(cdb, b)
    BY <2>2, <2>3 DEF Made, HandledAs, Is, Command
  <2> QED  BY <1>1, <2>1, <2>2, <2>3, <2>4, MadeByOne DEF Is
<1> QED  BY <1>2, <1>6, <1>7

\* A path that a command makes is no target of an assembler and none of a compile result.
LEMMA LibrarySource ==
  ASSUME BuildInv, AllOver, Honest(cdb), NEW i \in Items, Is("link", i),
         NEW path, Command(i).target = path, path # NoTarget
  PROVE  /\ Actual(path) = path /\ path \notin {cc_results[n].target : n \in DOMAIN cc_results}
<1>1. cdb \in Cdbs /\ FreshPaths(cdb) /\ MadeOnce(cdb)
  BY DEF BuildInv, IInv, ItemsInv, ItemSteps, Honest
<1>2. Fresh(path)
  BY <1>1, FreshCommands
<1>3. AssemblersOf(path) = {}
  <2> SUFFICES ASSUME NEW a \in Items, Is("assemble", a), Command(a).target = path PROVE FALSE
    BY DEF AssemblersOf
  <2>1. path \in Made(cdb, a)
    BY DEF Made, HandledAs, Is, Command
  <2>2. a = i
    BY <1>1, <2>1, MadeByOne DEF Is
  <2> QED  BY <2>2 DEF Is
<1>4. ASSUME NEW n \in DOMAIN cc_results, cc_results[n].target = path PROVE FALSE
  <2>1. PICK c \in Items : Command(c).kind = "compile" /\ ~Skipped(c) /\ path \in Made(cdb, c)
    BY <1>2, <1>4, UnitsMadeBy
  <2>2. c = i
    BY <1>1, <2>1, MadeByOne DEF HandledAs
  <2> QED  BY <2>1, <2>2 DEF Is, HandledAs
<1> QED  BY <1>3, <1>4, ActualOf

\* What is compiled into the objects of a library goes into its directory.
LEMMA LibraryUnits ==
  ASSUME BuildInv, Written, Honest(cdb), NEW i \in Items, Is("link", i),
         NEW m \in DOMAIN ld_results, ld_results[m] = LinkResult(i),
         NEW n \in DOMAIN cc_results, cc_results[n].target \in ToSet(FilesOf(i))
  PROVE  \E f \in pp_files : f.path[1] = ld_infos[m].dir /\ f.file = cc_results[n].file
<1> DEFINE t == cc_results[n].target
<1>1. cdb \in Cdbs /\ FreshPaths(cdb) /\ MadeOnce(cdb) /\ AllOver
  BY DEF BuildInv, IInv, ItemsInv, ItemSteps, PhasesApart, Honest, Written
<1>2. Fresh(t) /\ t # NoTarget
  <2>1. Fresh(t)
    BY <1>1, FreshCommands
  <2>2. t.dir # ""
    BY <1>1, CommandSources DEF ToSet, FilesOf
  <2> QED  BY <2>1, <2>2, NoTargetPath
<1>3. PICK c \in Items : Command(c).kind = "compile" /\ ~Skipped(c) /\ t \in Made(cdb, c)
  BY <1>2, UnitsMadeBy
<1>4. AssemblersOf(t) = {}
  <2> SUFFICES ASSUME NEW a \in Items, Is("assemble", a), Command(a).target = t PROVE FALSE
    BY DEF AssemblersOf
  <2>1. a = c
    BY <1>1, <1>2, <1>3, MadeByOne DEF HandledAs
  <2> QED  BY <1>3, <2>1 DEF Is, HandledAs
<1>5. Consumes(m, n)
  <2>1. Actual(t) = t
    BY <1>1, <1>4, ActualOf
  <2> QED  BY <2>1 DEF Consumes, Sources, LinkSources, LinkResult
<1>6. Handled(n, m)
  BY DEF Handled, AfterCompiles, Written
<1> QED  BY <1>5, <1>6 DEF BuildInv, IInv, CompilesInv, UnitsHandled

\* A path that one command uses is a source of one link result.
LEMMA UsedByOne ==
  ASSUME BuildInv, AllOver, Honest(cdb), NEW i \in Items, Is("link", i),
         NEW path, Command(i).target = path, NEW p \in DOMAIN ld_results,
         path \in ToSet(ld_results[p].sources), NEW q \in DOMAIN ld_results, path \in Sources(q)
  PROVE  p = q
<1>1. cdb \in Cdbs /\ FreshPaths(cdb) /\ LinkedOnce(cdb) /\ Fresh(path)
  <2>1. cdb \in Cdbs /\ FreshPaths(cdb) /\ LinkedOnce(cdb)
    BY DEF BuildInv, IInv, ItemsInv, ItemSteps, Honest
  <2> QED  BY <2>1, FreshCommands
<1>2. \A j, k \in Uses(cdb, path) : j = k
  <2>1. i \in Commands(cdb, "link") /\ cdb[i].target = path
    BY DEF Commands, Is, Skipped, Items, Command
  <2> QED  BY <1>1, <2>1 DEF LinkedOnce
<1>3. PICK x \in Items : LinkedBy(ld_results[p], x)
  BY DEF BuildInv, ResultsInv, LinksOrigin
<1>4. Is("link", x) /\ x \in Uses(cdb, path)
  BY <1>1, <1>3, UsedBy
<1>5. path \in ToSet(ld_results[q].sources)
  <2>1. PICK s \in ToSet(ld_results[q].sources) : path = Actual(s)
    BY DEF Sources, LinkSources
  <2>2. ASSUME NEW a \in AssemblersOf(s), path = Command(a).sources[1].file PROVE FALSE
    <3>1. Is("assemble", a) /\ a \in Items /\ 1 \in DOMAIN Command(a).sources
      BY <1>1, FreshCommands DEF AssemblersOf, Is, Skipped
    <3>2. a \in Uses(cdb, path)
      BY <2>2, <3>1 DEF Uses, Commands, SourceFiles, Is, Skipped, Items, Command
    <3> QED  BY <1>2, <1>4, <3>1, <3>2 DEF Is
  <2>3. Actual(s) = s
    BY <2>1, <2>2, ActualOf
  <2> QED  BY <2>1, <2>3
<1>6. SUFFICES ASSUME p # q PROVE FALSE
  OBVIOUS
<1>7. PICK j \in Items, k \in Items : j # k /\ LinkedBy(ld_results[p], j) /\ LinkedBy(ld_results[q], k)
  BY <1>6 DEF BuildInv, ResultsInv, LinksOrigin
<1>8. j \in Uses(cdb, path) /\ k \in Uses(cdb, path)
  BY <1>1, <1>5, <1>7, UsedBy
<1> QED  BY <1>2, <1>7, <1>8

\* A library that has an object of its own name is listed, where it is used, by the
\* directory that holds the library's own translation units: for every database that
\* makes no file twice, links a library into one command, keeps the object beside the
\* library and uses none of the paths that xcalbuild makes up.
\* (build-processor.cpp:319-349 and 446-460, test.sh:24 of duplicated-link-target-name)
THEOREM LibrariesAreFound ==
  ASSUME \A db \in Cdbs : FreshPaths(db) /\ MadeOnce(db) /\ LinkedOnce(db) /\ ObjectsBeside(db)
  PROVE  Spec => []LibrariesFound
<1>1. BuildInv => LibrariesFound
  <2> SUFFICES ASSUME BuildInv, Written, NEW p \in DOMAIN ld_results, NEW i \in Items,
                      HandledAs(Command(i)) = "link", NamedAfterObject(i),
                      LinkTarget(i) \in ToSet(ld_results[p].sources)
               PROVE  \E name \in properties[p].names :
                        \A n \in DOMAIN cc_results :
                          cc_results[n].target \in {Command(i).sources[s].file : s \in DOMAIN Command(i).sources} =>
                            \E f \in pp_files : f.path[1] = name /\ f.file = cc_results[n].file
    BY DEF LibrariesFound
  <2> DEFINE L == LinkTarget(i)
  <2>1. cdb \in Cdbs /\ Honest(cdb) /\ AllOver
    BY DEF BuildInv, IInv, ItemsInv, ItemSteps, PhasesApart, Honest, Written
  <2>2. Is("link", i)
    BY EmptyList DEF NamedAfterObject, Is, Skipped, HandledAs
  <2>3. L.dir # "" /\ L = Command(i).target /\ L # NoTarget
    <3>1. L.dir # ""
      BY DEF BuildInv, IInv, ItemsInv, SourcesPlaced
    <3>2. File("", "DEFAULT_OUTPUT", "").dir = "" /\ NoTarget.dir = ""
      BY DEF File, NoTarget
    <3> QED  BY <3>1, <3>2 DEF LinkTarget, TargetToLink
  <2>4. L.name \in Linkable
    <3>1. PICK x \in Items : LinkedBy(ld_results[p], x)
      BY DEF BuildInv, ResultsInv, LinksOrigin
    <3>2. Fresh(L)
      BY <2>1, <2>3, FreshCommands DEF Honest
    <3>3. x \in Uses(cdb, L)
      BY <3>1, <3>2, UsedBy
    <3>4. i \in Commands(cdb, "link") /\ cdb[i].target = L
      BY <2>2, <2>3 DEF Commands, Is, Skipped, Items, Command
    <3> QED  BY <2>1, <3>3, <3>4 DEF Honest, LinkedOnce
  <2>5. PICK m \in DOMAIN ld_results : ld_results[m] = LinkResult(i) /\ PathOf(m) = L /\ Alone(m)
    BY <2>1, <2>2, <2>3, <2>4, LibraryPath
  <2>6. Actual(L) = L /\ L \notin {cc_results[n].target : n \in DOMAIN cc_results}
    BY <2>1, <2>2, <2>3, LibrarySource
  <2>7. /\ p \in Infos /\ m \in Infos /\ p \in DOMAIN properties
        /\ Len(ld_results) \in Nat /\ DOMAIN ld_results = 1 .. Len(ld_results)
        /\ DOMAIN ld_results \subseteq DOMAIN ld_infos
    <3>1. /\ Len(properties) = Len(ld_infos) /\ Len(ld_results) <= Len(ld_infos)
          /\ IsList(properties) /\ IsList(ld_infos) /\ IsList(ld_results)
      BY DEF BuildInv, IInv, PropertiesInv, LinksInv, InfosNumbered, ListTypes, Written
    <3> QED  BY <2>5, <3>1, ListElements DEF Infos
  <2>8. L \in ld_infos[p].dependencies
    <3>1. L \in Sources(p)
      BY <2>6 DEF Sources, LinkSources
    <3> QED  BY <2>6, <2>7, <3>1 DEF BuildInv, ContentsInv, DependenciesKept
  <2>9. \A q \in 1 .. p - 1 : L \notin ld_infos[q].dependencies
    <3> SUFFICES ASSUME NEW q \in 1 .. p - 1, L \in ld_infos[q].dependencies PROVE FALSE
      OBVIOUS
    <3>1. q \in DOMAIN ld_results /\ q # p
      BY <2>7
    <3>2. L \in Sources(q)
      BY <2>7, <3>1 DEF BuildInv, IInv, LinksInv, InfosRight
    <3> QED  BY <2>1, <2>2, <2>3, <3>1, <3>2, UsedByOne
  <2>10. ld_infos[m].dir \in properties[p].names
    BY <2>5, <2>7, <2>8, <2>9 DEF BuildInv, ContentsInv, NamesListed
  <2>11. {Command(i).sources[s].file : s \in DOMAIN Command(i).sources} = ToSet(FilesOf(i))
    BY DEF ToSet, FilesOf
  <2> QED  BY <2>1, <2>2, <2>5, <2>10, <2>11, LibraryUnits
<1> QED  BY <1>1, BuildInvariantHolds, PTL

=============================================================================
