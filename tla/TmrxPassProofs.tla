--------------------------- MODULE TmrxPassProofs ---------------------------
(***************************************************************************)
(* HierarchyInv is inductive, for every design, configuration and          *)
(* selection; type correctness and NoDanglingCells follow.                 *)
(***************************************************************************)
EXTENDS TmrxPassInvariant, SequenceTheorems, TLAPS

-----------------------------------------------------------------------------
(* Names.                                                                  *)

(* What appending a suffix to a name does.                                 *)
LEMMA AppendName ==
    ASSUME NEW n \in Name, NEW s \in Token
    PROVE  /\ Append(n, s) \in Name
           /\ Len(Append(n, s)) = Len(n) + 1
           /\ LastToken(Append(n, s)) = s
           /\ Append(n, s) # <<>>
           /\ n # <<>> => Append(n, s)[1] = n[1]
<1>1. n \in Seq(Token) /\ Append(n, s) \in Seq(Token)
  BY DEF Name
<1>2. /\ Len(Append(n, s)) = Len(n) + 1
      /\ Append(n, s)[Len(n) + 1] = s
      /\ Len(n) \in Nat
      /\ \A i \in 1..Len(n) : Append(n, s)[i] = n[i]
  BY <1>1
<1>3. n # <<>> => 1 \in 1..Len(n)
  BY <1>1, <1>2
<1>4. Append(n, s) # <<>>
  BY <1>1, <1>2
<1> QED
  BY <1>1, <1>2, <1>3, <1>4 DEF Name, LastToken

(* The suffixes are tokens, and pairwise different.                       *)
LEMMA SuffixFacts ==
    /\ Suffix \subseteq Token
    /\ \A i \in 1..3 : PathSuffix[i] \in PathSuffixes
    /\ ImplSuffix # WorkerSuffix
    /\ WorkerSuffix \notin PathSuffixes /\ ImplSuffix \notin PathSuffixes
    /\ ImplSuffix \in Suffix /\ WorkerSuffix \in Suffix /\ PathSuffixes \subseteq Suffix
<1>1. PathSuffix[1] = "_a" /\ PathSuffix[2] = "_b" /\ PathSuffix[3] = "_c"
  BY DEF PathSuffix
<1>2. \A i \in 1..3 : i = 1 \/ i = 2 \/ i = 3
  OBVIOUS
<1>3. \A i \in 1..3 : PathSuffix[i] \in {"_a", "_b", "_c"}
  BY <1>1, <1>2
<1>4. PathSuffixes = {"_a", "_b", "_c"}
  BY <1>1, <1>2 DEF PathSuffixes
<1>5. Suffix = {"_tmrx_impl", "_tmrx_worker", "_a", "_b", "_c"}
  BY <1>4 DEF Suffix, ImplSuffix, WorkerSuffix
<1> QED
  BY <1>3, <1>4, <1>5 DEF ImplSuffix, WorkerSuffix, Token

(* The name of a module of the user is one token that is no suffix.        *)
LEMMA UserNameFacts ==
    ASSUME NEW n \in UserName
    PROVE  /\ n \in Name /\ Len(n) = 1 /\ n # <<>> /\ n[1] \in User
           /\ LastToken(n) \notin Suffix
           /\ n \notin Primitive
<1>1. PICK u \in User : n = <<u>>
  BY DEF UserName
<1>2. u \in Token /\ u \notin Suffix /\ u # "$dff" /\ u # "libdff"
  BY <1>1, UserAssumption DEF Token
<1>3. Len(n) = 1 /\ n[1] = u /\ n \in Seq(Token)
  BY <1>1, <1>2
<1> QED
  BY <1>1, <1>2, <1>3 DEF Name, LastToken, Primitive, BuiltinFf, LibraryFf

(* A generated name is neither a primitive nor a module of the user.       *)
LEMMA GeneratedName ==
    ASSUME NEW n \in Name, NEW s \in Suffix, n # <<>>
    PROVE  /\ Append(n, s) \notin UserName
           /\ Append(n, s) \notin Primitive
<1>1. s \in Token
  BY SuffixFacts
<1>2. Len(Append(n, s)) > 1
  <2>1. n \in Seq(Token)
    BY DEF Name
  <2>3. Len(n) \in Nat /\ Len(n) # 0
    BY <2>1
  <2>2. Len(Append(n, s)) = Len(n) + 1
    BY <1>1, AppendName
  <2> QED
    BY <2>3, <2>2
<1>3. \A p \in Primitive : Len(p) = 1
  BY DEF Primitive, BuiltinFf, LibraryFf
<1>4. \A k \in UserName : Len(k) = 1
  BY UserNameFacts
<1>5. ~(1 > 1)
  OBVIOUS
<1> QED
  BY <1>2, <1>3, <1>4, <1>5

-----------------------------------------------------------------------------
(* Operations on the design.                                               *)

(* What Drop keeps: every other module, as it was. *)
LEMMA DropFacts ==
    ASSUME NEW d, NEW n
    PROVE  /\ DOMAIN Drop(d, n) = DOMAIN d \ {n}
           /\ \A x \in DOMAIN d : x # n => Drop(d, n)[x] = d[x]
BY DEF Drop

(* Retype changes the type of one cell and nothing else.                   *)
LEMMA RetypeFacts ==
    ASSUME NEW d, NEW n \in DOMAIN d, d[n] \in Module, NEW c \in Cell, NEW t \in Name
    PROVE  /\ DOMAIN Retype(d, n, c, t) = DOMAIN d
           /\ \A x \in DOMAIN d : x # n => Retype(d, n, c, t)[x] = d[x]
           /\ Retype(d, n, c, t)[n] \in Module
           /\ Retype(d, n, c, t)[n].cells = (d[n].cells \ {c}) \cup {[c EXCEPT !.type = t]}
           /\ Retype(d, n, c, t)[n].impl = d[n].impl
           /\ Retype(d, n, c, t)[n].ports = d[n].ports
           /\ Retype(d, n, c, t)[n].proper = d[n].proper
           /\ Retype(d, n, c, t)[n].bb = d[n].bb
<1>1. [c EXCEPT !.type = t] \in Cell
  BY DEF Cell
<1> QED
  BY <1>1 DEF Retype, Module

(* Primitives have names, which no module has.                             *)
LEMMA PrimitiveFacts ==
    /\ Primitive \subseteq Name /\ UserName \subseteq Name
    /\ Primitive \cap UserName = {}
    /\ BuiltinFf \in Primitive /\ LibraryFf \in Primitive
BY UserNameFacts DEF Primitive, BuiltinFf, LibraryFf, Name, Token

-----------------------------------------------------------------------------
(* Initial states.                                                         *)

(* The modules the flow hands to tmrx_mark have the type of a module. *)
LEMMA UserModuleType ==
    ASSUME NEW u \in User, InputType(input)
    PROVE  /\ UserModule(u) \in Module
           /\ UserModule(u).impl = NoName /\ UserModule(u).proper = FALSE
           /\ \A c \in UserModule(u).cells : \E e \in input.cells[u] : c.type = e[2]
<1>1. input.cells[u] \subseteq Instance \X (UserName \cup {BuiltinFf})
  BY DEF InputType
<1>2. \A e \in input.cells[u] : e[1] \in Instance /\ e[2] \in Name
  BY <1>1, PrimitiveFacts
<1>3. NoName \in Name
  BY DEF NoName, Name
<1>4. \A e \in input.cells[u] : UserCell(e) \in Cell /\ UserCell(e).type = e[2]
  BY <1>2 DEF UserCell, Cell, CellName, Shape
<1> DEFINE cs == {UserCell(e) : e \in input.cells[u]}
<1>5. cs \in SUBSET Cell /\ \A c \in cs : \E e \in input.cells[u] : c.type = e[2]
  BY <1>4
<1>6. UserModule(u) = [ports |-> "base", proper |-> FALSE, bb |-> <<u>> \in input.bb,
                       impl |-> NoName, cells |-> cs]
  BY DEF UserModule
<1>7. (<<u>> \in input.bb) \in BOOLEAN
  OBVIOUS
<1> HIDE DEF cs
<1> QED
  BY <1>3, <1>5, <1>6, <1>7 DEF Module, Shape

(* The invariant holds of the user's design. *)
LEMMA InitInv == Init => HierarchyInv
<1> SUFFICES ASSUME Init
             PROVE  HierarchyInv
  OBVIOUS
<1>1. input \in Inputs /\ InputType(input)
  BY InputsAssumption DEF Init
<1>2. /\ DOMAIN design = UserName
      /\ \A n \in UserName : design[n] = UserModule(n[1])
  BY DEF Init
<1>3. \A n \in UserName : n[1] \in User /\ n = <<n[1]>>
  BY DEF UserName
<1>4. \A n \in UserName : design[n] \in Module /\ design[n].impl = NoName
  BY <1>1, <1>2, <1>3, UserModuleType
<1>5. \A n \in UserName : \A c \in design[n].cells :
         \E e \in input.cells[n[1]] : c.type = e[2] /\ e[2] \in UserName \cup {BuiltinFf}
  <2> TAKE n \in UserName
  <2> TAKE c \in design[n].cells
  <2>1. PICK e \in input.cells[n[1]] : c.type = e[2]
    BY <1>1, <1>2, <1>3, UserModuleType
  <2>2. e[2] \in UserName \cup {BuiltinFf}
    BY <1>1, <1>3 DEF InputType
  <2> QED
    BY <2>1, <2>2
<1>6. TypeOK
  BY <1>1, <1>2, <1>4, PrimitiveFacts DEF Init, TypeOK, Phase, NoName, Name
<1>7. NoDanglingCells
  BY <1>2, <1>5, PrimitiveFacts DEF NoDanglingCells
<1>8. NamesOK
  <2> SUFFICES ASSUME NEW n \in UserName
               PROVE  /\ n # <<>> /\ n[1] \in User
                      /\ LastToken(n) # WorkerSuffix
    BY <1>2 DEF NamesOK
  <2> QED
    BY UserNameFacts, SuffixFacts DEF Suffix
<1>9. TodoOK
  BY <1>2 DEF Init, TodoOK
<1>10. ImplOK
  BY <1>2, <1>4 DEF ImplOK
<1>11. LevelsOK
  <2> SUFFICES ASSUME NEW n \in UserName, NEW c \in design[n].cells, c.type \in UserName
               PROVE  LevelOf(c.type) < LevelOf(n)
    <3>1. \A n \in UserName : LevelOf(n) \in Nat
      BY UserNameFacts, LevelAssumption DEF LevelOf
    <3> QED
      BY <1>2, <3>1 DEF LevelsOK, Init
  <2>1. PICK e \in input.cells[n[1]] : c.type = e[2]
    BY <1>5
  <2>2. PICK u \in User, v \in User : n = <<u>> /\ c.type = <<v>>
    BY DEF UserName
  <2>3. n[1] = u /\ c.type[1] = v
    BY <2>2
  <2>4. e \in input.cells[u] /\ e[2] = <<v>>
    BY <2>1, <2>2, <2>3
  <2> QED
    BY <1>1, <2>2, <2>3, <2>4, LevelAssumption DEF LevelOf
<1>12. TemplateOK /\ StackOK
  BY DEF Init, TemplateOK, StackOK
<1> QED
  BY <1>1, <1>6, <1>7, <1>8, <1>9, <1>10, <1>11, <1>12 DEF HierarchyInv

-----------------------------------------------------------------------------
(* What the invariant says of any module of the design.                    *)
LEMMA DesignNames ==
    ASSUME HierarchyInv, NEW n \in DOMAIN design
    PROVE  /\ n \in Name /\ n # <<>> /\ n[1] \in User
           /\ n \notin Primitive
           /\ LevelOf(n) \in Nat
           /\ design[n] \in Module
<1>1. n \in Name /\ n # <<>> /\ n[1] \in User /\ design[n] \in Module
  BY DEF HierarchyInv, TypeOK, NamesOK
<1>2. \A p \in Primitive : p[1] \notin User
  BY UserAssumption DEF Primitive, BuiltinFf, LibraryFf
<1> QED
  BY <1>1, <1>2, LevelAssumption DEF LevelOf

(* The steps that change no type of a cell and no name of a module.        *)
LEMMA MarkInv == ASSUME HierarchyInv, Mark PROVE HierarchyInv'
<1>1. /\ DOMAIN design' = DOMAIN design
      /\ \A n \in DOMAIN design :
           /\ design'[n] \in Module
           /\ design'[n].cells = design[n].cells /\ design'[n].impl = design[n].impl
  <2>1. \A n \in DOMAIN design : design[n] \in Module
    BY DEF HierarchyInv, TypeOK
  <2> QED
    BY <2>1 DEF Mark, Module
<1>2. /\ pc = "mark" /\ pc' = "synth" /\ DOMAIN design = UserName
      /\ stack = <<>> /\ todo = {}
  BY DEF Mark, HierarchyInv, TypeOK, TodoOK, StackOK
<1>3. UNCHANGED <<input, edges, todo, wrapper, path, stack, toRemove>>
  BY DEF Mark
<1>4. /\ DOMAIN ffSources' \subseteq UserName
      /\ \A n \in DOMAIN ffSources' : ffSources'[n] \subseteq CellName
  <2>1. \A n \in UserName : design[n].cells \subseteq Cell
    BY <1>2 DEF HierarchyInv, TypeOK, Module
  <2>2. \A n \in UserName : Sources(design, n) \subseteq CellName
    BY <2>1 DEF Sources, Cell
  <2>3. input.markSel \subseteq UserName
    BY DEF HierarchyInv, TypeOK, InputType
  <2> QED
    BY <2>2, <2>3 DEF Mark
<1>5. TypeOK'
  BY <1>1, <1>2, <1>3, <1>4 DEF HierarchyInv, TypeOK, InputType, Phase
<1>6. NoDanglingCells'
  BY <1>1 DEF HierarchyInv, NoDanglingCells
<1>7. NamesOK'
  BY <1>1, <1>2, <1>3 DEF HierarchyInv, NamesOK
<1>8. TodoOK'
  BY <1>1, <1>2, <1>3 DEF HierarchyInv, TodoOK
<1>9. ImplOK'
  BY <1>1, <1>2, <1>3 DEF HierarchyInv, ImplOK
<1>10. LevelsOK'
  BY <1>1, <1>2, <1>3 DEF HierarchyInv, LevelsOK
<1>11. TemplateOK' /\ StackOK'
  BY <1>2, <1>3 DEF TemplateOK, StackOK
<1> QED
  BY <1>3, <1>5, <1>6, <1>7, <1>8, <1>9, <1>10, <1>11 DEF HierarchyInv

(* A flip-flop that is mapped to a library cell stays a primitive.         *)
LEMMA SynthesizeInv == ASSUME HierarchyInv, Synthesize PROVE HierarchyInv'
<1>1. \A n \in DOMAIN design : design[n] \in Module
  BY DEF HierarchyInv, TypeOK
<1>2. \A c \in Cell : /\ MapCell(c) \in Cell
                      /\ MapCell(c).type = c.type \/ MapCell(c).type = LibraryFf
  BY PrimitiveFacts DEF MapCell, Cell
<1>3. /\ DOMAIN design' = DOMAIN design
      /\ \A n \in DOMAIN design :
           /\ design'[n] \in Module
           /\ design'[n].impl = design[n].impl
           /\ \A c \in design'[n].cells :
                c.type = LibraryFf \/ \E k \in design[n].cells : c.type = k.type
  <2>1. CASE ~input.mapped
    BY <1>1, <2>1 DEF Synthesize
  <2>2. CASE input.mapped
    <3>1. \A m \in Module :
             LET mm == [m EXCEPT !.cells = {MapCell(c) : c \in @}]
             IN  /\ mm \in Module /\ mm.impl = m.impl
                 /\ mm.cells = {MapCell(c) : c \in m.cells}
      BY <1>2 DEF Module
    <3>2. \A n \in DOMAIN design : design[n].cells \subseteq Cell
      BY <1>1 DEF Module
    <3> QED
      <4>1. /\ DOMAIN design' = DOMAIN design
            /\ \A n \in DOMAIN design :
                 design'[n] = [design[n] EXCEPT !.cells = {MapCell(c) : c \in @}]
        BY <2>2 DEF Synthesize
      <4>2. ASSUME NEW n \in DOMAIN design
            PROVE  /\ design'[n] \in Module
                   /\ design'[n].impl = design[n].impl
                   /\ design'[n].cells = {MapCell(c) : c \in design[n].cells}
        BY <1>1, <3>1, <4>1
      <4>3. ASSUME NEW n \in DOMAIN design, NEW c \in design'[n].cells
            PROVE  c.type = LibraryFf \/ \E k \in design[n].cells : c.type = k.type
        <5>1. PICK k \in design[n].cells : c = MapCell(k)
          BY <4>2
        <5>2. k \in Cell
          BY <3>2
        <5> QED
          BY <1>2, <5>1, <5>2
      <4> QED
        BY <4>1, <4>2, <4>3
  <2> QED
    BY <2>1, <2>2
<1>4. /\ pc = "synth" /\ pc' = "plan" /\ DOMAIN design = UserName
      /\ stack = <<>> /\ todo = {}
  BY DEF Synthesize, HierarchyInv, TypeOK, TodoOK, StackOK
<1>5. UNCHANGED <<input, ffSources, edges, todo, wrapper, path, stack, toRemove>>
  BY DEF Synthesize
<1>6. LibraryFf \in Primitive /\ \A n \in DOMAIN design : n \notin Primitive
  BY DesignNames, PrimitiveFacts
<1>7. TypeOK'
  BY <1>3, <1>4, <1>5 DEF HierarchyInv, TypeOK, InputType, Phase
<1>8. NoDanglingCells'
  BY <1>3, <1>6 DEF HierarchyInv, NoDanglingCells
<1>9. NamesOK'
  BY <1>3, <1>4, <1>5 DEF HierarchyInv, NamesOK
<1>10. TodoOK'
  BY <1>3, <1>4, <1>5 DEF HierarchyInv, TodoOK
<1>11. ImplOK'
  BY <1>3, <1>4, <1>5 DEF HierarchyInv, ImplOK
<1>12. LevelsOK'
  BY <1>3, <1>4, <1>5, <1>6 DEF HierarchyInv, LevelsOK
<1>13. TemplateOK' /\ StackOK'
  BY <1>4, <1>5 DEF TemplateOK, StackOK
<1> QED
  BY <1>5, <1>7, <1>8, <1>9, <1>10, <1>11, <1>12, <1>13 DEF HierarchyInv

(* The nodes of the dependency graph are modules of the user.              *)
LEMMA PlanInv == ASSUME HierarchyInv, Plan PROVE HierarchyInv'
<1>1. /\ pc = "plan" /\ pc' = "process" /\ DOMAIN design = UserName
      /\ stack = <<>>
  BY DEF Plan, HierarchyInv, TypeOK, TodoOK, StackOK
<1>2. UNCHANGED <<input, design, ffSources, wrapper, path, stack, toRemove>>
  BY DEF Plan
<1>3. edges' \subseteq UserName \X UserName /\ todo' \subseteq UserName
  <2>1. input.tmrxSel \subseteq UserName
    BY DEF HierarchyInv, TypeOK, InputType
  <2> QED
    BY <2>1 DEF Plan
<1>4. TypeOK'
  BY <1>1, <1>2, <1>3 DEF HierarchyInv, TypeOK, InputType, Phase
<1>5. NoDanglingCells'
  BY <1>2 DEF HierarchyInv, NoDanglingCells
<1>6. NamesOK'
  BY <1>1, <1>2 DEF HierarchyInv, NamesOK
<1>7. NoName \notin UserName
  BY UserNameFacts DEF NoName
<1>8. TodoOK'
  BY <1>1, <1>2, <1>3, <1>7 DEF HierarchyInv, TodoOK
<1>9. ImplOK'
  BY <1>1, <1>2 DEF HierarchyInv, ImplOK
<1>10. LevelsOK'
  BY <1>1, <1>2 DEF HierarchyInv, LevelsOK
<1>11. TemplateOK' /\ StackOK'
  BY <1>1, <1>2 DEF TemplateOK, StackOK
<1> QED
  BY <1>2, <1>4, <1>5, <1>6, <1>8, <1>9, <1>10, <1>11 DEF HierarchyInv

(* A skipped module only leaves the list of those that wait.               *)
LEMMA SkipModuleInv ==
    ASSUME HierarchyInv, NEW m \in todo, SkipModule(m) PROVE HierarchyInv'
<1>1. pc = "process" /\ todo' = todo \ {m}
  BY DEF SkipModule
<1>2. UNCHANGED <<input, pc, design, ffSources, edges, wrapper, path, stack, toRemove>>
  BY DEF SkipModule
<1>3. TypeOK'
  BY <1>1, <1>2 DEF HierarchyInv, TypeOK, InputType
<1>4. NoDanglingCells' /\ NamesOK'
  BY <1>2 DEF HierarchyInv, NoDanglingCells, NamesOK
<1>5. TodoOK' /\ ImplOK' /\ LevelsOK'
  BY <1>1, <1>2 DEF HierarchyInv, TodoOK, ImplOK, LevelsOK
<1>6. TemplateOK' /\ StackOK'
  BY <1>1, <1>2 DEF HierarchyInv, TemplateOK, StackOK, FrameOK
<1> QED
  BY <1>2, <1>3, <1>4, <1>5, <1>6 DEF HierarchyInv

(* StartCleanup changes no module. *)
LEMMA StartCleanupInv == ASSUME HierarchyInv, StartCleanup PROVE HierarchyInv'
<1>1. /\ pc = "process" /\ pc' = "cleanup" /\ todo = {} /\ stack = <<>>
      /\ toRemove' \subseteq DOMAIN design
  BY DEF StartCleanup, HierarchyInv, StackOK
<1>2. UNCHANGED <<input, design, ffSources, edges, todo, wrapper, path, stack>>
  BY DEF StartCleanup
<1>3. TypeOK'
  BY <1>1, <1>2 DEF HierarchyInv, TypeOK, InputType, Phase
<1>4. NoDanglingCells' /\ NamesOK'
  BY <1>1, <1>2 DEF HierarchyInv, NoDanglingCells, NamesOK
<1>5. TodoOK' /\ ImplOK' /\ LevelsOK'
  BY <1>1, <1>2 DEF HierarchyInv, TodoOK, ImplOK, LevelsOK
<1>6. TemplateOK' /\ StackOK'
  BY <1>1, <1>2 DEF TemplateOK, StackOK
<1> QED
  BY <1>2, <1>3, <1>4, <1>5, <1>6 DEF HierarchyInv

(* Only a module that nothing refers to is removed.                        *)
LEMMA CleanupOneInv ==
    ASSUME HierarchyInv, NEW n \in toRemove, CleanupOne(n) PROVE HierarchyInv'
<1>1. /\ pc = "cleanup" /\ todo = {} /\ stack = <<>>
      /\ toRemove' = toRemove \ {n}
  BY DEF CleanupOne, HierarchyInv, TodoOK, StackOK
<1>2. UNCHANGED <<input, pc, ffSources, edges, todo, wrapper, path, stack>>
  BY DEF CleanupOne
<1>3. /\ DOMAIN design' \subseteq DOMAIN design
      /\ \A x \in DOMAIN design' : design'[x] = design[x]
      /\ \A x \in DOMAIN design' : \A c \in design[x].cells :
           c.type \in DOMAIN design => c.type \in DOMAIN design'
  <2>1. CASE StillReferenced(n)
    BY <2>1 DEF CleanupOne
  <2>2. CASE ~StillReferenced(n)
    <3>1. design' = Drop(design, n)
      BY <2>2 DEF CleanupOne
    <3>2. \A x \in DOMAIN design : \A c \in design[x].cells : c.type # n
      BY <2>2 DEF StillReferenced
    <3>3. DOMAIN design' = DOMAIN design \ {n} /\ \A x \in DOMAIN design' : design'[x] = design[x]
      BY <3>1 DEF Drop
    <3> QED
      BY <3>2, <3>3
  <2> QED
    BY <2>1, <2>2
<1>4. TypeOK'
  BY <1>1, <1>2, <1>3 DEF HierarchyInv, TypeOK, InputType
<1>5. NoDanglingCells' /\ NamesOK'
  BY <1>1, <1>2, <1>3 DEF HierarchyInv, NoDanglingCells, NamesOK
<1>6. TodoOK' /\ ImplOK' /\ LevelsOK'
  BY <1>1, <1>2, <1>3 DEF HierarchyInv, TodoOK, ImplOK, LevelsOK
<1>7. TemplateOK' /\ StackOK'
  BY <1>1, <1>2 DEF TemplateOK, StackOK
<1> QED
  BY <1>2, <1>4, <1>5, <1>6, <1>7 DEF HierarchyInv

(* Finish changes no module. *)
LEMMA FinishInv == ASSUME HierarchyInv, Finish PROVE HierarchyInv'
<1>1. pc = "cleanup" /\ pc' = "done" /\ todo = {} /\ stack = <<>>
  BY DEF Finish, HierarchyInv, TodoOK, StackOK
<1>2. UNCHANGED <<input, design, ffSources, edges, todo, wrapper, path, stack, toRemove>>
  BY DEF Finish
<1>3. TypeOK'
  BY <1>1, <1>2 DEF HierarchyInv, TypeOK, InputType, Phase
<1>4. NoDanglingCells' /\ NamesOK'
  BY <1>1, <1>2 DEF HierarchyInv, NoDanglingCells, NamesOK
<1>5. TodoOK' /\ ImplOK' /\ LevelsOK'
  BY <1>1, <1>2 DEF HierarchyInv, TodoOK, ImplOK, LevelsOK
<1>6. TemplateOK' /\ StackOK'
  BY <1>1, <1>2 DEF TemplateOK, StackOK
<1> QED
  BY <1>2, <1>3, <1>4, <1>5, <1>6 DEF HierarchyInv

(* A stuttering step changes nothing the invariant speaks of. *)
LEMMA StutterInv == ASSUME HierarchyInv, UNCHANGED vars PROVE HierarchyInv'
<1>1. UNCHANGED <<input, pc, design, ffSources, edges, todo, wrapper, path, stack, toRemove>>
  BY DEF vars
<1>2. TypeOK' /\ (input \in Inputs)'
  BY <1>1 DEF HierarchyInv, TypeOK, InputType
<1>3. NoDanglingCells' /\ NamesOK'
  BY <1>1 DEF HierarchyInv, NoDanglingCells, NamesOK
<1>4. TodoOK' /\ ImplOK' /\ LevelsOK'
  BY <1>1 DEF HierarchyInv, TodoOK, ImplOK, LevelsOK
<1>5. TemplateOK' /\ StackOK'
  BY <1>1 DEF HierarchyInv, TemplateOK, StackOK, FrameOK
<1> QED
  BY <1>2, <1>3, <1>4, <1>5 DEF HierarchyInv

-----------------------------------------------------------------------------
(* Processing a module.                                                    *)

(* The module that is expanded, once it has been cloned if it needs to be. *)
LEMMA TargetFacts ==
    ASSUME HierarchyInv, pc = "process", NEW m \in todo
    PROVE  LET t == Target(m)
               w == WithTarget(m)
           IN  /\ m \in DOMAIN design /\ m \in UserName /\ t \in Name /\ t # <<>> /\ t[1] = m[1]
               /\ t = m \/ (t = Append(m, ImplSuffix) /\ t \notin UserName)
               /\ t \notin Primitive
               /\ t \in UserName \/ LastToken(t) = ImplSuffix
               /\ DOMAIN w = DOMAIN design \cup {t}
               /\ \A x \in DOMAIN w : w[x] \in Module
               /\ w[t].cells = design[m].cells /\ w[t].impl = NoName
               /\ \A x \in DOMAIN design : x # t =>
                    /\ w[x].cells = design[x].cells
                    /\ w[x].impl = design[x].impl \/ (x = m /\ w[x].impl = t /\ t = Append(m, ImplSuffix))
<1> DEFINE t == Target(m)
           w == WithTarget(m)
<1>1. m \in DOMAIN design /\ m \in UserName /\ design[m].impl = NoName /\ design[m] \in Module
  BY DEF HierarchyInv, TypeOK, TodoOK, ImplOK
<1>2. m \in Name /\ m # <<>> /\ m \notin Primitive
  BY <1>1, UserNameFacts
<1>3. ImplSuffix \in Suffix /\ ImplSuffix \in Token
  BY SuffixFacts
<1>4. \A x \in DOMAIN design : design[x] \in Module
  BY DEF HierarchyInv, TypeOK
<1>5. CASE t = m
  <2>1. w = design
    BY <1>5 DEF WithTarget
  <2> QED
    BY <1>1, <1>2, <1>4, <1>5, <2>1
<1>6. CASE t # m
  <2>1. t = Append(m, ImplSuffix)
    BY <1>6 DEF Target
  <2>2. /\ t \in Name /\ t # <<>> /\ t[1] = m[1] /\ LastToken(t) = ImplSuffix
        /\ t \notin UserName /\ t \notin Primitive
    BY <1>2, <1>3, <2>1, AppendName, GeneratedName
  <2> DEFINE d == [design EXCEPT ![m].impl = t]
             k == [design[m] EXCEPT !.proper = TRUE]
  <2>3. w = Put(d, t, k)
    BY <1>6 DEF WithTarget
  <2>4. /\ k \in Module /\ k.cells = design[m].cells /\ k.impl = NoName
    BY <1>1 DEF Module
  <2>5. /\ DOMAIN d = DOMAIN design
        /\ d[m] \in Module /\ d[m].cells = design[m].cells /\ d[m].impl = t
        /\ \A x \in DOMAIN design : x # m => d[x] = design[x]
    BY <1>1, <2>2 DEF Module
  <2> HIDE DEF d, k, w, t
  <2>6. /\ DOMAIN w = DOMAIN design \cup {t} /\ w[t] = k
        /\ \A x \in DOMAIN design : x # t => w[x] = d[x]
    BY <2>3, <2>5 DEF Put
  <2>7. \A x \in DOMAIN w : w[x] \in Module
    BY <1>4, <2>4, <2>5, <2>6
  <2>8. \A x \in DOMAIN design : x # t =>
           /\ w[x].cells = design[x].cells
           /\ w[x].impl = design[x].impl \/ (x = m /\ w[x].impl = t)
    BY <2>5, <2>6
  <2>9. w[t].cells = design[m].cells /\ w[t].impl = NoName
    BY <2>4, <2>6
  <2> QED
    BY <1>1, <2>1, <2>2, <2>6, <2>7, <2>8, <2>9 DEF t, w
<1> QED
  BY <1>5, <1>6

(* LogicTMR: every cell keeps its type or follows tmrx_impl_module.        *)
LEMMA ExpandedCellsFacts ==
    ASSUME NEW d, NEW n \in DOMAIN d, NEW cfg,
           \A x \in DOMAIN d : d[x] \in Module /\ (d[x].impl # NoName => d[x].impl \in DOMAIN d),
           cfg.ffVoter \in BOOLEAN
    PROVE  /\ ExpandedCells(d, n, cfg) \subseteq Cell
           /\ \A k \in ExpandedCells(d, n, cfg) : \E c \in d[n].cells :
                \/ k.type = c.type
                \/ c.type \in DOMAIN d /\ d[c.type].impl # NoName /\ k.type = d[c.type].impl
<1>1. d[n].cells \subseteq Cell
  BY DEF Module
<1>2. ASSUME NEW c \in Cell
      PROVE  /\ Triplicate(c, n, cfg) \subseteq Cell
             /\ \A k \in Triplicate(c, n, cfg) : k.type = c.type
  <2>1. (cfg.ffVoter /\ IsFlipFlop(c, n, cfg)) \in BOOLEAN
    OBVIOUS
  <2>2. \A v \in BOOLEAN, s \in PathSuffixes :
           LET k == [c EXCEPT !.path = s, !.voted = v] IN k \in Cell /\ k.type = c.type
    BY DEF Cell
  <2> QED
    BY <2>1, <2>2, SuffixFacts DEF Triplicate
<1>3. ASSUME NEW c \in Cell, c.type \in DOMAIN d
      PROVE  /\ Resolve(d, c) \in Cell
             /\ Resolve(d, c).type = IF d[c.type].impl # NoName THEN d[c.type].impl ELSE c.type
  BY <1>3 DEF Resolve, Cell, Module
<1>4. ASSUME NEW k \in ExpandedCells(d, n, cfg)
      PROVE  /\ k \in Cell
             /\ \E c \in d[n].cells :
                \/ k.type = c.type
                \/ c.type \in DOMAIN d /\ d[c.type].impl # NoName /\ k.type = d[c.type].impl
  <2>1. PICK c \in d[n].cells :
           k \in IF IsLogicTree(d, c) THEN Triplicate(c, n, cfg) ELSE {Resolve(d, c)}
    BY DEF ExpandedCells
  <2>2. c \in Cell
    BY <1>1
  <2>3. CASE IsLogicTree(d, c)
    BY <1>2, <2>1, <2>2, <2>3
  <2>4. CASE ~IsLogicTree(d, c)
    <3>1. c.type \in DOMAIN d
      BY <2>4 DEF IsLogicTree, IsProper
    <3> QED
      BY <1>3, <2>1, <2>2, <2>4, <3>1
  <2> QED
    BY <2>3, <2>4
<1> QED
  BY <1>4

(* Cells follow the invariant into the design with the clone.              *)
LEMMA TargetCells ==
    ASSUME HierarchyInv, pc = "process", NEW m \in todo
    PROVE  LET t == Target(m)
               w == WithTarget(m)
           IN  /\ \A x \in DOMAIN design : \A c \in design[x].cells :
                    /\ c.type \in DOMAIN design \cup Primitive
                    /\ c.type \in DOMAIN w =>
                         /\ c.type \in DOMAIN design
                         /\ LevelOf(c.type) =< LevelOf(x)
                         /\ x \in todo => LevelOf(c.type) < LevelOf(x)
               /\ \A x \in DOMAIN w : LevelOf(x) \in Nat /\ x \notin Primitive
               /\ LevelOf(t) = LevelOf(m)
               /\ \A x \in DOMAIN w : w[x].impl # NoName =>
                    /\ x \in UserName \ (todo \ {m})
                    /\ w[x].impl = Append(x, ImplSuffix)
                    /\ w[x].impl \in DOMAIN w
               /\ \A x \in DOMAIN w :
                     /\ x # <<>> /\ x[1] \in User
                     /\ x \in UserName \/ LastToken(x) \in PathSuffixes \cup {ImplSuffix}
                     /\ LastToken(x) # WorkerSuffix
<1> DEFINE t == Target(m)
           w == WithTarget(m)
<1>1. /\ m \in DOMAIN design /\ m \in UserName /\ t \in Name /\ t # <<>> /\ t[1] = m[1]
      /\ t \notin Primitive
      /\ t = m \/ (t = Append(m, ImplSuffix) /\ t \notin UserName)
      /\ t \in UserName \/ LastToken(t) = ImplSuffix
      /\ DOMAIN w = DOMAIN design \cup {t} /\ w[t].impl = NoName
      /\ \A x \in DOMAIN design : x # t =>
            w[x].impl = design[x].impl \/ (x = m /\ w[x].impl = t /\ t = Append(m, ImplSuffix))
  BY TargetFacts
<1> HIDE DEF t, w
<1>2. \A x \in DOMAIN design : LevelOf(x) \in Nat /\ x \notin Primitive
  BY DesignNames
<1>3. LevelOf(t) = LevelOf(m)
  BY <1>1 DEF LevelOf
<1>4. \A x \in DOMAIN design : \A c \in design[x].cells :
         /\ c.type \in DOMAIN design \cup Primitive
         /\ c.type \in DOMAIN w =>
              /\ c.type \in DOMAIN design
              /\ LevelOf(c.type) =< LevelOf(x)
              /\ x \in todo => LevelOf(c.type) < LevelOf(x)
  <2>1. \A x \in DOMAIN design : \A c \in design[x].cells :
           c.type \in DOMAIN design \cup Primitive
    BY DEF HierarchyInv, NoDanglingCells
  <2>2. \A x \in DOMAIN design : \A c \in design[x].cells :
           c.type \in DOMAIN design =>
                /\ LevelOf(c.type) =< LevelOf(x)
                /\ x \in todo => LevelOf(c.type) < LevelOf(x)
    BY DEF HierarchyInv, LevelsOK
  <2>3. DOMAIN w = DOMAIN design \cup {t} /\ t \notin Primitive
    BY <1>1
  <2> QED
    BY <2>1, <2>2, <2>3
<1>5. \A x \in DOMAIN w : w[x].impl # NoName =>
         /\ x \in UserName \ (todo \ {m})
         /\ w[x].impl = Append(x, ImplSuffix)
         /\ w[x].impl \in DOMAIN w
  BY <1>1 DEF HierarchyInv, ImplOK
<1>6. \A x \in DOMAIN design :
         /\ x # <<>> /\ x[1] \in User
         /\ x \in UserName \/ LastToken(x) \in PathSuffixes \cup {ImplSuffix}
         /\ LastToken(x) # WorkerSuffix
  BY DEF HierarchyInv, NamesOK
<1>7. m[1] \in User /\ LastToken(t) # WorkerSuffix
  BY <1>1, UserNameFacts, SuffixFacts
<1>8. \A x \in DOMAIN w : LevelOf(x) \in Nat /\ x \notin Primitive
  BY <1>1, <1>2, <1>3
<1>9. \A x \in DOMAIN w :
         /\ x # <<>> /\ x[1] \in User
         /\ x \in UserName \/ LastToken(x) \in PathSuffixes \cup {ImplSuffix}
         /\ LastToken(x) # WorkerSuffix
  BY <1>1, <1>6, <1>7
<1> QED
  BY <1>3, <1>4, <1>5, <1>8, <1>9 DEF t, w

(* LogicTMR of a module.                                                   *)
LEMMA ExpandLogicInv ==
    ASSUME HierarchyInv, NEW m \in todo, ExpandLogic(m) PROVE HierarchyInv'
<1> DEFINE t == Target(m)
           w == WithTarget(m)
           new == ExpandedCells(w, t, ConfigOf(m))
<1>1. pc = "process" /\ todo' = todo \ {m} /\ stack = <<>> /\ todo \subseteq UserName
  BY DEF ExpandLogic, HierarchyInv, TypeOK, StackOK
<1>2. UNCHANGED <<input, pc, ffSources, edges, wrapper, path, stack, toRemove>>
  BY DEF ExpandLogic
<1>3. /\ m \in DOMAIN design /\ m \in UserName /\ t \in Name
      /\ t = m \/ t \notin UserName
      /\ DOMAIN w = DOMAIN design \cup {t} /\ \A x \in DOMAIN w : w[x] \in Module
      /\ w[t].cells = design[m].cells /\ w[t].impl = NoName
      /\ \A x \in DOMAIN design : x # t => w[x].cells = design[x].cells
  BY <1>1, TargetFacts
<1>4. /\ \A x \in DOMAIN design : \A c \in design[x].cells :
           /\ c.type \in DOMAIN design \cup Primitive
           /\ c.type \in DOMAIN w =>
                /\ c.type \in DOMAIN design
                /\ LevelOf(c.type) =< LevelOf(x)
                /\ x \in todo => LevelOf(c.type) < LevelOf(x)
      /\ \A x \in DOMAIN w : LevelOf(x) \in Nat /\ x \notin Primitive
      /\ LevelOf(t) = LevelOf(m)
      /\ \A x \in DOMAIN w : w[x].impl # NoName =>
           /\ x \in UserName \ (todo \ {m})
           /\ w[x].impl = Append(x, ImplSuffix)
           /\ w[x].impl \in DOMAIN w
      /\ \A x \in DOMAIN w :
            /\ x # <<>> /\ x[1] \in User
            /\ x \in UserName \/ LastToken(x) \in PathSuffixes \cup {ImplSuffix}
            /\ LastToken(x) # WorkerSuffix
  BY <1>1, TargetCells
<1>5. ConfigOf(m).ffVoter \in BOOLEAN
  BY <1>3 DEF HierarchyInv, TypeOK, InputType, ConfigOf, Config
<1>6. /\ new \subseteq Cell
      /\ \A k \in new : \E c \in w[t].cells :
           \/ k.type = c.type
           \/ c.type \in DOMAIN w /\ w[c.type].impl # NoName /\ k.type = w[c.type].impl
  <2>1. /\ \A x \in DOMAIN w : w[x] \in Module /\ (w[x].impl # NoName => w[x].impl \in DOMAIN w)
        /\ t \in DOMAIN w
    BY <1>3, <1>4
  <2> HIDE DEF t, w
  <2> QED
    BY <1>5, <2>1, ExpandedCellsFacts
<1>7. /\ DOMAIN design' = DOMAIN w
      /\ \A x \in DOMAIN w : x # t => design'[x] = w[x]
      /\ design'[t] \in Module /\ design'[t].cells = new /\ design'[t].impl = NoName
  <2> DEFINE p == IF ConfigOf(m).preserve THEN "base" ELSE "tri"
  <2>1. design' = [w EXCEPT ![t].cells = new, ![t].ports = p]
    BY DEF ExpandLogic, LogicTmrExpansion
  <2>2. p \in Shape /\ t \in DOMAIN w /\ w[t] \in Module
    BY <1>3 DEF Shape
  <2> HIDE DEF p, t, w, new
  <2> QED
    BY <1>3, <1>6, <2>1, <2>2 DEF Module
<1> HIDE DEF t, w, new
<1>8. \A k \in new :
         /\ k.type \in DOMAIN w \cup Primitive
         /\ k.type \in DOMAIN w => LevelOf(k.type) < LevelOf(m)
  <2> TAKE k \in new
  <2>1. PICK c \in design[m].cells :
           \/ k.type = c.type
           \/ c.type \in DOMAIN w /\ w[c.type].impl # NoName /\ k.type = w[c.type].impl
    BY <1>3, <1>6
  <2>2. CASE k.type = c.type
    BY <1>3, <1>4, <2>1, <2>2
  <2>3. CASE c.type \in DOMAIN w /\ w[c.type].impl # NoName /\ k.type = w[c.type].impl
    <3>1. LevelOf(c.type) < LevelOf(m) /\ c.type \in UserName /\ k.type = Append(c.type, ImplSuffix)
      BY <1>3, <1>4, <2>1, <2>3
    <3>2. k.type[1] = c.type[1]
      BY <3>1, UserNameFacts, AppendName, SuffixFacts
    <3> QED
      BY <1>4, <2>3, <3>1, <3>2 DEF LevelOf
  <2> QED
    BY <2>1, <2>2, <2>3
<1>9. TypeOK'
  BY <1>1, <1>2, <1>3, <1>7 DEF HierarchyInv, TypeOK, InputType
<1>10. NoDanglingCells'
  BY <1>3, <1>4, <1>7, <1>8 DEF NoDanglingCells
<1>11. NamesOK'
  <2> SUFFICES ASSUME NEW x \in DOMAIN w
               PROVE  /\ x # <<>> /\ x[1] \in User
                      /\ LastToken(x) \in PathSuffixes \cup {ImplSuffix, WorkerSuffix} \/ x \in UserName
                      /\ LastToken(x) # WorkerSuffix
    BY <1>7 DEF NamesOK
  <2> QED
    BY <1>4
<1>12. TodoOK'
  BY <1>1, <1>2, <1>3, <1>7 DEF HierarchyInv, TodoOK
<1>13. ImplOK'
  BY <1>1, <1>2, <1>4, <1>7 DEF ImplOK
<1>14. LevelsOK'
  <2> SUFFICES ASSUME NEW x \in DOMAIN w, NEW c \in design'[x].cells, c.type \in DOMAIN w
               PROVE  /\ LevelOf(c.type) =< LevelOf(x)
                      /\ x \in todo' => LevelOf(c.type) < LevelOf(x)
    BY <1>1, <1>2, <1>7 DEF LevelsOK
  <2>1. CASE x = t
    BY <1>4, <1>7, <1>8, <2>1
  <2>2. CASE x # t
    BY <1>1, <1>3, <1>4, <1>7, <2>2
  <2> QED
    BY <2>1, <2>2
<1>15. TemplateOK' /\ StackOK'
  BY <1>1, <1>2 DEF TemplateOK, StackOK
<1> QED
  BY <1>2, <1>9, <1>10, <1>11, <1>12, <1>13, <1>14, <1>15 DEF HierarchyInv

-----------------------------------------------------------------------------
(* FullModuleTMR.                                                          *)

(* The template of a module and its three instances in the wrapper.        *)
LEMMA TemplateFacts ==
    ASSUME NEW n \in Name, n # <<>>
    PROVE  /\ Template(n) \in Name /\ Template(n) # <<>> /\ Template(n)[1] = n[1]
           /\ LastToken(Template(n)) = WorkerSuffix
           /\ Template(n) # n
           /\ Template(n) \notin UserName /\ Template(n) \notin Primitive
           /\ \A i \in 1..3 : /\ Duplicate(Template(n), i) \in Cell
                              /\ Duplicate(Template(n), i).type = Template(n)
           /\ \A i, j \in 1..3 : Duplicate(Template(n), i) = Duplicate(Template(n), j) => i = j
<1>1. WorkerSuffix \in Suffix /\ WorkerSuffix \in Token
  BY SuffixFacts
<1>2. /\ Template(n) \in Name /\ Template(n) # <<>> /\ Template(n)[1] = n[1]
      /\ LastToken(Template(n)) = WorkerSuffix
      /\ Len(Template(n)) = Len(n) + 1
  BY <1>1, AppendName DEF Template
<1>3. Template(n) \notin UserName /\ Template(n) \notin Primitive
  BY <1>1, GeneratedName DEF Template
<1>4. Template(n) # n
  <2>1. Len(n) \in Nat
    BY DEF Name
  <2> QED
    BY <1>2, <2>1
<1>5. \A i \in 1..3 : /\ Duplicate(Template(n), i) \in Cell
                     /\ Duplicate(Template(n), i).type = Template(n)
                     /\ Duplicate(Template(n), i).path = PathSuffix[i]
  BY <1>2, SuffixFacts DEF Duplicate, Cell, CellName, Shape
<1>6. \A i, j \in 1..3 : PathSuffix[i] = PathSuffix[j] => i = j
  <2>1. PathSuffix[1] = "_a" /\ PathSuffix[2] = "_b" /\ PathSuffix[3] = "_c"
    BY DEF PathSuffix
  <2>2. \A i \in 1..3 : i = 1 \/ i = 2 \/ i = 3
    OBVIOUS
  <2> QED
    BY <2>1, <2>2
<1> QED
  BY <1>2, <1>3, <1>4, <1>5, <1>6

(* The wrapper takes the name of the module, the module becomes a template.*)
LEMMA StartFullInv ==
    ASSUME HierarchyInv, NEW m \in todo, StartFull(m) PROVE HierarchyInv'
<1> DEFINE t == Target(m)
           w == WithTarget(m)
           k == Template(t)
           duplicates == {Duplicate(k, i) : i \in 1..3}
<1>1. /\ pc = "process" /\ pc' = "full" /\ todo' = todo \ {m} /\ stack = <<>>
      /\ todo \subseteq UserName /\ wrapper' = t /\ path' = 1
  BY DEF StartFull, HierarchyInv, TypeOK, StackOK
<1>2. UNCHANGED <<input, ffSources, edges, stack, toRemove>>
  BY DEF StartFull
<1>3. /\ m \in DOMAIN design /\ m \in UserName /\ t \in Name /\ t # <<>>
      /\ t = m \/ t \notin UserName
      /\ DOMAIN w = DOMAIN design \cup {t} /\ \A x \in DOMAIN w : w[x] \in Module
      /\ w[t].cells = design[m].cells /\ w[t].impl = NoName
      /\ \A x \in DOMAIN design : x # t => w[x].cells = design[x].cells
  BY <1>1, TargetFacts
<1>4. /\ \A x \in DOMAIN design : \A c \in design[x].cells :
           /\ c.type \in DOMAIN design \cup Primitive
           /\ c.type \in DOMAIN w =>
                /\ c.type \in DOMAIN design
                /\ LevelOf(c.type) =< LevelOf(x)
                /\ x \in todo => LevelOf(c.type) < LevelOf(x)
      /\ \A x \in DOMAIN w : LevelOf(x) \in Nat /\ x \notin Primitive
      /\ LevelOf(t) = LevelOf(m)
      /\ \A x \in DOMAIN w : w[x].impl # NoName =>
           /\ x \in UserName \ (todo \ {m})
           /\ w[x].impl = Append(x, ImplSuffix)
           /\ w[x].impl \in DOMAIN w
      /\ \A x \in DOMAIN w :
            /\ x # <<>> /\ x[1] \in User
            /\ x \in UserName \/ LastToken(x) \in PathSuffixes \cup {ImplSuffix}
            /\ LastToken(x) # WorkerSuffix
  BY <1>1, TargetCells
<1>5. /\ k \in Name /\ k # <<>> /\ k[1] = t[1] /\ LastToken(k) = WorkerSuffix
      /\ k # t /\ k \notin UserName /\ k \notin Primitive
      /\ duplicates \subseteq Cell /\ \A c \in duplicates : c.type = k
  BY <1>3, TemplateFacts
<1>6. k \notin DOMAIN w
  BY <1>4, <1>5
<1>7. /\ DOMAIN design' = DOMAIN w \cup {k}
      /\ \A x \in DOMAIN w : x # t => design'[x] = w[x]
      /\ design'[k] = w[t]
      /\ design'[t] \in Module /\ design'[t].cells = duplicates /\ design'[t].impl = NoName
  <2> DEFINE new == [ports |-> IF ConfigOf(m).preserve THEN "base" ELSE "tri",
                     proper |-> TRUE, bb |-> FALSE, impl |-> NoName, cells |-> duplicates]
  <2>1. design' = Put(Put(w, k, w[t]), t, new)
    BY DEF StartFull, Wrap
  <2>2. new \in Module /\ new.cells = duplicates /\ new.impl = NoName
    <3>1. NoName \in Name
      BY DEF NoName, Name
    <3> HIDE DEF duplicates
    <3> QED
      BY <1>5, <3>1 DEF Module, Shape
  <2>3. t \in DOMAIN w
    BY <1>3
  <2> HIDE DEF new, t, w, k, duplicates
  <2> QED
    BY <1>5, <1>6, <2>1, <2>2, <2>3 DEF Put
<1>8. duplicates = {Duplicate(k, i) : i \in 1..3}
  OBVIOUS
<1>9. Template(t) = k
  OBVIOUS
<1> HIDE DEF t, w, k, duplicates
<1>10. LevelOf(k) = LevelOf(m) /\ LevelOf(m) \in Nat /\ k[1] \in User
  BY <1>3, <1>4, <1>5 DEF LevelOf
<1>11. t \notin todo' /\ k \notin todo'
  BY <1>1, <1>3, <1>5
<1>12. TypeOK'
  <2>1. design'[k] \in Module /\ \A x \in DOMAIN design' : x \in Name /\ design'[x] \in Module
    BY <1>3, <1>5, <1>7 DEF HierarchyInv, TypeOK
  <2> QED
    BY <1>1, <1>2, <1>3, <2>1 DEF HierarchyInv, TypeOK, InputType, Phase
<1>13. NoDanglingCells'
  <2> SUFFICES ASSUME NEW x \in DOMAIN design', NEW c \in design'[x].cells
               PROVE  c.type \in DOMAIN design' \cup Primitive
    BY DEF NoDanglingCells
  <2>1. CASE x = t
    BY <1>5, <1>7, <2>1
  <2>2. CASE x # t
    BY <1>3, <1>4, <1>7, <2>2
  <2> QED
    BY <2>1, <2>2
<1>14. NamesOK'
  <2> SUFFICES ASSUME NEW x \in DOMAIN design'
               PROVE  /\ x # <<>> /\ x[1] \in User
                      /\ LastToken(x) \in PathSuffixes \cup {ImplSuffix, WorkerSuffix} \/ x \in UserName
                      /\ LastToken(x) = WorkerSuffix => x = k
    BY <1>1, <1>9 DEF NamesOK
  <2>1. CASE x = k
    BY <1>5, <1>10, <2>1
  <2>2. CASE x # k
    BY <1>4, <1>7, <2>2
  <2> QED
    BY <2>1, <2>2
<1>15. TodoOK'
  BY <1>1, <1>3, <1>7, <1>11 DEF HierarchyInv, TodoOK
<1>16. ImplOK'
  BY <1>1, <1>3, <1>4, <1>7 DEF ImplOK
<1>17. LevelsOK'
  <2> SUFFICES ASSUME NEW x \in DOMAIN design', NEW c \in design'[x].cells,
                      c.type \in DOMAIN design'
               PROVE  /\ LevelOf(c.type) =< LevelOf(x)
                      /\ x \in todo' => LevelOf(c.type) < LevelOf(x)
                      /\ x = k => LevelOf(c.type) < LevelOf(x)
    BY <1>1, <1>9 DEF LevelsOK
  <2>1. CASE x = t
    BY <1>4, <1>5, <1>7, <1>10, <1>11, <2>1
  <2>2. CASE x = k
    <3>1. c \in design[m].cells
      BY <1>3, <1>7, <2>2
    <3>2. c.type \in DOMAIN w
      BY <1>3, <1>4, <1>5, <1>6, <1>7, <3>1
    <3> QED
      BY <1>3, <1>4, <1>10, <2>2, <3>1, <3>2
  <2>3. CASE x # t /\ x # k
    <3>1. x \in DOMAIN design /\ c \in design[x].cells
      BY <1>3, <1>7, <2>3
    <3>2. c.type \in DOMAIN w
      BY <1>3, <1>4, <1>5, <1>6, <1>7, <3>1
    <3> QED
      BY <1>1, <1>4, <2>3, <3>1, <3>2
  <2> QED
    BY <2>1, <2>2, <2>3
<1>18. TemplateOK'
  <2> SUFFICES ASSUME NEW x \in DOMAIN design', NEW c \in design'[x].cells, c.type = k
               PROVE  x = t /\ \E i \in 1..3 : c = Duplicate(k, i)
    BY <1>1, <1>3, <1>7, <1>9 DEF TemplateOK
  <2>1. x = t
    BY <1>3, <1>4, <1>5, <1>6, <1>7
  <2> QED
    BY <1>7, <1>8, <2>1
<1>19. StackOK'
  BY <1>1, <1>2 DEF StackOK
<1> QED
  BY <1>2, <1>12, <1>13, <1>14, <1>15, <1>16, <1>17, <1>18, <1>19 DEF HierarchyInv

(* The facts about a state inside fullModuleTmrExpansion.                  *)
LEMMA FullFacts ==
    ASSUME HierarchyInv, pc = "full"
    PROVE  /\ wrapper \in DOMAIN design /\ wrapper \in Name /\ wrapper # <<>>
           /\ wrapper[1] \in User /\ LevelOf(wrapper) \in Nat
           /\ Template(wrapper) \in DOMAIN design
           /\ LevelOf(Template(wrapper)) = LevelOf(wrapper)
           /\ \A x \in DOMAIN design : \A c \in design[x].cells :
                /\ c \in Cell
                /\ c.type \in DOMAIN design \cup Primitive
                /\ c.type \in DOMAIN design => LevelOf(c.type) =< LevelOf(x)
                /\ c.type = Template(wrapper) =>
                     x = wrapper /\ \E i \in path..3 : c = Duplicate(Template(wrapper), i)
                /\ x = Template(wrapper) /\ c.type \in DOMAIN design =>
                     LevelOf(c.type) < LevelOf(wrapper)
<1>1. /\ wrapper \in DOMAIN design /\ wrapper \in Name /\ wrapper # <<>>
      /\ wrapper[1] \in User /\ LevelOf(wrapper) \in Nat
      /\ Template(wrapper) \in DOMAIN design
  BY DesignNames DEF HierarchyInv, TemplateOK
<1>2. LevelOf(Template(wrapper)) = LevelOf(wrapper)
  BY <1>1, TemplateFacts DEF LevelOf
<1>3. \A x \in DOMAIN design : design[x].cells \subseteq Cell
  BY DEF HierarchyInv, TypeOK, Module
<1>4. \A x \in DOMAIN design : \A c \in design[x].cells :
         /\ c.type \in DOMAIN design \cup Primitive
         /\ c.type = Template(wrapper) =>
              x = wrapper /\ \E i \in path..3 : c = Duplicate(Template(wrapper), i)
  BY DEF HierarchyInv, NoDanglingCells, TemplateOK
<1>5. \A x \in DOMAIN design : \A c \in design[x].cells :
         c.type \in DOMAIN design =>
             /\ LevelOf(c.type) =< LevelOf(x)
             /\ x = Template(wrapper) => LevelOf(c.type) < LevelOf(x)
  BY DEF HierarchyInv, LevelsOK
<1> QED
  BY <1>1, <1>2, <1>3, <1>4, <1>5

(* A clone of a module is added under a name that ends in a path suffix.   *)
LEMMA AddClone ==
    ASSUME HierarchyInv, pc = "full",
           NEW src \in DOMAIN design, src # wrapper,
           NEW un \in Name, un # <<>>, un[1] = src[1], LastToken(un) \in PathSuffixes,
           un \notin UserName, un # wrapper,
           DOMAIN design' = DOMAIN design \cup {un},
           design'[un] \in Module, design'[un].cells = design[src].cells,
           design'[un].impl = NoName,
           \A x \in DOMAIN design : x # un => design'[x] = design[x],
           UNCHANGED <<input, pc, ffSources, edges, todo, wrapper, path, toRemove>>,
           stack' \in Seq(Frame)
    PROVE  /\ TypeOK' /\ NoDanglingCells' /\ NamesOK' /\ TodoOK' /\ ImplOK'
           /\ LevelsOK' /\ TemplateOK'
<1>1. /\ wrapper \in DOMAIN design /\ wrapper \in Name /\ wrapper # <<>>
      /\ Template(wrapper) \in DOMAIN design
      /\ \A x \in DOMAIN design : \A c \in design[x].cells :
           /\ c.type \in DOMAIN design \cup Primitive
           /\ c.type \in DOMAIN design => LevelOf(c.type) =< LevelOf(x)
           /\ c.type = Template(wrapper) =>
                x = wrapper /\ \E i \in path..3 : c = Duplicate(Template(wrapper), i)
  BY FullFacts
<1>2. /\ LastToken(Template(wrapper)) = WorkerSuffix /\ LastToken(un) # WorkerSuffix
      /\ LastToken(un) # ImplSuffix /\ un # Template(wrapper)
  BY <1>1, TemplateFacts, SuffixFacts
<1>3. src[1] \in User /\ LevelOf(un) = LevelOf(src) /\ un \notin Primitive
  <2>1. src[1] \in User
    BY DesignNames
  <2>2. \A p \in Primitive : p[1] \notin User
    BY UserAssumption DEF Primitive, BuiltinFf, LibraryFf
  <2> QED
    BY <2>1, <2>2 DEF LevelOf
<1>4. todo \subseteq UserName
  BY DEF HierarchyInv, TypeOK
<1>5. \A x \in DOMAIN design : design[x].cells \subseteq Cell
  BY DEF HierarchyInv, TypeOK, Module
<1>6. \A x \in DOMAIN design' : \A c \in design'[x].cells :
         /\ c.type \in DOMAIN design \cup Primitive
         /\ c.type \in DOMAIN design' => c.type \in DOMAIN design
  BY <1>1, <1>2, <1>3, DesignNames
<1>7. TypeOK'
  BY DEF HierarchyInv, TypeOK, InputType
<1>8. NoDanglingCells'
  BY <1>6 DEF NoDanglingCells
<1>9. NamesOK'
  <2> SUFFICES ASSUME NEW x \in DOMAIN design'
               PROVE  /\ x # <<>> /\ x[1] \in User
                      /\ LastToken(x) \in PathSuffixes \cup {ImplSuffix, WorkerSuffix} \/ x \in UserName
                      /\ LastToken(x) = WorkerSuffix => x = Template(wrapper)
    BY DEF NamesOK
  <2>1. CASE x = un
    BY <1>2, <1>3, <2>1
  <2>2. CASE x # un
    BY <2>2 DEF HierarchyInv, NamesOK
  <2> QED
    BY <2>1, <2>2
<1>10. TodoOK'
  BY DEF HierarchyInv, TodoOK
<1>11. ImplOK'
  BY DEF HierarchyInv, ImplOK
<1>12. LevelsOK'
  <2> SUFFICES ASSUME NEW x \in DOMAIN design', NEW c \in design'[x].cells,
                      c.type \in DOMAIN design'
               PROVE  /\ LevelOf(c.type) =< LevelOf(x)
                      /\ x \in todo => LevelOf(c.type) < LevelOf(x)
                      /\ x = Template(wrapper) => LevelOf(c.type) < LevelOf(x)
    BY DEF LevelsOK
  <2>1. CASE x = un
    BY <1>1, <1>2, <1>3, <1>4, <1>6, <2>1
  <2>2. CASE x # un
    <3>1. x \in DOMAIN design /\ c \in design[x].cells /\ c.type \in DOMAIN design
      BY <1>6, <2>2
    <3> QED
      BY <3>1 DEF HierarchyInv, LevelsOK
  <2> QED
    BY <2>1, <2>2
<1>13. TemplateOK'
  <2> SUFFICES ASSUME NEW x \in DOMAIN design', NEW c \in design'[x].cells,
                      c.type = Template(wrapper)
               PROVE  x = wrapper /\ \E i \in path..3 : c = Duplicate(Template(wrapper), i)
    BY <1>1 DEF TemplateOK
  <2> QED
    BY <1>1
<1> QED
  BY <1>7, <1>8, <1>9, <1>10, <1>11, <1>12, <1>13

(* A cell gets a type that ends in a path suffix; when it is the wrapper's *)
(* instance of the current path, the path may advance.                     *)
LEMMA RetypeCell ==
    ASSUME HierarchyInv, pc = "full",
           NEW o \in DOMAIN design, o \notin UserName \/ o = wrapper, o # Template(wrapper),
           NEW c \in Cell,
           NEW un \in DOMAIN design, LastToken(un) \in PathSuffixes,
           LevelOf(un) =< LevelOf(o),
           design' = Retype(design, o, c, un),
           UNCHANGED <<input, pc, ffSources, edges, todo, wrapper, toRemove>>,
           \/ path' = path
           \/ path \in 1..3 /\ path' = path + 1 /\ o = wrapper /\ c = Duplicate(Template(wrapper), path),
           stack' \in Seq(Frame)
    PROVE  /\ DOMAIN design' = DOMAIN design
           /\ TypeOK' /\ NoDanglingCells' /\ NamesOK' /\ TodoOK' /\ ImplOK'
           /\ LevelsOK' /\ TemplateOK'
<1>1. un \in Name /\ design[o] \in Module
  BY DesignNames
<1>2. /\ DOMAIN design' = DOMAIN design
      /\ \A x \in DOMAIN design : x # o => design'[x] = design[x]
      /\ design'[o] \in Module /\ design'[o].impl = design[o].impl
      /\ design'[o].cells = (design[o].cells \ {c}) \cup {[c EXCEPT !.type = un]}
  BY <1>1, RetypeFacts
<1>3. [c EXCEPT !.type = un].type = un
  BY DEF Cell
<1>4. \A x \in DOMAIN design : \A k \in design'[x].cells :
         (k.type = un /\ x = o) \/ (k \in design[x].cells /\ (x = o => k # c))
  BY <1>2, <1>3
<1>5. /\ wrapper \in DOMAIN design /\ wrapper \in Name /\ wrapper # <<>>
      /\ Template(wrapper) \in DOMAIN design
      /\ \A x \in DOMAIN design : \A k \in design[x].cells :
           /\ k.type \in DOMAIN design \cup Primitive
           /\ k.type \in DOMAIN design => LevelOf(k.type) =< LevelOf(x)
           /\ k.type = Template(wrapper) =>
                x = wrapper /\ \E i \in path..3 : k = Duplicate(Template(wrapper), i)
  BY FullFacts
<1>6. un # Template(wrapper)
  BY <1>5, TemplateFacts, SuffixFacts
<1>7. todo \subseteq UserName /\ wrapper \notin todo /\ path \in 0..4
  BY DEF HierarchyInv, TypeOK, TodoOK
<1>8. TypeOK'
  BY <1>2, <1>7 DEF HierarchyInv, TypeOK, InputType
<1>9. NoDanglingCells'
  BY <1>2, <1>4, <1>5 DEF NoDanglingCells
<1>10. NamesOK'
  BY <1>2 DEF HierarchyInv, NamesOK
<1>11. TodoOK' /\ ImplOK'
  BY <1>2 DEF HierarchyInv, TodoOK, ImplOK
<1>12. LevelsOK'
  <2> SUFFICES ASSUME NEW x \in DOMAIN design, NEW k \in design'[x].cells,
                      k.type \in DOMAIN design
               PROVE  /\ LevelOf(k.type) =< LevelOf(x)
                      /\ x \in todo => LevelOf(k.type) < LevelOf(x)
                      /\ x = Template(wrapper) => LevelOf(k.type) < LevelOf(x)
    BY <1>2 DEF LevelsOK
  <2>1. CASE k.type = un /\ x = o
    BY <1>7, <2>1
  <2>2. CASE k \in design[x].cells
    BY <2>2 DEF HierarchyInv, LevelsOK
  <2> QED
    BY <1>4, <2>1, <2>2
<1>13. TemplateOK'
  <2> SUFFICES ASSUME NEW x \in DOMAIN design, NEW k \in design'[x].cells,
                      k.type = Template(wrapper)
               PROVE  x = wrapper /\ \E i \in path'..3 : k = Duplicate(Template(wrapper), i)
    BY <1>2, <1>5 DEF TemplateOK
  <2>1. k \in design[x].cells /\ (x = o => k # c)
    BY <1>4, <1>6
  <2>2. x = wrapper
    BY <1>5, <2>1
  <2>3. PICK i \in path..3 : k = Duplicate(Template(wrapper), i)
    BY <1>5, <2>1
  <2>4. i \in path'..3
    BY <1>7, <2>1, <2>2, <2>3
  <2> QED
    BY <2>2, <2>3, <2>4
<1> QED
  BY <1>2, <1>8, <1>9, <1>10, <1>11, <1>12, <1>13

(* The names of the clones of a path.                                      *)
LEMMA PathName ==
    ASSUME NEW n \in Name, n # <<>>, NEW s \in PathSuffixes
    PROVE  LET un == Append(n, s)
           IN  /\ un \in Name /\ un # <<>> /\ un[1] = n[1] /\ LastToken(un) = s
               /\ un \notin UserName /\ un \notin Primitive /\ Len(un) = Len(n) + 1
BY AppendName, GeneratedName, SuffixFacts

(* The worker template is a copy with the cells of its original. *)
LEMMA CloneWorkerInv == ASSUME HierarchyInv, CloneWorker PROVE HierarchyInv'
<1> DEFINE t == Template(wrapper)
           un == WorkerName(path)
           f == [mod |-> un, cells |-> design[t].cells, owner |-> wrapper,
                 cell |-> Duplicate(t, path)]
<1>1. pc = "full" /\ path \in 1..3 /\ stack' = <<f>>
  BY DEF CloneWorker
<1>2. UNCHANGED <<input, pc, ffSources, edges, todo, wrapper, path, toRemove>>
  BY DEF CloneWorker
<1>3. /\ wrapper \in DOMAIN design /\ wrapper \in Name /\ wrapper # <<>>
      /\ t \in DOMAIN design /\ LevelOf(t) = LevelOf(wrapper) /\ LevelOf(wrapper) \in Nat
      /\ \A c \in design[t].cells :
           /\ c \in Cell
           /\ c.type \in DOMAIN design \cup Primitive
           /\ c.type = t => t = wrapper
           /\ c.type \in DOMAIN design => LevelOf(c.type) < LevelOf(wrapper)
  BY <1>1, FullFacts
<1>4. /\ t \in Name /\ t # <<>> /\ t[1] = wrapper[1] /\ t \notin UserName /\ t # wrapper
      /\ Duplicate(t, path) \in Cell /\ Len(t) = Len(wrapper) + 1
  BY <1>1, <1>3, TemplateFacts, AppendName, SuffixFacts DEF Template
<1>5. /\ un \in Name /\ un # <<>> /\ un[1] = t[1] /\ LastToken(un) \in PathSuffixes
      /\ un \notin UserName /\ un \notin Primitive /\ Len(un) = Len(t) + 1
  BY <1>1, <1>4, PathName, SuffixFacts DEF WorkerName
<1>6. un # wrapper
  <2>1. Len(wrapper) \in Nat
    BY <1>3 DEF Name
  <2> QED
    BY <1>4, <1>5, <2>1
<1>7. design[t] \in Module /\ design[t].impl = NoName
  BY <1>3, <1>4 DEF HierarchyInv, TypeOK, ImplOK
<1>8. /\ DOMAIN design' = DOMAIN design \cup {un}
      /\ design'[un] \in Module /\ design'[un].cells = design[t].cells
      /\ design'[un].impl = NoName
      /\ \A x \in DOMAIN design : x # un => design'[x] = design[x]
  <2> DEFINE k == [design[t] EXCEPT !.proper = TRUE]
  <2>1. design' = Put(design, un, k)
    BY DEF CloneWorker
  <2>2. k \in Module /\ k.cells = design[t].cells /\ k.impl = NoName
    BY <1>7 DEF Module
  <2> HIDE DEF k, un, t
  <2> QED
    BY <2>1, <2>2 DEF Put
<1>9. f \in Frame /\ f.mod = un /\ f.cells = design[t].cells /\ f.owner = wrapper
      /\ f.cell = Duplicate(t, path)
  BY <1>3, <1>4, <1>5 DEF Frame
<1>10. Template(wrapper) = t
  OBVIOUS
<1> HIDE DEF t, un, f
<1>11. stack' \in Seq(Frame) /\ Len(stack') = 1 /\ stack'[1] = f
  BY <1>1, <1>9
<1>12. /\ TypeOK' /\ NoDanglingCells' /\ NamesOK' /\ TodoOK' /\ ImplOK'
       /\ LevelsOK' /\ TemplateOK'
  BY <1>1, <1>2, <1>3, <1>4, <1>5, <1>6, <1>8, <1>11, AddClone
<1>13. StackOK'
  <2>1. LevelOf(un) = LevelOf(wrapper)
    BY <1>4, <1>5 DEF LevelOf
  <2>2. \A c \in design[t].cells : c.type \in DOMAIN design' => c.type \in DOMAIN design
    BY <1>3, <1>5, <1>8
  <2>3. \A c \in f.cells :
           /\ c.type \in DOMAIN design' \cup Primitive
           /\ c.type \in DOMAIN design' =>
                /\ LevelOf(c.type) < LevelOf(wrapper)
                /\ LevelOf(c.type) =< LevelOf(f.mod)
                /\ c.type # t
    <3> TAKE c \in f.cells
    <3>1. c \in design[t].cells /\ c.type \in DOMAIN design' \cup Primitive
      BY <1>3, <1>8, <1>9
    <3>2. CASE c.type \in DOMAIN design'
      <4>1. LevelOf(c.type) \in Nat /\ LevelOf(c.type) < LevelOf(wrapper) /\ c.type # t
        BY <1>3, <1>4, <2>2, <3>1, <3>2, DesignNames
      <4> QED
        BY <1>3, <1>9, <2>1, <3>1, <4>1
    <3> QED
      BY <3>1, <3>2
  <2>4. FrameOK(1)'
    BY <1>1, <1>2, <1>3, <1>5, <1>8, <1>9, <1>10, <1>11, <2>1, <2>3 DEF FrameOK
  <2> QED
    BY <1>1, <1>2, <1>11, <2>4 DEF StackOK
<1> QED
  BY <1>2, <1>12, <1>13 DEF HierarchyInv

(* When the template goes, the three workers instantiate their clones      *)
(* only.                                                                   *)
LEMMA FinishFullInv == ASSUME HierarchyInv, FinishFull PROVE HierarchyInv'
<1> DEFINE t == Template(wrapper)
<1>1. /\ pc = "full" /\ pc' = "process" /\ stack = <<>> /\ path = 4 /\ path' = 0
      /\ wrapper' = NoName /\ design' = Drop(design, t)
  BY DEF FinishFull
<1>2. UNCHANGED <<input, ffSources, edges, todo, stack, toRemove>>
  BY DEF FinishFull
<1>3. /\ wrapper \in Name /\ wrapper # <<>>
      /\ \A x \in DOMAIN design : \A c \in design[x].cells :
           /\ c.type \in DOMAIN design \cup Primitive
           /\ c.type # t
  BY <1>1, FullFacts
<1>4. t \notin UserName /\ LastToken(t) = WorkerSuffix
  BY <1>3, TemplateFacts
<1> HIDE DEF t
<1>5. /\ DOMAIN design' = DOMAIN design \ {t}
      /\ \A x \in DOMAIN design' : x \in DOMAIN design /\ design'[x] = design[x]
  BY <1>1, DropFacts
<1>6. NoName \in Name /\ NoName \notin UserName
  BY UserNameFacts DEF NoName, Name
<1>7. todo \subseteq UserName
  BY DEF HierarchyInv, TypeOK
<1>8. TypeOK'
  BY <1>1, <1>2, <1>5, <1>6 DEF HierarchyInv, TypeOK, InputType, Phase
<1>9. NoDanglingCells'
  BY <1>3, <1>5 DEF NoDanglingCells
<1>10. NamesOK'
  BY <1>1, <1>5 DEF HierarchyInv, NamesOK, t
<1>11. TodoOK'
  BY <1>1, <1>2, <1>4, <1>5, <1>6, <1>7 DEF HierarchyInv, TodoOK
<1>12. ImplOK'
  <2> SUFFICES ASSUME NEW x \in DOMAIN design', design'[x].impl # NoName
               PROVE  /\ x \in UserName \ todo
                      /\ design'[x].impl = Append(x, ImplSuffix)
                      /\ design'[x].impl \in DOMAIN design'
    BY <1>1, <1>2 DEF ImplOK
  <2>1. /\ x \in UserName \ todo
        /\ design'[x].impl = Append(x, ImplSuffix)
        /\ design'[x].impl \in DOMAIN design
    BY <1>1, <1>5 DEF HierarchyInv, ImplOK
  <2>2. design'[x].impl # t
    <3>1. x \in Name /\ ImplSuffix \in Token
      BY <2>1, UserNameFacts, SuffixFacts
    <3>2. LastToken(design'[x].impl) = ImplSuffix
      BY <2>1, <3>1, AppendName
    <3> QED
      BY <1>4, <3>2, SuffixFacts
  <2> QED
    BY <1>5, <2>1, <2>2
<1>13. LevelsOK'
  BY <1>1, <1>2, <1>5 DEF HierarchyInv, LevelsOK
<1>14. TemplateOK' /\ StackOK'
  BY <1>1, <1>2 DEF TemplateOK, StackOK
<1> QED
  BY <1>2, <1>8, <1>9, <1>10, <1>11, <1>12, <1>13, <1>14 DEF HierarchyInv

-----------------------------------------------------------------------------
(* The activations of uniquifySubmodulesRecursive.                         *)

(* An activation that a step leaves in place stays well formed.            *)
LEMMA FrameKept ==
    ASSUME HierarchyInv, NEW i \in 1..Len(stack), NEW j \in 1..Len(stack'),
           stack'[j].mod = stack[i].mod, stack'[j].owner = stack[i].owner,
           stack'[j].cell = stack[i].cell, stack'[j].cells \subseteq stack[i].cells,
           i = Len(stack) <=> j = Len(stack'),
           DOMAIN design \subseteq DOMAIN design',
           \A x \in DOMAIN design' : x \notin Primitive,
           UNCHANGED <<wrapper, path>>
    PROVE  FrameOK(j)'
<1>1. FrameOK(i)
  BY DEF HierarchyInv, StackOK
<1>2. \A c \in stack'[j].cells :
         /\ c.type \in DOMAIN design' \cup Primitive
         /\ c.type \in DOMAIN design' =>
              /\ LevelOf(c.type) < LevelOf(wrapper)
              /\ LevelOf(c.type) =< LevelOf(stack[i].mod)
              /\ c.type # Template(wrapper)
  BY <1>1 DEF FrameOK
<1> QED
  BY <1>1, <1>2 DEF FrameOK

(* The activation on top, and the stack once it has visited a cell.        *)
LEMMA TopFacts ==
    ASSUME HierarchyInv, stack # <<>>
    PROVE  /\ pc = "full" /\ path \in 1..3
           /\ stack \in Seq(Frame) /\ Len(stack) \in Nat /\ 1 \in 1..Len(stack)
           /\ stack[1] \in Frame /\ FrameOK(1)
           /\ stack[1].mod \notin UserName /\ stack[1].mod # Template(wrapper)
<1>1. pc = "full" /\ path \in 1..3 /\ stack \in Seq(Frame)
  BY DEF HierarchyInv, StackOK, TypeOK
<1>2. Len(stack) \in Nat /\ 1 \in 1..Len(stack) /\ stack[1] \in Frame
  BY <1>1
<1>3. FrameOK(1)
  BY <1>2 DEF HierarchyInv, StackOK
<1>4. LastToken(stack[1].mod) \in PathSuffixes
  BY <1>3 DEF FrameOK
<1>5. stack[1].mod \notin UserName /\ stack[1].mod # Template(wrapper)
  BY <1>1, <1>4, FullFacts, TemplateFacts, UserNameFacts, SuffixFacts
<1> QED
  BY <1>1, <1>2, <1>3, <1>5

(* The module and the cell uniquifySubmodulesRecursive is looking at. *)
LEMMA VisitedFacts ==
    ASSUME HierarchyInv, stack # <<>>, NEW c \in stack[1].cells
    PROVE  /\ Visited(c) \in Seq(Frame) /\ Len(Visited(c)) = Len(stack)
           /\ \A i \in 1..Len(stack) :
                /\ Visited(c)[i].mod = stack[i].mod /\ Visited(c)[i].owner = stack[i].owner
                /\ Visited(c)[i].cell = stack[i].cell
                /\ Visited(c)[i].cells \subseteq stack[i].cells
<1> DEFINE f == [stack[1] EXCEPT !.cells = @ \ {c}]
<1>1. stack \in Seq(Frame) /\ 1 \in 1..Len(stack) /\ stack[1] \in Frame
  BY TopFacts
<1>2. /\ f \in Frame /\ f.mod = stack[1].mod /\ f.owner = stack[1].owner
      /\ f.cell = stack[1].cell /\ f.cells \subseteq stack[1].cells
  BY <1>1 DEF Frame
<1>3. Visited(c) = [stack EXCEPT ![1] = f]
  BY DEF Visited
<1> HIDE DEF f
<1>4. /\ Visited(c) \in Seq(Frame) /\ Len(Visited(c)) = Len(stack)
      /\ \A i \in 1..Len(stack) : Visited(c)[i] = IF i = 1 THEN f ELSE stack[i]
  BY <1>1, <1>2, <1>3, ExceptSeq
<1> QED
  BY <1>2, <1>4

(* A cell the recursion leaves alone changes no module. *)
LEMMA LeaveCellInv ==
    ASSUME HierarchyInv, VisitCell, NEW c \in stack[1].cells, LeaveCell(c)
    PROVE  HierarchyInv'
<1>1. stack # <<>> /\ stack' = Visited(c)
  BY DEF VisitCell, LeaveCell
<1>2. UNCHANGED <<input, pc, design, ffSources, edges, todo, wrapper, path, toRemove>>
  BY DEF VisitCell, LeaveCell
<1>3. /\ stack' \in Seq(Frame) /\ Len(stack') = Len(stack)
      /\ \A i \in 1..Len(stack) :
            /\ stack'[i].mod = stack[i].mod /\ stack'[i].owner = stack[i].owner
            /\ stack'[i].cell = stack[i].cell /\ stack'[i].cells \subseteq stack[i].cells
  BY <1>1, VisitedFacts
<1>4. TypeOK'
  BY <1>2, <1>3 DEF HierarchyInv, TypeOK, InputType
<1>5. NoDanglingCells' /\ NamesOK'
  BY <1>2 DEF HierarchyInv, NoDanglingCells, NamesOK
<1>6. TodoOK' /\ ImplOK'
  BY <1>2 DEF HierarchyInv, TodoOK, ImplOK
<1>7. LevelsOK' /\ TemplateOK'
  BY <1>2 DEF HierarchyInv, LevelsOK, TemplateOK
<1>8. StackOK'
  <2>1. \A x \in DOMAIN design' : x \notin Primitive
    BY <1>2, DesignNames
  <2>2. \A i \in 1..Len(stack') : FrameOK(i)'
    BY <1>2, <1>3, <2>1, FrameKept
  <2>3. pc' = "full" /\ path' \in 1..3
    BY <1>1, <1>2, TopFacts
  <2> QED
    BY <2>2, <2>3 DEF StackOK
<1> QED
  BY <1>2, <1>4, <1>5, <1>6, <1>7, <1>8 DEF HierarchyInv

(* The cell that needs a clone, and the name of the clone.                 *)
LEMMA UniqueFacts ==
    ASSUME HierarchyInv, stack # <<>>, NEW c \in stack[1].cells, ~KeepsType(c)
    PROVE  LET un == UniqueName(c)
           IN  /\ c \in Cell /\ c.type \in DOMAIN design /\ c.type # Template(wrapper)
               /\ c.type # wrapper
               /\ un \in Name /\ un # <<>> /\ un[1] = c.type[1]
               /\ LastToken(un) \in PathSuffixes /\ un \notin UserName /\ un \notin Primitive
               /\ LevelOf(un) = LevelOf(c.type)
               /\ LevelOf(c.type) < LevelOf(wrapper)
               /\ LevelOf(c.type) =< LevelOf(stack[1].mod)
<1>1. /\ path \in 1..3 /\ stack[1] \in Frame /\ FrameOK(1) /\ pc = "full"
  BY TopFacts
<1>2. c \in Cell /\ c.type \in DOMAIN design
  BY <1>1 DEF KeepsType, IsProper, Frame
<1>3. /\ LevelOf(c.type) < LevelOf(wrapper) /\ LevelOf(c.type) =< LevelOf(stack[1].mod)
      /\ c.type # Template(wrapper)
  BY <1>1, <1>2 DEF FrameOK
<1>4. c.type \in Name /\ c.type # <<>> /\ LevelOf(c.type) \in Nat /\ LevelOf(wrapper) \in Nat
  BY <1>1, <1>2, DesignNames, FullFacts
<1>5. c.type # wrapper
  BY <1>3, <1>4
<1>6. /\ UniqueName(c) \in Name /\ UniqueName(c) # <<>> /\ UniqueName(c)[1] = c.type[1]
      /\ LastToken(UniqueName(c)) \in PathSuffixes
      /\ UniqueName(c) \notin UserName /\ UniqueName(c) \notin Primitive
  BY <1>1, <1>4, PathName, SuffixFacts DEF UniqueName
<1> QED
  BY <1>2, <1>3, <1>5, <1>6 DEF LevelOf

(* Retyping a cell to the clone that exists keeps levels and names. *)
LEMMA ReuseCloneInv ==
    ASSUME HierarchyInv, VisitCell, NEW c \in stack[1].cells, ReuseClone(c)
    PROVE  HierarchyInv'
<1> DEFINE un == UniqueName(c)
           o == stack[1].mod
<1>1. /\ stack # <<>> /\ stack' = Visited(c) /\ ~KeepsType(c) /\ un \in DOMAIN design
      /\ design' = Retype(design, o, c, un)
  BY DEF VisitCell, ReuseClone
<1>2. UNCHANGED <<input, pc, ffSources, edges, todo, wrapper, path, toRemove>>
  BY DEF VisitCell
<1>3. /\ pc = "full" /\ path \in 1..3 /\ FrameOK(1)
      /\ o \notin UserName /\ o # Template(wrapper) /\ o \in DOMAIN design
  BY <1>1, TopFacts DEF FrameOK
<1>4. /\ c \in Cell /\ LastToken(un) \in PathSuffixes
      /\ LevelOf(un) =< LevelOf(o)
  BY <1>1, UniqueFacts
<1>5. /\ stack' \in Seq(Frame) /\ Len(stack') = Len(stack)
      /\ \A i \in 1..Len(stack) :
            /\ stack'[i].mod = stack[i].mod /\ stack'[i].owner = stack[i].owner
            /\ stack'[i].cell = stack[i].cell /\ stack'[i].cells \subseteq stack[i].cells
  BY <1>1, VisitedFacts
<1> HIDE DEF un, o
<1>6. /\ DOMAIN design' = DOMAIN design
      /\ TypeOK' /\ NoDanglingCells' /\ NamesOK' /\ TodoOK' /\ ImplOK'
      /\ LevelsOK' /\ TemplateOK'
  BY <1>1, <1>2, <1>3, <1>4, <1>5, RetypeCell
<1>7. StackOK'
  <2>1. \A x \in DOMAIN design' : x \notin Primitive
    BY <1>6, DesignNames
  <2>2. \A i \in 1..Len(stack') : FrameOK(i)'
    BY <1>2, <1>5, <1>6, <2>1, FrameKept
  <2> QED
    BY <1>2, <1>3, <2>2 DEF StackOK
<1> QED
  BY <1>2, <1>6, <1>7 DEF HierarchyInv

(* A new clone stands one level above the module its cells instantiate. *)
LEMMA CloneSubmoduleInv ==
    ASSUME HierarchyInv, VisitCell, NEW c \in stack[1].cells, CloneSubmodule(c)
    PROVE  HierarchyInv'
<1> DEFINE un == UniqueName(c)
           f == [mod |-> un, cells |-> design[c.type].cells, owner |-> stack[1].mod, cell |-> c]
<1>1. /\ stack # <<>> /\ stack' = <<f>> \o Visited(c) /\ ~KeepsType(c)
      /\ un \notin DOMAIN design
  BY DEF VisitCell, CloneSubmodule
<1>2. UNCHANGED <<input, pc, ffSources, edges, todo, wrapper, path, toRemove>>
  BY DEF VisitCell
<1>3. /\ pc = "full" /\ path \in 1..3 /\ FrameOK(1) /\ stack[1] \in Frame
      /\ Len(stack) \in Nat /\ Len(stack) >= 1
      /\ stack[1].mod \in DOMAIN design /\ LastToken(stack[1].mod) \in PathSuffixes
  BY <1>1, TopFacts DEF FrameOK
<1>4. /\ c \in Cell /\ c.type \in DOMAIN design /\ c.type # wrapper
      /\ un \in Name /\ un # <<>> /\ un[1] = c.type[1]
      /\ LastToken(un) \in PathSuffixes /\ un \notin UserName /\ un \notin Primitive
      /\ LevelOf(un) = LevelOf(c.type) /\ LevelOf(c.type) < LevelOf(wrapper)
      /\ LevelOf(c.type) =< LevelOf(stack[1].mod)
  BY <1>1, UniqueFacts
<1>5. /\ wrapper \in DOMAIN design /\ LevelOf(wrapper) \in Nat
      /\ \A k \in design[c.type].cells :
           /\ k \in Cell
           /\ k.type \in DOMAIN design \cup Primitive
           /\ k.type \in DOMAIN design => LevelOf(k.type) =< LevelOf(c.type)
           /\ k.type # Template(wrapper)
  BY <1>3, <1>4, FullFacts
<1>6. design[c.type] \in Module
  BY <1>4, DesignNames
<1>7. /\ DOMAIN design' = DOMAIN design \cup {un}
      /\ design'[un] \in Module /\ design'[un].cells = design[c.type].cells
      /\ design'[un].impl = NoName
      /\ \A x \in DOMAIN design : x # un => design'[x] = design[x]
  <2> DEFINE k == [design[c.type] EXCEPT !.proper = TRUE, !.impl = NoName]
  <2>1. design' = Put(design, un, k)
    BY DEF CloneSubmodule
  <2>2. k \in Module /\ k.cells = design[c.type].cells /\ k.impl = NoName
    <3>1. NoName \in Name
      BY DEF NoName, Name
    <3> QED
      BY <1>6, <3>1 DEF Module
  <2> HIDE DEF k, un
  <2> QED
    BY <2>1, <2>2 DEF Put
<1>8. /\ f \in Frame /\ f.mod = un /\ f.cells = design[c.type].cells
      /\ f.owner = stack[1].mod /\ f.cell = c
  BY <1>3, <1>4, <1>5 DEF Frame
<1> HIDE DEF un, f
<1>9. /\ stack' \in Seq(Frame) /\ Len(stack') = Len(stack) + 1 /\ stack'[1] = f
      /\ \A i \in 1..Len(stack) :
            /\ stack'[i + 1].mod = stack[i].mod /\ stack'[i + 1].owner = stack[i].owner
            /\ stack'[i + 1].cell = stack[i].cell /\ stack'[i + 1].cells \subseteq stack[i].cells
  <2> DEFINE v == Visited(c)
  <2>1. /\ v \in Seq(Frame) /\ Len(v) = Len(stack)
        /\ \A i \in 1..Len(stack) :
             /\ v[i].mod = stack[i].mod /\ v[i].owner = stack[i].owner
             /\ v[i].cell = stack[i].cell /\ v[i].cells \subseteq stack[i].cells
    BY <1>1, VisitedFacts
  <2>2. stack' = <<f>> \o v
    BY <1>1
  <2> HIDE DEF v
  <2>3. /\ stack' \in Seq(Frame) /\ Len(stack') = Len(v) + 1 /\ stack'[1] = f
        /\ \A i \in 1..Len(v) : stack'[i + 1] = v[i]
    BY <1>8, <2>1, <2>2
  <2> QED
    BY <2>1, <2>3
<1>10. /\ TypeOK' /\ NoDanglingCells' /\ NamesOK' /\ TodoOK' /\ ImplOK'
       /\ LevelsOK' /\ TemplateOK'
  BY <1>1, <1>2, <1>3, <1>4, <1>5, <1>7, <1>9, AddClone
<1>11. StackOK'
  <2>1. \A x \in DOMAIN design' : x \notin Primitive
    BY <1>4, <1>7, DesignNames
  <2>2. ASSUME NEW k \in f.cells
        PROVE  /\ k.type \in DOMAIN design' \cup Primitive
               /\ k.type \in DOMAIN design' =>
                    /\ LevelOf(k.type) < LevelOf(wrapper)
                    /\ LevelOf(k.type) =< LevelOf(un)
                    /\ k.type # Template(wrapper)
    <3>1. k \in design[c.type].cells /\ k.type \in DOMAIN design' \cup Primitive
      BY <1>5, <1>7, <1>8
    <3>2. ASSUME k.type \in DOMAIN design'
          PROVE  /\ k.type \in DOMAIN design /\ LevelOf(k.type) \in Nat
                 /\ LevelOf(c.type) \in Nat
      BY <1>4, <1>5, <1>7, <3>1, <3>2, DesignNames
    <3> QED
      BY <1>4, <1>5, <3>1, <3>2
  <2>3. FrameOK(1)'
    BY <1>2, <1>3, <1>4, <1>7, <1>8, <1>9, <2>2 DEF FrameOK
  <2>4. ASSUME NEW j \in 2..Len(stack')
        PROVE  FrameOK(j)'
    <3> DEFINE i == j - 1
    <3>1. i \in 1..Len(stack) /\ j = i + 1 /\ j \in 1..Len(stack')
      BY <1>3, <1>9
    <3>2. i = Len(stack) <=> j = Len(stack')
      BY <1>3, <1>9, <3>1
    <3>3. /\ stack'[j].mod = stack[i].mod /\ stack'[j].owner = stack[i].owner
          /\ stack'[j].cell = stack[i].cell /\ stack'[j].cells \subseteq stack[i].cells
      BY <1>9, <3>1
    <3> HIDE DEF i
    <3> QED
      BY <1>2, <1>7, <2>1, <3>1, <3>2, <3>3, FrameKept
  <2>5. pc' = "full" /\ path' \in 1..3
    BY <1>2, <1>3
  <2>6. \A j \in 1..Len(stack') : j = 1 \/ j \in 2..Len(stack')
    OBVIOUS
  <2> QED
    BY <2>3, <2>4, <2>5, <2>6 DEF StackOK
<1> QED
  BY <1>2, <1>10, <1>11 DEF HierarchyInv

(* The cell that an activation was for is retyped when it returns.         *)
LEMMA ReturnInv == ASSUME HierarchyInv, Return PROVE HierarchyInv'
<1> DEFINE f == stack[1]
<1>1. /\ stack # <<>> /\ stack' = Tail(stack)
      /\ design' = Retype(design, f.owner, f.cell, f.mod)
      /\ path' = IF Len(stack) = 1 THEN path + 1 ELSE path
  BY DEF Return
<1>2. UNCHANGED <<input, pc, ffSources, edges, todo, wrapper, toRemove>>
  BY DEF Return
<1>3. /\ pc = "full" /\ path \in 1..3 /\ FrameOK(1) /\ f \in Frame
      /\ stack \in Seq(Frame) /\ Len(stack) \in Nat /\ 1 \in 1..Len(stack)
  BY <1>1, TopFacts
<1>4. f.cell \in Cell
  BY <1>3 DEF Frame
<1>5. /\ f.owner \in DOMAIN design /\ f.mod \in DOMAIN design
      /\ LastToken(f.mod) \in PathSuffixes /\ LevelOf(f.mod) =< LevelOf(f.owner)
      /\ IF Len(stack) = 1
         THEN f.owner = wrapper /\ f.cell = Duplicate(Template(wrapper), path)
         ELSE LastToken(f.owner) \in PathSuffixes
  BY <1>3 DEF FrameOK
<1>6. /\ f.owner \notin UserName \/ f.owner = wrapper
      /\ f.owner # Template(wrapper)
  BY <1>3, <1>5, FullFacts, TemplateFacts, UserNameFacts, SuffixFacts
<1>7. /\ stack' \in Seq(Frame) /\ Len(stack') = Len(stack) - 1
      /\ \A i \in 1..Len(stack') : stack'[i] = stack[i + 1]
  BY <1>1, <1>3, HeadTailProperties
<1>8. \/ path' = path
      \/ /\ path \in 1..3 /\ path' = path + 1 /\ f.owner = wrapper
         /\ f.cell = Duplicate(Template(wrapper), path)
  BY <1>1, <1>3, <1>5
<1> HIDE DEF f
<1>9. /\ DOMAIN design' = DOMAIN design
      /\ TypeOK' /\ NoDanglingCells' /\ NamesOK' /\ TodoOK' /\ ImplOK'
      /\ LevelsOK' /\ TemplateOK'
  BY <1>1, <1>2, <1>3, <1>4, <1>5, <1>6, <1>7, <1>8, RetypeCell
<1>10. StackOK'
  <2>1. \A x \in DOMAIN design' : x \notin Primitive
    BY <1>9, DesignNames
  <2>2. ASSUME NEW j \in 1..Len(stack')
        PROVE  FrameOK(j)'
    <3> DEFINE i == j + 1
    <3>1. i \in 1..Len(stack) /\ (i = Len(stack) <=> j = Len(stack')) /\ path' = path
      BY <1>1, <1>3, <1>7
    <3>2. stack'[j] = stack[i]
      BY <1>7
    <3> HIDE DEF i
    <3> QED
      BY <1>2, <1>9, <2>1, <3>1, <3>2, FrameKept
  <2>3. pc' = "full" /\ path' \in 1..4 /\ (stack' # <<>> => path' \in 1..3)
    BY <1>1, <1>2, <1>3, <1>7
  <2> QED
    BY <2>2, <2>3 DEF StackOK
<1> QED
  BY <1>2, <1>9, <1>10 DEF HierarchyInv

-----------------------------------------------------------------------------
(* Every step of both passes keeps the invariant. *)
LEMMA NextInv == HierarchyInv /\ [Next]_vars => HierarchyInv'
<1> SUFFICES ASSUME HierarchyInv, [Next]_vars PROVE HierarchyInv'
  OBVIOUS
<1>1. CASE Mark
  BY <1>1, MarkInv
<1>2. CASE Synthesize
  BY <1>2, SynthesizeInv
<1>3. CASE Plan
  BY <1>3, PlanInv
<1>4. ASSUME NEW m \in todo, SkipModule(m) \/ ExpandLogic(m) \/ StartFull(m)
      PROVE  HierarchyInv'
  BY <1>4, SkipModuleInv, ExpandLogicInv, StartFullInv
<1>5. CASE CloneWorker
  BY <1>5, CloneWorkerInv
<1>6. CASE VisitCell
  <2>1. PICK c \in stack[1].cells : LeaveCell(c) \/ ReuseClone(c) \/ CloneSubmodule(c)
    BY <1>6 DEF VisitCell
  <2> QED
    BY <1>6, <2>1, LeaveCellInv, ReuseCloneInv, CloneSubmoduleInv
<1>7. CASE Return
  BY <1>7, ReturnInv
<1>8. CASE FinishFull
  BY <1>8, FinishFullInv
<1>9. CASE StartCleanup
  BY <1>9, StartCleanupInv
<1>10. ASSUME NEW n \in toRemove, CleanupOne(n)
       PROVE  HierarchyInv'
  BY <1>10, CleanupOneInv
<1>11. CASE Finish
  BY <1>11, FinishInv
<1>12. CASE Terminated \/ UNCHANGED vars
  BY <1>12, StutterInv DEF Terminated
<1> QED
  BY <1>1, <1>2, <1>3, <1>4, <1>5, <1>6, <1>7, <1>8, <1>9, <1>10, <1>11, <1>12 DEF Next

(* The inductive invariant holds in every state of the two passes.         *)
THEOREM HierarchyInvariant == Spec => []HierarchyInv
<1>1. Init => HierarchyInv
  BY InitInv
<1>2. HierarchyInv /\ [Next]_vars => HierarchyInv'
  BY NextInv
<1> QED
  BY <1>1, <1>2, PTL DEF Spec

(* The variables of the passes keep their types.                           *)
THEOREM TypeCorrect == Spec => []TypeOK
<1>1. HierarchyInv => TypeOK
  BY DEF HierarchyInv
<1> QED
  BY <1>1, HierarchyInvariant, PTL

(* The passes never leave a cell whose type is no module of the design:    *)
(* not while a template replaces a module, not while submodules are cloned *)
(* for a path, not when originals are removed.                             *)
THEOREM NoDangling == Spec => []NoDanglingCells
<1>1. HierarchyInv => NoDanglingCells
  BY DEF HierarchyInv
<1> QED
  BY <1>1, HierarchyInvariant, PTL
=============================================================================
