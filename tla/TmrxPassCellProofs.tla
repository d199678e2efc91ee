-------------------------- MODULE TmrxPassCellProofs --------------------------
(***************************************************************************)
(* What holds of every cell of the hierarchy: it is connected by the ports *)
(* its module has at that moment, and a copy of a register is voted.       *)
(***************************************************************************)
EXTENDS TmrxPassIdentityProofs

-----------------------------------------------------------------------------
(* Names and levels.                                                       *)

(* A name is the name it continues, and its last token.                    *)
LEMMA NameSplit ==
    ASSUME NEW n \in Name, n # <<>>
    PROVE  /\ ClonedFrom(n) \in Name /\ LastToken(n) \in Token
           /\ n = Append(ClonedFrom(n), LastToken(n))
<1>1. n \in Seq(Token) /\ Len(n) \in Nat /\ Len(n) >= 1
  BY DEF Name
<1>2. LastToken(n) \in Token
  BY <1>1 DEF LastToken
<1>3. /\ ClonedFrom(n) \in Seq(Token) /\ Len(ClonedFrom(n)) = Len(n) - 1
      /\ \A i \in 1..(Len(n) - 1) : ClonedFrom(n)[i] = n[i]
  <2> DEFINE k == Len(n) - 1
  <2>1. k \in Nat /\ k \in Int /\ 1 \in Int /\ \A i \in 1..k : n[i] \in Token
    BY <1>1
  <2>2. /\ SubSeq(n, 1, k) \in Seq(Token)
        /\ Len(SubSeq(n, 1, k)) = IF 1 =< k THEN k - 1 + 1 ELSE 0
        /\ \A i \in 1..(k - 1 + 1) : SubSeq(n, 1, k)[i] = n[1 + i - 1]
    BY <2>1, SubSeqProperties
  <2> HIDE DEF k
  <2>3. /\ (IF 1 =< k THEN k - 1 + 1 ELSE 0) = k /\ k - 1 + 1 = k
        /\ \A i \in 1..k : 1 + i - 1 = i
    BY <2>1
  <2>4. /\ SubSeq(n, 1, k) \in Seq(Token) /\ Len(SubSeq(n, 1, k)) = k
        /\ \A i \in 1..k : SubSeq(n, 1, k)[i] = n[i]
    BY <2>2, <2>3
  <2> QED
    BY <2>4 DEF ClonedFrom, k
<1>4. /\ Append(ClonedFrom(n), LastToken(n)) \in Seq(Token)
      /\ Len(Append(ClonedFrom(n), LastToken(n))) = Len(n)
      /\ \A i \in 1..(Len(n) - 1) : Append(ClonedFrom(n), LastToken(n))[i] = n[i]
      /\ Append(ClonedFrom(n), LastToken(n))[Len(n)] = n[Len(n)]
  BY <1>1, <1>2, <1>3, AppendProperties DEF LastToken
<1>5. \A i \in 1..Len(n) : Append(ClonedFrom(n), LastToken(n))[i] = n[i]
  <2>1. \A i \in 1..Len(n) : i \in 1..(Len(n) - 1) \/ i = Len(n)
    BY <1>1
  <2> QED
    BY <1>4, <2>1
<1>6. n = Append(ClonedFrom(n), LastToken(n))
  BY <1>1, <1>4, <1>5, SeqEqual
<1> QED
  BY <1>2, <1>3, <1>6 DEF Name

(* A cell refers to a module that was there before the step, if the step   *)
(* only adds modules under names that are no primitive.                    *)
LEMMA OldType ==
    ASSUME HierarchyInv, NEW n \in DOMAIN design, NEW c \in design[n].cells,
           c.type \notin Primitive
    PROVE  c.type \in DOMAIN design
BY DEF HierarchyInv, NoDanglingCells

(* The cells of a module that waits to be processed are of lower levels,   *)
(* and so of other modules than the one that is expanded.                  *)
LEMMA LowerCells ==
    ASSUME HierarchyInv, pc = "process", NEW m \in todo,
           NEW c \in design[m].cells, c.type \in DOMAIN design
    PROVE  /\ c.type # m /\ c.type # Target(m) /\ c.type \in DOMAIN WithTarget(m)
           /\ WithTarget(m)[c.type].impl # Target(m)
<1> DEFINE t == Target(m)
           w == WithTarget(m)
<1>1. /\ m \in DOMAIN design /\ DOMAIN w = DOMAIN design \cup {t}
      /\ t \in Name /\ t # <<>>
  BY TargetFacts
<1>2. LevelOf(c.type) < LevelOf(m) /\ LevelOf(m) \in Nat /\ LevelOf(c.type) \in Nat
  BY <1>1, DesignNames DEF HierarchyInv, LevelsOK
<1>3. LevelOf(t) = LevelOf(m)
  BY TargetCells
<1>4. w[c.type].impl # NoName => w[c.type].impl = Append(c.type, ImplSuffix)
  BY <1>1, TargetCells
<1>5. LevelOf(Append(c.type, ImplSuffix)) = LevelOf(c.type)
  BY DesignNames, SuffixFacts, AppendName DEF LevelOf
<1>6. t # NoName
  BY <1>1 DEF NoName
<1>7. LevelOf(c.type) # LevelOf(m)
  BY <1>2
<1>8. c.type # m /\ c.type # t
  BY <1>3, <1>7
<1>9. w[c.type].impl # t
  BY <1>3, <1>4, <1>5, <1>6, <1>7
<1> HIDE DEF t, w
<1> QED
  BY <1>1, <1>8, <1>9 DEF t, w

-----------------------------------------------------------------------------
(* Ports.                                                                  *)

(* A cell that any module holds still has the ports of its module, and its *)
(* module is marked, after a step that adds modules or changes some in     *)
(* place.  One that is changed in place keeps its ports unless it is an    *)
(* unmarked module of the user, which nothing instantiates.                *)
LEMMA GrownPorts ==
    ASSUME HierarchyInv, PortsInv, pc # "mark", NEW S,
           DOMAIN design \subseteq DOMAIN design',
           \A x \in DOMAIN design' \ S :
             /\ x \in DOMAIN design
             /\ design'[x].cells = design[x].cells
             /\ design'[x].ports = design[x].ports
             /\ design[x].proper => design'[x].proper,
           \A x \in S \cap DOMAIN design :
             /\ design'[x].ports = design[x].ports \/ (x \in UserName /\ ~design[x].proper)
             /\ design[x].proper => design'[x].proper,
           \A x \in DOMAIN design' \ DOMAIN design :
             /\ x \notin Primitive
             /\ LastToken(x) \in PathSuffixes \/ \A s \in Token : Append(x, s) \notin DOMAIN design
             /\ LastToken(x) \in PathSuffixes =>
                  /\ ClonedFrom(x) \in DOMAIN design'
                  /\ design'[x].ports = design'[ClonedFrom(x)].ports
                  /\ \/ design'[ClonedFrom(x)].proper
                     \/ LastToken(ClonedFrom(x)) = WorkerSuffix,
           \A x \in S :
             /\ x \in UserName \/ LastToken(x) = WorkerSuffix \/ design'[x].proper
             /\ \A c \in design'[x].cells : c.type \in DOMAIN design' =>
                  /\ c.ports = design'[c.type].ports
                  /\ design'[c.type].proper \/ LastToken(c.type) = WorkerSuffix
    PROVE  InstancesMarked' /\ ClonesAlike' /\ PortsMatch'
<1>1. \A x \in DOMAIN design' : x \notin Primitive
  BY DesignNames
<1>2. \A x \in UserName : LastToken(x) # WorkerSuffix /\ LastToken(x) \notin PathSuffixes
  BY UserNameFacts, SuffixFacts
<1>3. ASSUME NEW n \in DOMAIN design' \ S, NEW c \in design'[n].cells, c.type \in DOMAIN design'
      PROVE  /\ c.ports = design'[c.type].ports
             /\ design'[c.type].proper \/ LastToken(c.type) = WorkerSuffix
  <2>1. n \in DOMAIN design /\ c \in design[n].cells /\ c.type \in DOMAIN design
    BY <1>1, <1>3, OldType
  <2>2. /\ c.ports = design[c.type].ports
        /\ design[c.type].proper \/ LastToken(c.type) = WorkerSuffix
    BY <2>1 DEF PortsInv, InstancesMarked, PortsMatch
  <2>3. design'[c.type].ports = design[c.type].ports
    BY <1>2, <2>1, <2>2
  <2>4. design[c.type].proper => design'[c.type].proper
    BY <2>1
  <2> QED
    BY <2>2, <2>3, <2>4
<1>4. PortsMatch'
  BY <1>3 DEF PortsMatch
<1>5. InstancesMarked'
  <2>1. \A n \in DOMAIN design' : n \in UserName \/ LastToken(n) = WorkerSuffix \/ design'[n].proper
    BY DEF PortsInv, InstancesMarked
  <2> QED
    BY <1>3, <2>1 DEF InstancesMarked
<1>6. ASSUME NEW n \in DOMAIN design', n # <<>>, LastToken(n) \in PathSuffixes
      PROVE  IF ClonedFrom(n) \in DOMAIN design'
             THEN /\ design'[n].ports = design'[ClonedFrom(n)].ports
                  /\ design'[ClonedFrom(n)].proper \/ LastToken(ClonedFrom(n)) = WorkerSuffix
             ELSE LastToken(ClonedFrom(n)) \notin PathSuffixes
  <2> DEFINE o == ClonedFrom(n)
  <2>1. CASE n \notin DOMAIN design
    BY <1>6, <2>1
  <2>2. CASE n \in DOMAIN design
    <3>1. n = Append(o, LastToken(n)) /\ LastToken(n) \in Token
      BY <1>6, <2>2, NameSplit, DesignNames
    <3>2. IF o \in DOMAIN design
          THEN /\ design[n].ports = design[o].ports
               /\ design[o].proper \/ LastToken(o) = WorkerSuffix
          ELSE LastToken(o) \notin PathSuffixes
      BY <1>6, <2>2 DEF PortsInv, ClonesAlike
    <3>3. design'[n].ports = design[n].ports
      BY <1>2, <1>6, <2>2
    <3>4. CASE o \in DOMAIN design
      <4>1. design'[o].ports = design[o].ports
        BY <1>2, <3>2, <3>4
      <4>2. design[o].proper => design'[o].proper
        BY <3>4
      <4> QED
        BY <3>2, <3>3, <3>4, <4>1, <4>2
    <3>5. CASE o \notin DOMAIN design
      <4>1. LastToken(o) \notin PathSuffixes
        BY <3>2, <3>5
      <4>2. o \notin DOMAIN design'
        BY <2>2, <3>1, <3>5, <4>1
      <4> QED
        BY <4>1, <4>2
    <3> QED
      BY <3>4, <3>5
  <2> QED
    BY <2>1, <2>2
<1>7. ClonesAlike'
  BY <1>6 DEF ClonesAlike, ClonedFrom, LastToken
<1> QED
  BY <1>4, <1>5, <1>7

(* The design of the user.                                                 *)
LEMMA UserCellFacts ==
    ASSUME NEW e
    PROVE  /\ UserCell(e).inst = e[1] /\ UserCell(e).path = ""
           /\ UserCell(e).type = e[2] /\ UserCell(e).ports = "base"
BY DEF UserCell

(* Ports, registers and marks of a module before the passes touch it. *)
LEMMA UserModuleFacts ==
    ASSUME NEW n \in UserName
    PROVE  /\ UserModule(n[1]).ports = "base" /\ ~UserModule(n[1]).proper
           /\ UserModule(n[1]).cells = {UserCell(e) : e \in input.cells[n[1]]}
           /\ UserModule(n[1]).bb <=> n \in input.bb
<1>1. n = <<n[1]>>
  BY DEF UserName
<1> QED
  BY <1>1 DEF UserModule

(* Before the passes all ports are the user's.                             *)
LEMMA InitPorts == Init => PortsInv
<1> SUFFICES ASSUME Init PROVE PortsInv
  OBVIOUS
<1>1. /\ pc = "mark" /\ todo = {} /\ stack = <<>>
      /\ DOMAIN design = UserName /\ \A n \in UserName : design[n] = UserModule(n[1])
      /\ design = [n \in UserName |-> UserModule(n[1])]
      /\ InputType(input)
  BY InputsAssumption DEF Init
<1>2. \A n \in UserName : /\ design[n].ports = "base"
                          /\ \A c \in design[n].cells : c.ports = "base"
  <2> TAKE n \in UserName
  <2>1. design[n].ports = "base" /\ design[n].cells = {UserCell(e) : e \in input.cells[n[1]]}
    BY <1>1, UserModuleFacts
  <2>2. \A c \in design[n].cells : c.ports = "base"
    <3> TAKE c \in design[n].cells
    <3>1. PICK e \in input.cells[n[1]] : c = UserCell(e)
      BY <2>1
    <3> QED
      BY <3>1, UserCellFacts
  <2> QED
    BY <2>1, <2>2
<1>3. \A n \in UserName : LastToken(n) \notin PathSuffixes
  BY UserNameFacts, SuffixFacts
<1>4. UserDesign /\ BasePorts
  BY <1>1, <1>2 DEF UserDesign, BasePorts
<1>5. InstancesMarked /\ ClonesAlike
  BY <1>1, <1>3 DEF InstancesMarked, ClonesAlike
<1>6. FramePorts /\ PortsMatch
  BY <1>1, <1>2 DEF FramePorts, PortsMatch
<1> QED
  BY <1>4, <1>5, <1>6 DEF PortsInv

(* tmrx_mark marks whatever has instances.                                 *)
LEMMA MarkPorts ==
    ASSUME HierarchyInv, PortsInv, InstancesSelected, Mark
    PROVE  PortsInv'
<1>1. /\ pc = "mark" /\ pc' = "synth" /\ DOMAIN design = UserName
      /\ todo = {} /\ stack = <<>>
      /\ UNCHANGED <<input, edges, todo, wrapper, path, stack, toRemove>>
      /\ DOMAIN design' = DOMAIN design
      /\ \A n \in DOMAIN design :
           /\ design'[n].cells = design[n].cells
           /\ design'[n].ports = design[n].ports
           /\ (\E p \in input.markSel : /\ ~design[p].bb
                                        /\ \E c \in design[p].cells : c.type = n)
                => design'[n].proper
  BY MarkStep
<1>2. /\ InputType(input) /\ \A n \in UserName : design[n] = UserModule(n[1])
  BY <1>1 DEF PortsInv, UserDesign, HierarchyInv, TypeOK
<1>3. ASSUME NEW n \in UserName, NEW c \in design[n].cells, c.type \in UserName
      PROVE  design'[c.type].proper
  <2>1. n[1] \in User
    BY UserNameFacts
  <2>2. PICK e \in input.cells[n[1]] : c = UserCell(e)
    <3>1. design[n].cells = {UserCell(k) : k \in input.cells[n[1]]}
      BY <1>2, UserModuleFacts
    <3> QED
      BY <1>3, <3>1
  <2>3. e[2] = c.type
    BY <2>2, UserCellFacts
  <2>4. PICK p \in input.markSel : \E f \in input.cells[p[1]] : f[2] = c.type
    BY <1>3, <2>1, <2>3 DEF InstancesSelected
  <2>5. PICK f \in input.cells[p[1]] : f[2] = c.type
    BY <2>4
  <2>6. p \in UserName /\ p[1] \in User /\ p = <<p[1]>>
    BY <1>2 DEF InputType, UserName
  <2>7. UserCell(f) \in design[p].cells /\ UserCell(f).type = c.type
    <3>1. design[p].cells = {UserCell(k) : k \in input.cells[p[1]]}
      BY <1>2, <2>6, UserModuleFacts
    <3> QED
      BY <2>5, <3>1, UserCellFacts
  <2>8. p \notin input.bb
    BY <1>2, <2>5, <2>6 DEF InputType
  <2>9. ~design[p].bb
    BY <1>2, <2>6, <2>8, UserModuleFacts
  <2> QED
    BY <1>1, <1>3, <2>7, <2>9
<1>4. \A n \in UserName : LastToken(n) \notin PathSuffixes
  BY UserNameFacts, SuffixFacts
<1>5. UserDesign' /\ BasePorts'
  BY <1>1 DEF PortsInv, UserDesign, BasePorts
<1>6. InstancesMarked' /\ ClonesAlike'
  BY <1>1, <1>3, <1>4 DEF InstancesMarked, ClonesAlike
<1>7. FramePorts' /\ PortsMatch'
  BY <1>1 DEF PortsInv, FramePorts, PortsMatch
<1> QED
  BY <1>5, <1>6, <1>7 DEF PortsInv

(* Mapping does not touch ports or instances of modules.                   *)
LEMMA SynthesizePorts ==
    ASSUME HierarchyInv, PortsInv, Synthesize
    PROVE  PortsInv'
<1>1. /\ pc = "synth" /\ pc' = "plan" /\ DOMAIN design = UserName
      /\ todo = {} /\ stack = <<>>
      /\ UNCHANGED <<input, ffSources, edges, todo, wrapper, path, stack, toRemove>>
      /\ DOMAIN design' = DOMAIN design
      /\ \A n \in DOMAIN design :
           /\ design'[n].ports = design[n].ports
           /\ design'[n].proper = design[n].proper
  BY SynthesizeStep
<1>8. \A n \in DOMAIN design :
         design'[n].cells = IF input.mapped THEN {MapCell(c) : c \in design[n].cells}
                            ELSE design[n].cells
  BY SynthesizeStep
<1>2. \A n \in DOMAIN design : design[n].cells \subseteq Cell
  BY DesignNames DEF Module
<1>3. ASSUME NEW n \in UserName, NEW c \in design'[n].cells
      PROVE  \E k \in design[n].cells : c.ports = k.ports /\ (c.type \in UserName => c.type = k.type)
  <2>1. CASE input.mapped
    <3>1. PICK k \in design[n].cells : c = MapCell(k)
      BY <1>1, <1>3, <1>8, <2>1
    <3>2. k \in Cell
      BY <1>1, <1>2
    <3>3. c.ports = k.ports /\ c.type = IF k.type = BuiltinFf THEN LibraryFf ELSE k.type
      BY <3>1, <3>2, MapCellFacts
    <3> QED
      BY <3>3, PrimitiveFacts
  <2>2. CASE ~input.mapped
    BY <1>1, <1>3, <1>8, <2>2
  <2> QED
    BY <2>1, <2>2
<1>4. \A n \in UserName : LastToken(n) \notin PathSuffixes
  BY UserNameFacts, SuffixFacts
<1>5. UserDesign' /\ BasePorts'
  BY <1>1, <1>3 DEF PortsInv, UserDesign, BasePorts
<1>6. InstancesMarked' /\ ClonesAlike'
  BY <1>1, <1>3, <1>4 DEF PortsInv, InstancesMarked, ClonesAlike
<1>7. FramePorts' /\ PortsMatch'
  BY <1>1, <1>3 DEF PortsInv, FramePorts, PortsMatch
<1> QED
  BY <1>5, <1>6, <1>7 DEF PortsInv

(* The steps that leave the design alone.                                  *)
LEMMA IdlePorts ==
    ASSUME HierarchyInv, PortsInv,
           Plan \/ (\E m \in todo : SkipModule(m)) \/ StartCleanup \/ Finish \/ UNCHANGED vars
    PROVE  PortsInv'
<1>1. /\ UNCHANGED <<input, design, wrapper, stack>>
      /\ todo' \subseteq todo \/ (pc = "plan" /\ todo' \subseteq UserName)
      /\ pc' = pc \/ (pc # "mark" /\ pc' \in {"process", "cleanup", "done"})
  <2>1. CASE Plan
    <3>1. UNCHANGED <<input, design, wrapper, stack>> /\ pc = "plan" /\ pc' = "process"
      BY <2>1 DEF Plan
    <3>2. todo' \subseteq UserName
      BY <2>1 DEF Plan, HierarchyInv, TypeOK, InputType
    <3> QED
      BY <3>1, <3>2
  <2>2. CASE (\E m \in todo : SkipModule(m)) \/ StartCleanup \/ Finish \/ UNCHANGED vars
    BY <2>2 DEF SkipModule, StartCleanup, Finish, vars
  <2> QED
    BY <2>1, <2>2
<1>2. pc = "plan" => DOMAIN design = UserName
  BY DEF HierarchyInv, TodoOK
<1>3. UserDesign'
  BY <1>1 DEF PortsInv, UserDesign, UserModule, UserCell
<1>4. BasePorts'
  BY <1>1, <1>2 DEF PortsInv, BasePorts, Template
<1>5. InstancesMarked' /\ ClonesAlike'
  BY <1>1 DEF PortsInv, InstancesMarked, ClonesAlike
<1>6. FramePorts' /\ PortsMatch'
  BY <1>1 DEF PortsInv, FramePorts, PortsMatch
<1> QED
  BY <1>3, <1>4, <1>5, <1>6 DEF PortsInv

-----------------------------------------------------------------------------
(* Expanding a module.                                                     *)

(* A module that is changed in place and has instances or clones keeps the *)
(* ports it has; so only a clone, under a new name, gets others.           *)
LEMMA TargetPorts ==
    ASSUME HierarchyInv, IdentityInv, PortsInv, pc = "process", NEW m \in todo
    PROVE  LET t == Target(m)
               p == IF ConfigOf(m).preserve THEN "base" ELSE "tri"
           IN  /\ m \in UserName /\ m \in DOMAIN design /\ design[m].ports = "base"
               /\ t = m => p = design[t].ports \/ ~design[t].proper
               /\ t # m => /\ t \notin DOMAIN design /\ t \notin Primitive
                           /\ LastToken(t) = ImplSuffix /\ WithTarget(m)[t].proper
                           /\ \A s \in Token : Append(t, s) \notin DOMAIN design
               /\ LastToken(t) \notin PathSuffixes
<1>1. /\ m \in UserName /\ m \in DOMAIN design /\ design[m].ports = "base"
  BY DEF HierarchyInv, TodoOK, TypeOK, PortsInv, BasePorts
<1>2. Target(m) = m => ConfigOf(m).preserve \/ ~design[m].proper
  BY TargetModules
<1>3. Target(m) # m => WithTarget(m)[Target(m)].proper
  BY TargetModules
<1>4. Target(m) \notin Primitive /\ (Target(m) \in UserName \/ LastToken(Target(m)) = ImplSuffix)
  BY TargetFacts
<1>5. Target(m) # m =>
         /\ Target(m) \notin UserName /\ Target(m) \notin DOMAIN design
         /\ \A s \in Token : Append(Target(m), s) \notin DOMAIN design
  BY FreshTarget DEF IdentityInv
<1>6. LastToken(Target(m)) \notin PathSuffixes
  BY <1>4, UserNameFacts, SuffixFacts
<1> QED
  BY <1>1, <1>2, <1>3, <1>4, <1>5, <1>6

(* The cells of a module that waits to be processed.                       *)
LEMMA TodoCells ==
    ASSUME HierarchyInv, PortsInv, pc = "process", NEW m \in todo, NEW c \in design[m].cells
    PROVE  /\ m \in DOMAIN design
           /\ c.type \notin Primitive =>
                /\ c.type \in DOMAIN design /\ c.type # Target(m)
                /\ c.ports = design[c.type].ports
                /\ design[c.type].proper \/ LastToken(c.type) = WorkerSuffix
<1>1. m \in DOMAIN design
  BY DEF HierarchyInv, TodoOK
<1>2. c.type \notin Primitive => c.type \in DOMAIN design
  BY <1>1, OldType
<1>3. c.type \in DOMAIN design => c.type # Target(m)
  BY LowerCells
<1>4. c.type \in DOMAIN design =>
         /\ c.ports = design[c.type].ports
         /\ design[c.type].proper \/ LastToken(c.type) = WorkerSuffix
  BY <1>1 DEF PortsInv, PortsMatch, InstancesMarked
<1> QED
  BY <1>1, <1>2, <1>3, <1>4

(* The cells that LogicTMR puts into a module: copies of logic, which keep *)
(* type and ports, and instances that are reconnected to what they become. *)
LEMMA ExpandedPorts ==
    ASSUME HierarchyInv, PortsInv, pc = "process", NEW m \in todo, NEW cfg,
           NEW k \in ExpandedCells(WithTarget(m), Target(m), cfg), k.type \notin Primitive
    PROVE  /\ k.type \in DOMAIN design /\ k.type # Target(m)
           /\ k.ports = design[k.type].ports
           /\ design[k.type].proper \/ LastToken(k.type) = WorkerSuffix
<1> DEFINE t == Target(m)
           w == WithTarget(m)
<1>1. /\ DOMAIN w = DOMAIN design \cup {t} /\ w[t].cells = design[m].cells
      /\ m \in DOMAIN design /\ t \in Name
      /\ \A x \in DOMAIN w : w[x] \in Module
  BY TargetFacts
<1>2. \A x \in DOMAIN design : x # t =>
         w[x].ports = design[x].ports
  BY TargetModules
<1>3. \A x \in DOMAIN w : w[x].impl # NoName =>
         w[x].impl = Append(x, ImplSuffix) /\ w[x].impl \in DOMAIN w
  BY TargetCells
<1>4. PICK c \in w[t].cells :
         k \in (IF IsLogicTree(w, c) THEN Triplicate(c, t, cfg) ELSE {Resolve(w, c)})
  BY DEF ExpandedCells
<1>5. c \in design[m].cells /\ c \in Cell
  <2>1. design[m].cells \subseteq Cell
    BY <1>1, DesignNames DEF Module
  <2> QED
    BY <1>1, <1>4, <2>1
<1>6. c.type \notin Primitive =>
         /\ c.type \in DOMAIN design /\ c.type # t
         /\ c.ports = design[c.type].ports
         /\ design[c.type].proper \/ LastToken(c.type) = WorkerSuffix
  BY <1>5, TodoCells
<1>7. CASE IsLogicTree(w, c)
  <2>1. k.type = c.type /\ k.ports = c.ports
    BY <1>4, <1>5, <1>7 DEF Triplicate, Cell
  <2> QED
    BY <1>6, <2>1
<1>8. CASE ~IsLogicTree(w, c)
  <2>1. c.type \in DOMAIN w
    BY <1>8 DEF IsLogicTree, IsProper
  <2> DEFINE eff == IF w[c.type].impl # NoName THEN w[c.type].impl ELSE c.type
  <2>2. k = [c EXCEPT !.type = eff, !.ports = w[eff].ports]
    BY <1>4, <1>8 DEF Resolve
  <2>3. k.type = eff /\ k.ports = w[eff].ports
    BY <1>5, <2>2 DEF Cell
  <2>4. c.type \in DOMAIN design
    <3>1. c.type \in Primitive => c.type \notin DOMAIN w
      BY <1>1, DesignNames, TargetFacts
    <3> QED
      BY <1>6, <2>1, <3>1
  <2>5. /\ c.type # t /\ w[c.type].impl # t
        /\ design[c.type].proper \/ LastToken(c.type) = WorkerSuffix
    BY <1>5, <1>6, <2>4, LowerCells, DesignNames
  <2>6. eff \in DOMAIN design /\ eff # t
    BY <1>1, <1>3, <2>4, <2>5
  <2>7. design[eff].proper \/ LastToken(eff) = WorkerSuffix
    <3>1. CASE eff = c.type
      BY <2>5, <3>1
    <3>2. CASE eff # c.type
      <4>1. eff = Append(c.type, ImplSuffix)
        BY <1>3, <2>1, <3>2
      <4>2. eff \notin UserName
        BY <2>4, <4>1, DesignNames, SuffixFacts, GeneratedName
      <4> QED
        BY <2>6, <4>2 DEF PortsInv, InstancesMarked
    <3> QED
      BY <3>1, <3>2
  <2> HIDE DEF eff
  <2> QED
    BY <1>2, <2>3, <2>6, <2>7
<1> QED
  BY <1>7, <1>8

(* LogicTMR of a module.                                                   *)
LEMMA ExpandLogicPorts ==
    ASSUME HierarchyInv, IdentityInv, PortsInv, NEW m \in todo, ExpandLogic(m)
    PROVE  PortsInv'
<1> DEFINE t == Target(m)
           p == IF ConfigOf(m).preserve THEN "base" ELSE "tri"
<1>1. /\ pc = "process" /\ todo' = todo \ {m} /\ stack = <<>>
      /\ UNCHANGED <<input, pc, ffSources, edges, wrapper, path, stack, toRemove>>
      /\ DOMAIN design' = DOMAIN design \cup {t}
  BY ExpandLogicStep
<1>2. /\ design'[t].cells = ExpandedCells(WithTarget(m), t, ConfigOf(m))
      /\ design'[t].ports = p
  BY ExpandLogicStep
<1>3. design'[t].proper = WithTarget(m)[t].proper
  BY ExpandLogicStep
<1>4. \A x \in DOMAIN design : x # t =>
         design'[x].cells = design[x].cells /\ design'[x].ports = design[x].ports
  BY ExpandLogicOthers
<1>5. \A x \in DOMAIN design : x # t => (design[x].proper => design'[x].proper)
  BY ExpandLogicOthers
<1>6. /\ m \in UserName /\ m \in DOMAIN design /\ design[m].ports = "base"
      /\ t = m => p = design[t].ports \/ ~design[t].proper
      /\ t # m => /\ t \notin DOMAIN design /\ t \notin Primitive
                  /\ LastToken(t) = ImplSuffix /\ WithTarget(m)[t].proper
                  /\ \A s \in Token : Append(t, s) \notin DOMAIN design
      /\ LastToken(t) \notin PathSuffixes
  BY <1>1, TargetPorts
<1>7. t = m => (design[t].proper => design'[t].proper)
  <2>1. t = m => WithTarget(m) = design
    BY <1>1, TargetModules
  <2> QED
    BY <1>3, <2>1
<1>8. ASSUME NEW c \in design'[t].cells, c.type \in DOMAIN design'
      PROVE  /\ c.ports = design'[c.type].ports
             /\ design'[c.type].proper \/ LastToken(c.type) = WorkerSuffix
  <2>1. c.type \notin Primitive
    BY <1>1, <1>6, <1>8, DesignNames
  <2>2. /\ c.type \in DOMAIN design /\ c.type # t
        /\ c.ports = design[c.type].ports
        /\ design[c.type].proper \/ LastToken(c.type) = WorkerSuffix
    BY <1>1, <1>2, <2>1, ExpandedPorts
  <2> QED
    BY <1>4, <1>5, <2>2
<1> HIDE DEF t, p
<1>9. InstancesMarked' /\ ClonesAlike' /\ PortsMatch'
  <2> DEFINE S == {t}
  <2>1. pc # "mark" /\ DOMAIN design \subseteq DOMAIN design'
    BY <1>1
  <2>2. \A x \in DOMAIN design' \ S :
          /\ x \in DOMAIN design
          /\ design'[x].cells = design[x].cells
          /\ design'[x].ports = design[x].ports
          /\ design[x].proper => design'[x].proper
    BY <1>1, <1>4, <1>5
  <2>3. \A x \in S \cap DOMAIN design :
          /\ design'[x].ports = design[x].ports \/ (x \in UserName /\ ~design[x].proper)
          /\ design[x].proper => design'[x].proper
    BY <1>2, <1>6, <1>7
  <2>4. \A x \in DOMAIN design' \ DOMAIN design :
          /\ x \notin Primitive
          /\ LastToken(x) \in PathSuffixes \/ \A s \in Token : Append(x, s) \notin DOMAIN design
          /\ LastToken(x) \notin PathSuffixes
    BY <1>1, <1>6
  <2>5. \A x \in S :
          /\ x \in UserName \/ LastToken(x) = WorkerSuffix \/ design'[x].proper
          /\ \A c \in design'[x].cells : c.type \in DOMAIN design' =>
                  /\ c.ports = design'[c.type].ports
                  /\ design'[c.type].proper \/ LastToken(c.type) = WorkerSuffix
    BY <1>3, <1>6, <1>8
  <2> HIDE DEF S
  <2> QED
    BY <2>1, <2>2, <2>3, <2>4, <2>5, GrownPorts
<1>10. UserDesign' /\ BasePorts'
  <2>1. \A n \in todo' : n \in DOMAIN design /\ n # t
    BY <1>1, <1>6 DEF HierarchyInv, TodoOK
  <2> QED
    BY <1>1, <1>4, <2>1 DEF PortsInv, UserDesign, BasePorts
<1>11. FramePorts'
  BY <1>1 DEF FramePorts
<1> QED
  BY <1>9, <1>10, <1>11 DEF PortsInv

(* FullModuleTMR of a module.                                              *)
LEMMA StartFullPorts ==
    ASSUME HierarchyInv, IdentityInv, PortsInv, NEW m \in todo, StartFull(m)
    PROVE  PortsInv'
<1> DEFINE t == Target(m)
           k == Template(t)
           p == IF ConfigOf(m).preserve THEN "base" ELSE "tri"
<1>1. /\ pc = "process" /\ pc' = "full" /\ todo' = todo \ {m} /\ stack = <<>>
      /\ wrapper' = t /\ path' = 1
      /\ UNCHANGED <<input, ffSources, edges, stack, toRemove>>
      /\ k \notin DOMAIN design /\ k # t /\ k \in Name /\ LastToken(k) = WorkerSuffix
      /\ k \notin UserName /\ k \notin Primitive
      /\ DOMAIN design' = DOMAIN design \cup {t, k}
  BY StartFullStep
<1>2. design'[t].cells = {Duplicate(k, i) : i \in 1..3} /\ design'[t].ports = p
  BY StartFullStep
<1>3. design'[t].proper /\ design'[k].cells = design[m].cells /\ design'[k].ports = design[m].ports
  BY StartFullStep
<1>4. \A x \in DOMAIN design : x # t =>
         design'[x].cells = design[x].cells /\ design'[x].ports = design[x].ports
  BY StartFullOthers
<1>5. \A x \in DOMAIN design : x # t => (design[x].proper => design'[x].proper)
  BY StartFullOthers
<1>6. /\ m \in UserName /\ m \in DOMAIN design /\ design[m].ports = "base"
      /\ t = m => p = design[t].ports \/ ~design[t].proper
      /\ t # m => /\ t \notin DOMAIN design /\ t \notin Primitive
                  /\ LastToken(t) = ImplSuffix
                  /\ \A s \in Token : Append(t, s) \notin DOMAIN design
      /\ LastToken(t) \notin PathSuffixes
  BY <1>1, TargetPorts
<1>7. \A s \in Token : Append(k, s) \notin DOMAIN design
  BY <1>1, FreshTarget DEF IdentityInv
<1>8. \A x \in DOMAIN design : x \notin Primitive
  BY DesignNames
<1>9. ASSUME NEW c \in design'[t].cells
      PROVE  c.type = k /\ c.ports = "base"
  <2>1. PICK i \in 1..3 : c = Duplicate(k, i)
    BY <1>2
  <2> QED
    BY <2>1 DEF Duplicate
<1>10. ASSUME NEW c \in design'[k].cells, c.type \in DOMAIN design'
       PROVE  /\ c.ports = design'[c.type].ports
              /\ design'[c.type].proper \/ LastToken(c.type) = WorkerSuffix
  <2>1. c.type \notin Primitive
    BY <1>1, <1>6, <1>8, <1>10
  <2>2. /\ c.type \in DOMAIN design /\ c.type # t
        /\ c.ports = design[c.type].ports
        /\ design[c.type].proper \/ LastToken(c.type) = WorkerSuffix
    BY <1>1, <1>3, <2>1, TodoCells
  <2> QED
    BY <1>4, <1>5, <2>2
<1> HIDE DEF t, k, p
<1>11. InstancesMarked' /\ ClonesAlike' /\ PortsMatch'
  <2> DEFINE S == {t, k}
  <2>1. pc # "mark" /\ DOMAIN design \subseteq DOMAIN design'
    BY <1>1
  <2>2. \A x \in DOMAIN design' \ S :
          /\ x \in DOMAIN design
          /\ design'[x].cells = design[x].cells
          /\ design'[x].ports = design[x].ports
          /\ design[x].proper => design'[x].proper
    BY <1>1, <1>4, <1>5
  <2>3. \A x \in S \cap DOMAIN design :
          /\ design'[x].ports = design[x].ports \/ (x \in UserName /\ ~design[x].proper)
          /\ design[x].proper => design'[x].proper
    BY <1>1, <1>2, <1>3, <1>6
  <2>4. \A x \in DOMAIN design' \ DOMAIN design :
          /\ x \notin Primitive
          /\ LastToken(x) \in PathSuffixes \/ \A s \in Token : Append(x, s) \notin DOMAIN design
          /\ LastToken(x) \notin PathSuffixes
    BY <1>1, <1>6, <1>7, SuffixFacts
  <2>5. \A x \in S :
          /\ x \in UserName \/ LastToken(x) = WorkerSuffix \/ design'[x].proper
          /\ \A c \in design'[x].cells : c.type \in DOMAIN design' =>
                  /\ c.ports = design'[c.type].ports
                  /\ design'[c.type].proper \/ LastToken(c.type) = WorkerSuffix
    <3>1. \A c \in design'[t].cells : c.ports = design'[c.type].ports /\ LastToken(c.type) = WorkerSuffix
      BY <1>1, <1>3, <1>6, <1>9
    <3> QED
      BY <1>1, <1>3, <1>10, <3>1
  <2> HIDE DEF S
  <2> QED
    BY <2>1, <2>2, <2>3, <2>4, <2>5, GrownPorts
<1>12. UserDesign' /\ BasePorts'
  <2>1. \A n \in todo' : n \in DOMAIN design /\ n # t
    BY <1>1, <1>6 DEF HierarchyInv, TodoOK
  <2>2. Template(wrapper)' = k
    BY <1>1 DEF Template, k
  <2> QED
    BY <1>1, <1>3, <1>4, <1>6, <2>1, <2>2 DEF PortsInv, UserDesign, BasePorts
<1>13. FramePorts'
  BY <1>1 DEF FramePorts
<1> QED
  BY <1>11, <1>12, <1>13 DEF PortsInv

-----------------------------------------------------------------------------
(* Inside fullModuleTmrExpansion.                                          *)

(* A clone for a path has the ports of what it is made of.                 *)
LEMMA AddClonePorts ==
    ASSUME HierarchyInv, PortsInv, pc = "full",
           NEW src \in DOMAIN design, src \in Name, NEW un, NEW s \in PathSuffixes,
           un = Append(src, s), un \notin DOMAIN design,
           design[src].proper \/ LastToken(src) = WorkerSuffix,
           LastToken(un) = s, un \notin Primitive,
           DOMAIN design' = DOMAIN design \cup {un},
           design'[un].cells = design[src].cells, design'[un].ports = design[src].ports,
           design'[un].proper,
           \A x \in DOMAIN design : x # un => design'[x] = design[x],
           UNCHANGED <<pc, todo, wrapper>>
    PROVE  UserDesign' /\ BasePorts' /\ InstancesMarked' /\ ClonesAlike' /\ PortsMatch'
<1>1. s \in Token
  BY SuffixFacts
<1>2. ClonedFrom(un) = src
  BY <1>1, ClonedFromAppend
<1>3. \A x \in DOMAIN design : x # un /\ x \notin Primitive
  BY DesignNames
<1>4. ASSUME NEW c \in design'[un].cells, c.type \in DOMAIN design'
      PROVE  /\ c.ports = design'[c.type].ports
             /\ design'[c.type].proper \/ LastToken(c.type) = WorkerSuffix
  <2>1. c \in design[src].cells /\ c.type \in DOMAIN design
    BY <1>3, <1>4, OldType
  <2>2. /\ c.ports = design[c.type].ports
        /\ design[c.type].proper \/ LastToken(c.type) = WorkerSuffix
    BY <2>1 DEF PortsInv, PortsMatch, InstancesMarked
  <2> QED
    BY <1>3, <2>1, <2>2
<1>5. InstancesMarked' /\ ClonesAlike' /\ PortsMatch'
  <2> DEFINE S == {un}
  <2>1. pc # "mark" /\ DOMAIN design \subseteq DOMAIN design'
    OBVIOUS
  <2>2. \A x \in DOMAIN design' \ S :
          /\ x \in DOMAIN design
          /\ design'[x].cells = design[x].cells
          /\ design'[x].ports = design[x].ports
          /\ design[x].proper => design'[x].proper
    OBVIOUS
  <2>3. S \cap DOMAIN design = {}
    OBVIOUS
  <2>4. \A x \in DOMAIN design' \ DOMAIN design :
          /\ x \notin Primitive
          /\ LastToken(x) \in PathSuffixes
          /\ ClonedFrom(x) \in DOMAIN design'
          /\ design'[x].ports = design'[ClonedFrom(x)].ports
          /\ \/ design'[ClonedFrom(x)].proper
             \/ LastToken(ClonedFrom(x)) = WorkerSuffix
    BY <1>2, <1>3
  <2>5. \A x \in S :
          /\ x \in UserName \/ LastToken(x) = WorkerSuffix \/ design'[x].proper
          /\ \A c \in design'[x].cells : c.type \in DOMAIN design' =>
                  /\ c.ports = design'[c.type].ports
                  /\ design'[c.type].proper \/ LastToken(c.type) = WorkerSuffix
    BY <1>4
  <2> HIDE DEF S
  <2> QED
    BY <2>1, <2>2, <2>3, <2>4, <2>5, GrownPorts
<1>6. UserDesign' /\ BasePorts'
  <2>1. Template(wrapper) \in DOMAIN design /\ Template(wrapper)' = Template(wrapper)
    BY FullFacts DEF Template
  <2>2. \A n \in todo : n \in DOMAIN design
    BY DEF HierarchyInv, TodoOK
  <2> QED
    BY <1>3, <2>1, <2>2 DEF PortsInv, UserDesign, BasePorts
<1> QED
  BY <1>5, <1>6

(* A cell that is retyped to a clone of its ports.                         *)
LEMMA RetypePorts ==
    ASSUME HierarchyInv, PortsInv, pc = "full",
           NEW o \in DOMAIN design, NEW c \in Cell, NEW un \in DOMAIN design,
           un \notin UserName, LastToken(un) \in PathSuffixes,
           c.ports = design[un].ports,
           DOMAIN design' = DOMAIN design,
           design'[o].cells = (design[o].cells \ {c}) \cup {[c EXCEPT !.type = un]},
           design'[o].ports = design[o].ports,
           design[o].proper => design'[o].proper,
           \A x \in DOMAIN design : x # o => design'[x] = design[x],
           UNCHANGED <<pc, todo, wrapper>>
    PROVE  UserDesign' /\ BasePorts' /\ InstancesMarked' /\ ClonesAlike' /\ PortsMatch'
<1>1. design[un].proper
  <2>1. LastToken(un) # WorkerSuffix
    BY SuffixFacts
  <2> QED
    BY <2>1 DEF PortsInv, InstancesMarked
<1>2. \A x \in DOMAIN design : design'[x].ports = design[x].ports
  OBVIOUS
<1>3. \A x \in DOMAIN design : design[x].proper => design'[x].proper
  OBVIOUS
<1>4. [c EXCEPT !.type = un].type = un /\ [c EXCEPT !.type = un].ports = c.ports
  BY DEF Cell
<1>5. \A k \in design'[o].cells : k \in design[o].cells \/ k = [c EXCEPT !.type = un]
  OBVIOUS
<1>6. ASSUME NEW k \in design'[o].cells, k.type \in DOMAIN design'
      PROVE  /\ k.ports = design'[k.type].ports
             /\ design'[k.type].proper \/ LastToken(k.type) = WorkerSuffix
  <2>1. CASE k \in design[o].cells
    <3>1. /\ k.ports = design[k.type].ports
          /\ design[k.type].proper \/ LastToken(k.type) = WorkerSuffix
      BY <1>6, <2>1 DEF PortsInv, PortsMatch, InstancesMarked
    <3> QED
      BY <1>2, <1>3, <1>6, <3>1
  <2>2. CASE k = [c EXCEPT !.type = un]
    BY <1>1, <1>2, <1>3, <1>4, <2>2
  <2> QED
    BY <1>5, <2>1, <2>2
<1>7. InstancesMarked' /\ ClonesAlike' /\ PortsMatch'
  <2> DEFINE S == {o}
  <2>1. pc # "mark" /\ DOMAIN design \subseteq DOMAIN design'
    OBVIOUS
  <2>2. \A x \in DOMAIN design' \ S :
          /\ x \in DOMAIN design
          /\ design'[x].cells = design[x].cells
          /\ design'[x].ports = design[x].ports
          /\ design[x].proper => design'[x].proper
    OBVIOUS
  <2>3. \A x \in S \cap DOMAIN design :
          /\ design'[x].ports = design[x].ports \/ (x \in UserName /\ ~design[x].proper)
          /\ design[x].proper => design'[x].proper
    BY <1>2, <1>3
  <2>4. DOMAIN design' \ DOMAIN design = {}
    OBVIOUS
  <2>5. \A x \in S :
          /\ x \in UserName \/ LastToken(x) = WorkerSuffix \/ design'[x].proper
          /\ \A k \in design'[x].cells : k.type \in DOMAIN design' =>
                  /\ k.ports = design'[k.type].ports
                  /\ design'[k.type].proper \/ LastToken(k.type) = WorkerSuffix
    BY <1>3, <1>6 DEF PortsInv, InstancesMarked
  <2> HIDE DEF S
  <2> QED
    BY <2>1, <2>2, <2>3, <2>4, <2>5, GrownPorts
<1>8. UserDesign' /\ BasePorts'
  <2>1. Template(wrapper) \in DOMAIN design /\ Template(wrapper)' = Template(wrapper)
    BY FullFacts DEF Template
  <2>2. \A n \in todo : n \in DOMAIN design
    BY DEF HierarchyInv, TodoOK
  <2> QED
    BY <1>2, <2>1, <2>2 DEF PortsInv, UserDesign, BasePorts
<1> QED
  BY <1>7, <1>8

(* An activation that goes on, or the one below it when it returns.        *)
LEMMA FramePortsKept ==
    ASSUME HierarchyInv, PortsInv, NEW i \in 1..Len(stack), NEW j,
           stack'[j].mod = stack[i].mod, stack'[j].cell = stack[i].cell,
           stack'[j].cells \subseteq stack[i].cells,
           \A x \in DOMAIN design : x \in DOMAIN design' /\ design'[x].ports = design[x].ports,
           \A x \in DOMAIN design' : x \notin Primitive
    PROVE  /\ \A c \in stack'[j].cells :
                c.type \in DOMAIN design' => c.ports = design'[c.type].ports
           /\ stack'[j].cell.ports = design'[stack'[j].mod].ports
<1>1. FrameOK(i)
  BY DEF HierarchyInv, StackOK
<1>2. /\ stack[i].mod \in DOMAIN design
      /\ \A c \in stack[i].cells : c.type \in DOMAIN design \cup Primitive
  BY <1>1 DEF FrameOK
<1>3. /\ \A c \in stack[i].cells : c.type \in DOMAIN design => c.ports = design[c.type].ports
      /\ stack[i].cell.ports = design[stack[i].mod].ports
  BY DEF PortsInv, FramePorts
<1> QED
  BY <1>2, <1>3

(* The worker of a path, and the activation that starts with it.           *)
LEMMA CloneWorkerPorts ==
    ASSUME HierarchyInv, IdentityInv, PortsInv, CloneWorker
    PROVE  PortsInv'
<1> DEFINE t == Template(wrapper)
           un == WorkerName(path)
           s == PathSuffix[path]
<1>1. /\ pc = "full" /\ path \in 1..3 /\ stack = <<>>
      /\ UNCHANGED <<input, pc, ffSources, edges, todo, wrapper, path, toRemove>>
      /\ t \in DOMAIN design /\ t \in Name /\ LastToken(t) = WorkerSuffix
      /\ un = Append(t, s) /\ LastToken(un) = s /\ s \in PathSuffixes
      /\ un \notin Primitive
      /\ DOMAIN design' = DOMAIN design \cup {un}
      /\ design'[un].cells = design[t].cells
      /\ design'[un].ports = design[t].ports
      /\ \A x \in DOMAIN design : x # un => design'[x] = design[x]
      /\ stack' = <<[mod |-> un, cells |-> design[t].cells, owner |-> wrapper,
                     cell |-> Duplicate(t, path)]>>
  BY CloneWorkerStep
<1>2. design'[un].proper
  BY CloneWorkerStep
<1>3. un \notin DOMAIN design
  BY <1>1, NamesNewFromInv DEF NamesNew
<1>4. design[t].ports = "base"
  BY <1>1 DEF PortsInv, BasePorts
<1>5. Duplicate(t, path).ports = "base"
  BY DEF Duplicate
<1>6. \A c \in design[t].cells : c.type \in DOMAIN design' =>
         c.type \in DOMAIN design /\ c.ports = design[c.type].ports
  <2>1. \A x \in DOMAIN design' : x \notin Primitive
    BY <1>1, DesignNames
  <2> QED
    BY <1>1, <2>1, OldType DEF PortsInv, PortsMatch
<1> HIDE DEF t, un, s
<1>7. UserDesign' /\ BasePorts' /\ InstancesMarked' /\ ClonesAlike' /\ PortsMatch'
  BY <1>1, <1>2, <1>3, AddClonePorts
<1>8. FramePorts'
  <2>1. /\ Len(stack') = 1
        /\ stack'[1].mod = un /\ stack'[1].cells = design[t].cells
        /\ stack'[1].cell = Duplicate(t, path)
    BY <1>1
  <2>2. \A c \in design[t].cells : c.type \in DOMAIN design' => c.ports = design'[c.type].ports
    BY <1>1, <1>3, <1>6
  <2>3. \A i \in 1..Len(stack') : i = 1
    BY <2>1
  <2>4. stack'[1].cell.ports = design'[stack'[1].mod].ports
    BY <1>1, <1>4, <1>5, <2>1
  <2>5. \A c \in stack'[1].cells : c.type \in DOMAIN design' => c.ports = design'[c.type].ports
    BY <2>1, <2>2
  <2> QED
    BY <2>3, <2>4, <2>5 DEF FramePorts
<1> QED
  BY <1>7, <1>8 DEF PortsInv

(* A cell that keeps its type.                                             *)
LEMMA LeaveCellPorts ==
    ASSUME HierarchyInv, PortsInv, VisitCell, NEW c \in stack[1].cells, LeaveCell(c)
    PROVE  PortsInv'
<1>1. /\ stack # <<>> /\ stack' = Visited(c)
      /\ UNCHANGED <<pc, design, todo, wrapper>> /\ pc = "full"
  BY DEF VisitCell, LeaveCell
<1>2. UserDesign' /\ BasePorts' /\ InstancesMarked' /\ ClonesAlike' /\ PortsMatch'
  <2>1. UserDesign' /\ BasePorts'
    BY <1>1 DEF PortsInv, UserDesign, BasePorts, Template
  <2>2. InstancesMarked' /\ ClonesAlike' /\ PortsMatch'
    BY <1>1 DEF PortsInv, InstancesMarked, ClonesAlike, PortsMatch
  <2> QED
    BY <2>1, <2>2
<1>3. /\ Len(stack') = Len(stack)
      /\ \A i \in 1..Len(stack) :
           /\ stack'[i].mod = stack[i].mod /\ stack'[i].cell = stack[i].cell
           /\ stack'[i].cells \subseteq stack[i].cells
  BY <1>1, VisitedFacts
<1>4. FramePorts'
  BY <1>1, <1>3 DEF PortsInv, FramePorts
<1> QED
  BY <1>2, <1>4 DEF PortsInv

(* A cell that gets the clone another cell already has.                    *)
LEMMA ReuseClonePorts ==
    ASSUME HierarchyInv, PortsInv, VisitCell, NEW c \in stack[1].cells, ReuseClone(c)
    PROVE  PortsInv'
<1> DEFINE un == UniqueName(c)
           o  == stack[1].mod
           s  == PathSuffix[path]
<1>1. /\ pc = "full" /\ stack # <<>>
      /\ UNCHANGED <<input, pc, ffSources, edges, todo, wrapper, path, toRemove>>
      /\ c \in Cell /\ c.type \in DOMAIN design /\ c.type \in Name
      /\ s \in PathSuffixes /\ s \in Token
      /\ un = Append(c.type, s) /\ un \in DOMAIN design /\ LastToken(un) = s
      /\ un # <<>> /\ un \notin UserName
      /\ o \in DOMAIN design
      /\ DOMAIN design' = DOMAIN design
      /\ \A x \in DOMAIN design : x # o => design'[x] = design[x]
      /\ design'[o].cells = (design[o].cells \ {c}) \cup {[c EXCEPT !.type = un]}
      /\ design'[o].ports = design[o].ports
  BY ReuseCloneStep
<1>2. /\ Len(stack') = Len(stack)
      /\ \A i \in 1..Len(stack) :
           /\ stack'[i].mod = stack[i].mod /\ stack'[i].cell = stack[i].cell
           /\ stack'[i].cells \subseteq stack[i].cells
  BY ReuseCloneStep
<1>3. design[o].proper => design'[o].proper
  BY ReuseCloneStep
<1>4. ClonedFrom(un) = c.type
  BY <1>1, ClonedFromAppend
<1>5. design[un].ports = design[c.type].ports
  BY <1>1, <1>4 DEF PortsInv, ClonesAlike
<1>6. c.ports = design[c.type].ports
  BY <1>1, TopFacts DEF PortsInv, FramePorts
<1> HIDE DEF un, o, s
<1>7. c.ports = design[un].ports
  BY <1>5, <1>6
<1>8. UserDesign' /\ BasePorts' /\ InstancesMarked' /\ ClonesAlike' /\ PortsMatch'
  <2>1. /\ o \in DOMAIN design /\ un \in DOMAIN design /\ un \notin UserName
        /\ LastToken(un) \in PathSuffixes /\ c \in Cell
        /\ pc = "full" /\ UNCHANGED <<pc, todo, wrapper>>
    BY <1>1
  <2>2. /\ DOMAIN design' = DOMAIN design
        /\ \A x \in DOMAIN design : x # o => design'[x] = design[x]
        /\ design'[o].cells = (design[o].cells \ {c}) \cup {[c EXCEPT !.type = un]}
        /\ design'[o].ports = design[o].ports
    BY <1>1
  <2> QED
    BY <1>3, <1>7, <2>1, <2>2, RetypePorts
<1>9. FramePorts'
  <2>1. \A x \in DOMAIN design : x \in DOMAIN design' /\ design'[x].ports = design[x].ports
    BY <1>1
  <2>2. \A x \in DOMAIN design' : x \notin Primitive
    BY <1>1, DesignNames
  <2> QED
    BY <1>2, <2>1, <2>2, FramePortsKept DEF FramePorts
<1> QED
  BY <1>8, <1>9 DEF PortsInv

(* A cell whose module is cloned, and the activation that works on it.     *)
LEMMA CloneSubmodulePorts ==
    ASSUME HierarchyInv, PortsInv, VisitCell, NEW c \in stack[1].cells, CloneSubmodule(c)
    PROVE  PortsInv'
<1> DEFINE un == UniqueName(c)
           s  == PathSuffix[path]
<1>1. /\ pc = "full" /\ stack # <<>>
      /\ UNCHANGED <<input, pc, ffSources, edges, todo, wrapper, path, toRemove>>
      /\ c.type \in DOMAIN design /\ c.type \in Name
      /\ s \in PathSuffixes
      /\ un = Append(c.type, s) /\ LastToken(un) = s
      /\ un \notin DOMAIN design /\ un \notin Primitive
      /\ DOMAIN design' = DOMAIN design \cup {un}
      /\ design'[un].cells = design[c.type].cells
      /\ design'[un].ports = design[c.type].ports
      /\ \A x \in DOMAIN design : x # un => design'[x] = design[x]
  BY CloneSubmoduleStep
<1>2. design'[un].proper /\ design[c.type].proper
  BY CloneSubmoduleStep
<1>3. /\ Len(stack') = Len(stack) + 1 /\ Len(stack) \in Nat
      /\ stack'[1] = [mod |-> un, cells |-> design[c.type].cells,
                      owner |-> stack[1].mod, cell |-> c]
      /\ \A i \in 1..Len(stack) :
           /\ stack'[i + 1].mod = stack[i].mod
           /\ stack'[i + 1].cell = stack[i].cell
           /\ stack'[i + 1].cells \subseteq stack[i].cells
  BY CloneSubmoduleStep
<1>4. c.ports = design[c.type].ports
  BY <1>1, TopFacts DEF PortsInv, FramePorts
<1> HIDE DEF un, s
<1>5. UserDesign' /\ BasePorts' /\ InstancesMarked' /\ ClonesAlike' /\ PortsMatch'
  BY <1>1, <1>2, AddClonePorts
<1>6. /\ \A x \in DOMAIN design : x \in DOMAIN design' /\ design'[x].ports = design[x].ports
      /\ \A x \in DOMAIN design' : x \notin Primitive
  BY <1>1, DesignNames
<1>7. FramePorts'
  <2>1. /\ \A k \in stack'[1].cells :
             k.type \in DOMAIN design' => k.ports = design'[k.type].ports
        /\ stack'[1].cell.ports = design'[stack'[1].mod].ports
    <3>1. \A k \in design[c.type].cells :
             k.type \in DOMAIN design' => k.ports = design'[k.type].ports
      BY <1>1, <1>6, OldType DEF PortsInv, PortsMatch
    <3> QED
      BY <1>1, <1>3, <1>4, <3>1
  <2>2. ASSUME NEW i \in 1..Len(stack)
        PROVE  /\ \A k \in stack'[i + 1].cells :
                    k.type \in DOMAIN design' => k.ports = design'[k.type].ports
               /\ stack'[i + 1].cell.ports = design'[stack'[i + 1].mod].ports
    BY <1>3, <1>6, FramePortsKept
  <2>3. \A j \in 1..Len(stack') : j = 1 \/ \E i \in 1..Len(stack) : j = i + 1
    <3> TAKE j \in 1..Len(stack')
    <3>1. j = 1 \/ (j - 1 \in 1..Len(stack) /\ j = (j - 1) + 1)
      BY <1>3
    <3> QED
      BY <3>1
  <2> QED
    BY <2>1, <2>2, <2>3 DEF FramePorts
<1> QED
  BY <1>5, <1>7 DEF PortsInv

(* The cell an activation was for gets the module it has finished.         *)
LEMMA ReturnPorts ==
    ASSUME HierarchyInv, PortsInv, Return
    PROVE  PortsInv'
<1> DEFINE f == stack[1]
           o == f.owner
<1>1. /\ pc = "full" /\ stack # <<>>
      /\ UNCHANGED <<input, pc, ffSources, edges, todo, wrapper, toRemove>>
      /\ f.cell \in Cell /\ f.mod \in DOMAIN design
      /\ LastToken(f.mod) \in PathSuffixes /\ f.mod \notin UserName
      /\ o \in DOMAIN design
      /\ DOMAIN design' = DOMAIN design
      /\ \A x \in DOMAIN design : x # o => design'[x] = design[x]
      /\ design'[o].cells = (design[o].cells \ {f.cell}) \cup {[f.cell EXCEPT !.type = f.mod]}
      /\ design'[o].ports = design[o].ports
  BY ReturnStep
<1>2. /\ Len(stack) \in Nat /\ Len(stack) >= 1 /\ Len(stack') = Len(stack) - 1
      /\ \A i \in 1..Len(stack') : stack'[i] = stack[i + 1]
  BY ReturnStep
<1>3. design'[o].proper = design[o].proper
  BY ReturnStep
<1>4. f.cell.ports = design[f.mod].ports
  BY <1>1, TopFacts DEF PortsInv, FramePorts
<1> HIDE DEF f, o
<1>5. UserDesign' /\ BasePorts' /\ InstancesMarked' /\ ClonesAlike' /\ PortsMatch'
  BY <1>1, <1>3, <1>4, RetypePorts
<1>6. FramePorts'
  <2>1. /\ \A x \in DOMAIN design : x \in DOMAIN design' /\ design'[x].ports = design[x].ports
        /\ \A x \in DOMAIN design' : x \notin Primitive
    BY <1>1, DesignNames
  <2>2. \A j \in 1..Len(stack') : j + 1 \in 1..Len(stack) /\ stack'[j] = stack[j + 1]
    BY <1>2
  <2>3. ASSUME NEW j \in 1..Len(stack')
        PROVE  /\ \A c \in stack'[j].cells :
                    c.type \in DOMAIN design' => c.ports = design'[c.type].ports
               /\ stack'[j].cell.ports = design'[stack'[j].mod].ports
    BY <2>1, <2>2, FramePortsKept
  <2> QED
    BY <2>3 DEF FramePorts
<1> QED
  BY <1>5, <1>6 DEF PortsInv

(* The template goes: a module whose clones are the workers.               *)
LEMMA FinishFullPorts ==
    ASSUME HierarchyInv, HierarchyInv', PortsInv, FinishFull
    PROVE  PortsInv'
<1>1. /\ pc = "full" /\ pc' = "process" /\ stack = <<>>
      /\ UNCHANGED <<input, ffSources, edges, todo, stack, toRemove>>
      /\ LastToken(Template(wrapper)) = WorkerSuffix
      /\ DOMAIN design' = DOMAIN design \ {Template(wrapper)}
      /\ \A x \in DOMAIN design' : x \in DOMAIN design /\ design'[x] = design[x]
  BY FinishFullStep
<1>2. todo' \subseteq DOMAIN design' /\ LastToken(Template(wrapper)) \notin PathSuffixes
  BY <1>1, SuffixFacts DEF HierarchyInv, TodoOK
<1>3. UserDesign' /\ BasePorts'
  BY <1>1, <1>2 DEF PortsInv, UserDesign, BasePorts
<1>4. InstancesMarked' /\ ClonesAlike'
  BY <1>1, <1>2 DEF PortsInv, InstancesMarked, ClonesAlike
<1>5. FramePorts' /\ PortsMatch'
  BY <1>1 DEF PortsInv, FramePorts, PortsMatch
<1> QED
  BY <1>3, <1>4, <1>5 DEF PortsInv

(* An original goes.                                                       *)
LEMMA CleanupOnePorts ==
    ASSUME HierarchyInv, IdentityInv, PortsInv, NEW n \in toRemove, CleanupOne(n)
    PROVE  PortsInv'
<1>1. /\ pc = "cleanup" /\ todo = {} /\ stack = <<>>
      /\ UNCHANGED <<input, pc, ffSources, edges, todo, wrapper, path, stack>>
      /\ DOMAIN design \ {n} \subseteq DOMAIN design'
      /\ \A x \in DOMAIN design' : x \in DOMAIN design /\ design'[x] = design[x]
  BY CleanupOneStep
<1>2. LastToken(n) \notin PathSuffixes
  <2>1. n \in UserName
    BY DEF IdentityInv, BlackboxOK
  <2> QED
    BY <2>1, UserNameFacts, SuffixFacts
<1>3. UserDesign' /\ BasePorts'
  BY <1>1 DEF PortsInv, UserDesign, BasePorts
<1>4. InstancesMarked' /\ ClonesAlike'
  BY <1>1, <1>2 DEF PortsInv, InstancesMarked, ClonesAlike
<1>5. FramePorts' /\ PortsMatch'
  BY <1>1 DEF PortsInv, FramePorts, PortsMatch
<1> QED
  BY <1>3, <1>4, <1>5 DEF PortsInv

(* Every step.                                                             *)
LEMMA NextPorts ==
    ASSUME HierarchyInv, HierarchyInv', IdentityInv, InstancesSelected, PortsInv, [Next]_vars
    PROVE  PortsInv'
<1>1. CASE Mark \/ Synthesize
  BY <1>1, MarkPorts, SynthesizePorts
<1>2. CASE Plan \/ (\E m \in todo : SkipModule(m)) \/ StartCleanup \/ Finish \/ UNCHANGED vars
  BY <1>2, IdlePorts
<1>3. ASSUME NEW m \in todo, ExpandLogic(m) \/ StartFull(m)
      PROVE  PortsInv'
  BY <1>3, ExpandLogicPorts, StartFullPorts
<1>4. CASE CloneWorker
  BY <1>4, CloneWorkerPorts
<1>5. CASE VisitCell
  <2>1. PICK c \in stack[1].cells : LeaveCell(c) \/ ReuseClone(c) \/ CloneSubmodule(c)
    BY <1>5 DEF VisitCell
  <2> QED
    BY <1>5, <2>1, LeaveCellPorts, ReuseClonePorts, CloneSubmodulePorts
<1>6. CASE Return \/ FinishFull
  BY <1>6, ReturnPorts, FinishFullPorts
<1>7. ASSUME NEW n \in toRemove, CleanupOne(n)
      PROVE  PortsInv'
  BY <1>7, CleanupOnePorts
<1> QED
  BY <1>1, <1>2, <1>3, <1>4, <1>5, <1>6, <1>7 DEF Next, Terminated

(* The chosen input, and so what it satisfies, stays.                      *)
LEMMA InputKept ==
    ASSUME [Next]_vars
    PROVE  input' = input
BY DEF Next, vars, Mark, Synthesize, Plan, SkipModule, ExpandLogic, StartFull, CloneWorker,
       VisitCell, Return, FinishFull, StartCleanup, CleanupOne, Finish, Terminated

(* Every cell is connected by the ports its module has at that moment, in  *)
(* every state of the passes, if no module has instances in modules that   *)
(* are not selected for tmrx_mark only.                                    *)
THEOREM PortsMatchHolds == Spec => [](InstancesSelected => PortsMatch)
<1>1. Init => (InstancesSelected => PortsInv)
  BY InitPorts
<1>2. HierarchyInv /\ HierarchyInv' /\ IdentityInv /\ (InstancesSelected => PortsInv) /\ [Next]_vars
        => (InstancesSelected => PortsInv)'
  <2> SUFFICES ASSUME HierarchyInv, HierarchyInv', IdentityInv, InstancesSelected => PortsInv,
                      [Next]_vars, InstancesSelected'
               PROVE  PortsInv'
    OBVIOUS
  <2>1. InstancesSelected
    BY InputKept DEF InstancesSelected
  <2> QED
    BY <2>1, NextPorts
<1>3. (InstancesSelected => PortsInv) => (InstancesSelected => PortsMatch)
  BY DEF PortsInv
<1> QED
  BY <1>1, <1>2, <1>3, IdentityInvariant, PTL DEF Spec

-----------------------------------------------------------------------------
(* Registers.                                                              *)

(* A register is a flip-flop of the user's instance list, whose type is a  *)
(* primitive; the instances of workers are none.                           *)
LEMMA RegisterFacts ==
    ASSUME HierarchyInv
    PROVE  /\ RegisterType \in Primitive
           /\ \A n \in DOMAIN design : RegisterType # n
           /\ \A n \in Name : \A c : (n # <<>> /\ n[1] \in User /\ c.inst = "worker") => ~IsRegister(n, c)
<1>1. RegisterType \in Primitive
  BY PrimitiveFacts DEF RegisterType
<1>2. \A n \in DOMAIN design : RegisterType # n
  BY <1>1, DesignNames
<1>3. \A u \in User : \A e \in input.cells[u] : e[1] \in Instance
  <2>1. input.cells \in [User -> SUBSET (Instance \X (UserName \cup {BuiltinFf}))]
    BY DEF HierarchyInv, TypeOK, InputType
  <2> QED
    BY <2>1
<1>4. ASSUME NEW n \in Name, NEW c, n # <<>>, n[1] \in User, c.inst = "worker"
      PROVE  ~IsRegister(n, c)
  <2>1. <<c.inst, BuiltinFf>>[1] = "worker"
    BY <1>4
  <2> QED
    BY <1>3, <1>4, <2>1, UserAssumption DEF IsRegister
<1> QED
  BY <1>1, <1>2, <1>4

(* A cell that is retyped is no register if it was none.                   *)
LEMMA NoRegister ==
    ASSUME NEW n, NEW c, ~IsRegister(n, c), UNCHANGED input, NEW k, k.inst = c.inst
    PROVE  RegisterOK(n, k)'
BY DEF RegisterOK, IsRegister

(* The registers of a module that keeps its cells are as they were, and so *)
(* are those of a copy of it.                                              *)
LEMMA CopiedRegisters ==
    ASSUME RegistersInv, UNCHANGED input, RegisterType' = RegisterType,
           NEW n \in DOMAIN design, NEW k, k[1] = n[1], design'[k].cells = design[n].cells
    PROVE  \A c \in design'[k].cells : RegisterOK(k, c)'
BY DEF RegistersInv, RegisterOK, IsRegister, Base

(* A register of a module that only exchanges its instances stays as it    *)
(* was.                                                                    *)
LEMMA KeptRegisters ==
    ASSUME RegistersInv, UNCHANGED input, RegisterType' = RegisterType,
           NEW n \in DOMAIN design, design'[n].cells = design[n].cells
    PROVE  \A c \in design'[n].cells : RegisterOK(n, c)'
BY CopiedRegisters

(* From the plan on registers keep their type.                             *)
LEMMA TypeKept ==
    ASSUME pc \notin {"mark", "synth"}, pc' \notin {"mark", "synth"}, UNCHANGED input
    PROVE  RegisterType' = RegisterType
BY DEF RegisterType

(* The table tmrx_mark recorded does not change once tmrx runs. *)
LEMMA SourcesKept ==
    ASSUME SourcesOK, pc # "mark", UNCHANGED <<input, ffSources>>
    PROVE  SourcesOK'
BY DEF SourcesOK

(* The user's flip-flops are of the built-in type.                         *)
LEMMA UserRegisters ==
    ASSUME InputType(input), NEW n \in UserName, NEW e \in input.cells[n[1]]
    PROVE  /\ IsRegister(n, UserCell(e)) => e[2] = BuiltinFf
           /\ UserCell(e).inst = e[1] /\ UserCell(e).type = e[2] /\ UserCell(e).path = ""
<1>1. n[1] \in User
  BY UserNameFacts
<1>2. UserCell(e).inst = e[1] /\ UserCell(e).type = e[2] /\ UserCell(e).path = ""
  BY UserCellFacts
<1>3. \A f \in input.cells[n[1]] : f[1] = e[1] => f = e
  BY <1>1 DEF InputType
<1>4. ASSUME <<e[1], BuiltinFf>> \in input.cells[n[1]]
      PROVE  e[2] = BuiltinFf
  <2>1. <<e[1], BuiltinFf>>[1] = e[1] /\ <<e[1], BuiltinFf>>[2] = BuiltinFf
    OBVIOUS
  <2>2. <<e[1], BuiltinFf>> = e
    BY <1>3, <1>4, <2>1
  <2> QED
    BY <2>1, <2>2
<1> QED
  BY <1>2, <1>4 DEF IsRegister

(* The registers of the user's design are not expanded. *)
LEMMA InitRegisters == Init => RegistersInv
<1> SUFFICES ASSUME Init PROVE RegistersInv
  OBVIOUS
<1>1. /\ pc = "mark" /\ stack = <<>> /\ DOMAIN design = UserName
      /\ \A n \in UserName : design[n] = UserModule(n[1])
      /\ design = [n \in UserName |-> UserModule(n[1])]
      /\ InputType(input)
  BY InputsAssumption DEF Init
<1>2. ASSUME NEW n \in UserName, NEW c \in design[n].cells
      PROVE  RegisterOK(n, c)
  <2>1. design[n].cells = {UserCell(e) : e \in input.cells[n[1]]}
    BY <1>1, UserModuleFacts
  <2>2. PICK e \in input.cells[n[1]] : c = UserCell(e)
    BY <1>2, <2>1
  <2>3. IsRegister(n, c) => c.type = BuiltinFf
    BY <1>1, <2>2, UserRegisters
  <2>4. c.path = ""
    BY <2>2, UserCellFacts
  <2>5. RegisterType = BuiltinFf
    BY <1>1 DEF RegisterType
  <2> QED
    BY <2>3, <2>4, <2>5 DEF RegisterOK
<1>3. SourcesOK /\ UserDesign /\ FrameRegisters
  BY <1>1 DEF SourcesOK, UserDesign, FrameRegisters
<1> QED
  BY <1>1, <1>2, <1>3 DEF RegistersInv

(* tmrx_mark records the registers of what it is run on.                   *)
LEMMA MarkRegisters ==
    ASSUME HierarchyInv, RegistersInv, Mark
    PROVE  RegistersInv'
<1>1. /\ pc = "mark" /\ pc' = "synth" /\ DOMAIN design = UserName
      /\ stack = <<>>
      /\ UNCHANGED <<input, stack>>
      /\ DOMAIN design' = DOMAIN design
      /\ \A n \in DOMAIN design : design'[n].cells = design[n].cells
  BY MarkStep
<1>2. /\ InputType(input) /\ \A n \in UserName : design[n] = UserModule(n[1])
  BY <1>1 DEF RegistersInv, UserDesign, HierarchyInv, TypeOK
<1>3. ffSources' = [p \in {q \in input.markSel : ~design[q].bb} |-> Sources(design, p)]
  BY DEF Mark
<1>4. SourcesOK'
  <2> SUFFICES ASSUME NEW n \in input.markSel \ input.bb
               PROVE  /\ n \in DOMAIN ffSources'
                      /\ \A e \in input.cells[n[1]] : e[2] = BuiltinFf => e[1] \in ffSources'[n]
    BY <1>1 DEF SourcesOK
  <2>1. n \in UserName
    BY <1>2 DEF InputType
  <2>2. ~design[n].bb /\ design[n].cells = {UserCell(e) : e \in input.cells[n[1]]}
    BY <1>2, <2>1, UserModuleFacts
  <2>3. n \in DOMAIN ffSources' /\ ffSources'[n] = Sources(design, n)
    BY <1>3, <2>2
  <2>4. ASSUME NEW e \in input.cells[n[1]], e[2] = BuiltinFf
        PROVE  e[1] \in ffSources'[n]
    <3>1. UserCell(e) \in design[n].cells /\ UserCell(e).type = BuiltinFf /\ UserCell(e).inst = e[1]
      BY <2>2, <2>4, UserCellFacts
    <3> QED
      BY <2>3, <3>1 DEF Sources
  <2> QED
    BY <2>3, <2>4
<1>5. RegisterType' = RegisterType
  BY <1>1 DEF RegisterType
<1>6. \A n \in DOMAIN design' : \A c \in design'[n].cells : RegisterOK(n, c)'
  BY <1>1, <1>5, KeptRegisters
<1>7. UserDesign' /\ FrameRegisters'
  BY <1>1 DEF UserDesign, FrameRegisters
<1> QED
  BY <1>4, <1>6, <1>7 DEF RegistersInv

(* The flow maps them to library cells, or does not.                       *)
LEMMA SynthesizeRegisters ==
    ASSUME HierarchyInv, RegistersInv, Synthesize
    PROVE  RegistersInv'
<1>1. /\ pc = "synth" /\ pc' = "plan" /\ stack = <<>>
      /\ UNCHANGED <<input, ffSources, stack>>
      /\ DOMAIN design' = DOMAIN design
  BY SynthesizeStep
<1>2. \A n \in DOMAIN design :
         design'[n].cells = IF input.mapped THEN {MapCell(c) : c \in design[n].cells}
                            ELSE design[n].cells
  BY SynthesizeStep
<1>3. RegisterType = BuiltinFf /\ RegisterType' = IF input.mapped THEN LibraryFf ELSE BuiltinFf
  BY <1>1 DEF RegisterType
<1>4. ASSUME NEW n \in DOMAIN design, NEW c \in design'[n].cells
      PROVE  RegisterOK(n, c)'
  <2>1. CASE input.mapped
    <3>1. PICK k \in design[n].cells : c = MapCell(k)
      BY <1>2, <1>4, <2>1
    <3>2. k \in Cell
      BY DesignNames DEF Module
    <3>3. /\ c.inst = k.inst /\ c.path = k.path
          /\ c.type = IF k.type = BuiltinFf THEN LibraryFf ELSE k.type
      BY <3>1, <3>2, MapCellFacts
    <3>4. c.voted = k.voted
      BY <3>1, <3>2, MapCellFacts
    <3>5. RegisterOK(n, k)
      BY DEF RegistersInv
    <3> QED
      BY <1>1, <1>3, <2>1, <3>3, <3>4, <3>5 DEF RegisterOK, IsRegister, Base
  <2>2. CASE ~input.mapped
    BY <1>1, <1>2, <1>3, <1>4, <2>2, KeptRegisters
  <2> QED
    BY <2>1, <2>2
<1>5. SourcesOK' /\ UserDesign' /\ FrameRegisters'
  BY <1>1 DEF RegistersInv, SourcesOK, UserDesign, FrameRegisters
<1> QED
  BY <1>1, <1>4, <1>5 DEF RegistersInv

(* The steps that leave the design and the recursion alone.                *)
LEMMA IdleRegisters ==
    ASSUME HierarchyInv, RegistersInv,
           Plan \/ (\E m \in todo : SkipModule(m)) \/ StartCleanup \/ Finish \/ UNCHANGED vars
    PROVE  RegistersInv'
<1>1. /\ UNCHANGED <<input, design, stack, ffSources>>
      /\ pc' = pc \/ (pc \notin {"mark", "synth"} /\ pc' \in {"process", "cleanup", "done"})
  BY DEF Plan, SkipModule, StartCleanup, Finish, vars
<1>2. RegisterType' = RegisterType
  BY <1>1 DEF RegisterType
<1>3. \A n \in DOMAIN design' : \A c \in design'[n].cells : RegisterOK(n, c)'
  BY <1>1, <1>2, KeptRegisters
<1>4. SourcesOK'
  BY <1>1 DEF RegistersInv, SourcesOK
<1>5. UserDesign'
  BY <1>1 DEF RegistersInv, UserDesign, UserModule, UserCell
<1>6. FrameRegisters'
  BY <1>1, <1>2 DEF RegistersInv, FrameRegisters, IsRegister
<1> QED
  BY <1>3, <1>4, <1>5, <1>6 DEF RegistersInv

(* LogicTMR sees a register in a cell that is one, and puts voters after   *)
(* its copies if the configuration says so.                                *)
LEMMA RegisterSeen ==
    ASSUME HierarchyInv, RegistersRecognised, RegistersInv, pc = "process", NEW m \in todo,
           NEW c \in design[m].cells, IsRegister(m, c), ConfigOf(m).mode = "Logic",
           ConfigOf(m).ffVoter
    PROVE  IsFlipFlop(c, Target(m), ConfigOf(m))
<1> DEFINE cfg == ConfigOf(m)
<1>1. m \in DOMAIN design /\ m \in UserName /\ InputType(input)
  BY TargetFacts DEF HierarchyInv, TypeOK
<1>2. cfg = input.cfg[m]
  BY <1>1 DEF ConfigOf
<1>3. c.type = RegisterType /\ RegisterType = IF input.mapped THEN LibraryFf ELSE BuiltinFf
  BY <1>1 DEF RegistersInv, RegisterOK, RegisterType
<1>4. /\ c.type \notin cfg.excludedFf
      /\ input.mapped => c.type \in cfg.ffCells \/ (m \in input.markSel /\ cfg.preserve)
  BY <1>1, <1>2, <1>3 DEF RegistersRecognised
<1>5. ASSUME m \in input.markSel, cfg.preserve
      PROVE  Target(m) \in DOMAIN ffSources /\ c.inst \in ffSources[Target(m)]
  <2>1. Target(m) = m
    BY <1>5 DEF Target
  <2>2. m \notin input.bb
    BY <1>1, <1>2 DEF InputType, Validated
  <2>3. /\ m \in DOMAIN ffSources
        /\ \A e \in input.cells[m[1]] : e[2] = BuiltinFf => e[1] \in ffSources[m]
    BY <1>5, <2>2 DEF RegistersInv, SourcesOK
  <2>4. <<c.inst, BuiltinFf>> \in input.cells[m[1]]
    BY DEF IsRegister
  <2> QED
    BY <2>1, <2>3, <2>4
<1> QED
  BY <1>3, <1>4, <1>5 DEF IsFlipFlop

(* insertVoterAfterFF sees each register, so both copies of it are voted. *)
LEMMA ExpandLogicRegisters ==
    ASSUME HierarchyInv, RegistersRecognised, RegistersInv, NEW m \in todo, ExpandLogic(m)
    PROVE  RegistersInv'
<1> DEFINE t == Target(m)
           w == WithTarget(m)
           cfg == ConfigOf(m)
<1>1. /\ pc = "process" /\ stack = <<>>
      /\ UNCHANGED <<input, pc, ffSources, stack>>
      /\ cfg = input.cfg[m] /\ cfg.mode = "Logic"
      /\ DOMAIN design' = DOMAIN design \cup {t}
  BY ExpandLogicStep
<1>2. design'[t].cells = ExpandedCells(w, t, cfg)
  BY ExpandLogicStep
<1>3. \A x \in DOMAIN design : x # t => design'[x].cells = design[x].cells
  BY ExpandLogicOthers
<1>4. /\ m \in UserName /\ m \in DOMAIN design /\ t[1] = m[1]
      /\ w[t].cells = design[m].cells /\ DOMAIN w = DOMAIN design \cup {t}
      /\ t \notin Primitive
  BY <1>1, TargetFacts
<1>5. RegisterType' = RegisterType
  BY <1>1, TypeKept
<1>6. Base(m) = m /\ Base(t) = m
  BY <1>4, BaseOfUser DEF Base
<1>7. ASSUME NEW n, n = t, NEW k \in design'[n].cells
      PROVE  RegisterOK(n, k)'
  <2>1. PICK c \in w[t].cells :
           k \in (IF IsLogicTree(w, c) THEN Triplicate(c, t, cfg) ELSE {Resolve(w, c)})
    BY <1>2, <1>7 DEF ExpandedCells
  <2>2. c \in design[m].cells /\ c \in Cell
    <3>1. design[m].cells \subseteq Cell
      BY <1>4, DesignNames DEF Module
    <3> QED
      BY <1>4, <2>1, <3>1
  <2>3. RegisterOK(m, c)
    BY <1>4, <2>2 DEF RegistersInv
  <2>4. CASE IsLogicTree(w, c)
    <3>1. k.inst = c.inst /\ k.type = c.type /\ k.voted = (cfg.ffVoter /\ IsFlipFlop(c, t, cfg))
      <4>1. PICK i \in 1..3 :
               k = [c EXCEPT !.path = PathSuffix[i],
                             !.voted = cfg.ffVoter /\ IsFlipFlop(c, t, cfg)]
        BY <2>1, <2>4 DEF Triplicate
      <4> QED
        BY <2>2, <4>1 DEF Cell
    <3>2. IsRegister(m, c) /\ cfg.ffVoter => IsFlipFlop(c, t, cfg)
      BY <1>1, <2>2, RegisterSeen
    <3>3. IsRegister(n, k)' <=> IsRegister(m, c)
      BY <1>1, <1>4, <1>7, <3>1 DEF IsRegister
    <3>4. IsRegister(m, c) => c.type = RegisterType
      BY <2>3 DEF RegisterOK
    <3>5. input'.cfg[Base(n)] = cfg
      BY <1>1, <1>6, <1>7
    <3> HIDE DEF t, cfg
    <3>6. IsRegister(m, c) /\ cfg.ffVoter => k.voted
      BY <3>1, <3>2
    <3> QED
      BY <1>5, <3>1, <3>3, <3>4, <3>5, <3>6 DEF RegisterOK
  <2>5. CASE ~IsLogicTree(w, c)
    <3>1. c.type \in DOMAIN w
      BY <2>5 DEF IsLogicTree, IsProper
    <3>2. c.type \notin Primitive
      BY <1>4, <3>1, DesignNames
    <3>3. ~IsRegister(m, c)
      BY <2>3, <3>2, RegisterFacts DEF RegisterOK
    <3>4. k.inst = c.inst
      BY <2>1, <2>2, <2>5 DEF Resolve, Cell
    <3>5. ~IsRegister(n, c)
      BY <1>4, <1>7, <3>3 DEF IsRegister
    <3> QED
      BY <1>1, <3>4, <3>5, NoRegister
  <2> QED
    BY <2>4, <2>5
<1>8. \A n \in DOMAIN design' : \A c \in design'[n].cells : RegisterOK(n, c)'
  <2> TAKE n \in DOMAIN design'
  <2>1. CASE n = t
    BY <1>7, <2>1
  <2>2. CASE n # t
    BY <1>1, <1>3, <1>5, <2>2, KeptRegisters
  <2> QED
    BY <2>1, <2>2
<1>9. SourcesOK' /\ UserDesign' /\ FrameRegisters'
  BY <1>1, SourcesKept DEF RegistersInv, UserDesign, FrameRegisters
<1> QED
  BY <1>8, <1>9 DEF RegistersInv

(* The template is a copy; the wrapper has no registers.                   *)
LEMMA StartFullRegisters ==
    ASSUME HierarchyInv, RegistersInv, NEW m \in todo, StartFull(m)
    PROVE  RegistersInv'
<1> DEFINE t == Target(m)
           k == Template(t)
<1>1. /\ pc = "process" /\ pc' = "full" /\ stack = <<>>
      /\ UNCHANGED <<input, ffSources, stack>>
      /\ DOMAIN design' = DOMAIN design \cup {t, k}
  BY StartFullStep
<1>2. design'[t].cells = {Duplicate(k, i) : i \in 1..3}
  BY StartFullStep
<1>3. design'[k].cells = design[m].cells /\ k # t /\ k \notin DOMAIN design
  BY StartFullStep
<1>4. \A x \in DOMAIN design : x # t => design'[x].cells = design[x].cells
  BY StartFullOthers
<1>5. /\ m \in DOMAIN design /\ t \in Name /\ t # <<>> /\ t[1] = m[1] /\ m[1] \in User
  BY <1>1, TargetFacts, DesignNames
<1>6. k[1] = m[1]
  BY <1>5, TemplateFacts
<1>7. RegisterType' = RegisterType
  BY <1>1, TypeKept
<1>8. ASSUME NEW n, n = t, NEW c \in design'[n].cells
      PROVE  RegisterOK(n, c)'
  <2>1. c.inst = "worker"
    BY <1>2, <1>8 DEF Duplicate
  <2>2. ~IsRegister(n, c)
    BY <1>5, <1>8, <2>1, RegisterFacts
  <2> QED
    BY <1>1, <2>2, NoRegister
<1> HIDE DEF t, k
<1>9. ASSUME NEW n, n = k
      PROVE  \A c \in design'[n].cells : RegisterOK(n, c)'
  BY <1>1, <1>3, <1>5, <1>6, <1>7, <1>9, CopiedRegisters
<1>10. ASSUME NEW n \in DOMAIN design', NEW c \in design'[n].cells
       PROVE  RegisterOK(n, c)'
  <2>1. CASE n \in {t, k}
    BY <1>8, <1>9, <1>10, <2>1
  <2>2. CASE n \notin {t, k}
    BY <1>1, <1>4, <1>7, <1>10, <2>2, KeptRegisters
  <2> QED
    BY <2>1, <2>2
<1>11. SourcesOK' /\ UserDesign' /\ FrameRegisters'
  BY <1>1, SourcesKept DEF RegistersInv, UserDesign, FrameRegisters
<1> QED
  BY <1>10, <1>11 DEF RegistersInv

(* An activation that goes on, or the one below it when it returns.        *)
LEMMA FrameRegistersKept ==
    ASSUME RegistersInv, NEW i \in 1..Len(stack), NEW j,
           stack'[j].mod = stack[i].mod, stack'[j].owner = stack[i].owner,
           stack'[j].cell = stack[i].cell, stack'[j].cells \subseteq stack[i].cells,
           RegisterType' = RegisterType, UNCHANGED input
    PROVE  /\ \A c \in stack'[j].cells : IsRegister(stack[j].mod, c)' => c.type = RegisterType'
           /\ ~IsRegister(stack[j].owner, stack[j].cell)'
BY DEF RegistersInv, FrameRegisters, IsRegister

(* A clone that the recursion adds.                                        *)
LEMMA AddCloneRegisters ==
    ASSUME RegistersInv, RegisterType' = RegisterType, UNCHANGED input,
           NEW src \in DOMAIN design, NEW un, un[1] = src[1],
           DOMAIN design' = DOMAIN design \cup {un},
           design'[un].cells = design[src].cells,
           \A x \in DOMAIN design : x # un => design'[x] = design[x]
    PROVE  \A n \in DOMAIN design' : \A c \in design'[n].cells : RegisterOK(n, c)'
<1> TAKE n \in DOMAIN design'
<1>1. CASE n = un
  BY <1>1, CopiedRegisters
<1>2. CASE n # un
  BY <1>2, KeptRegisters
<1> QED
  BY <1>1, <1>2

(* A cell that is retyped.                                                 *)
LEMMA RetypeRegisters ==
    ASSUME RegistersInv, RegisterType' = RegisterType, UNCHANGED input,
           NEW o \in DOMAIN design, NEW c \in Cell, NEW un, ~IsRegister(o, c),
           DOMAIN design' = DOMAIN design,
           design'[o].cells = (design[o].cells \ {c}) \cup {[c EXCEPT !.type = un]},
           \A x \in DOMAIN design : x # o => design'[x] = design[x]
    PROVE  \A n \in DOMAIN design' : \A k \in design'[n].cells : RegisterOK(n, k)'
<1> TAKE n \in DOMAIN design'
<1>1. CASE n = o
  <2> SUFFICES ASSUME NEW k \in design'[o].cells PROVE RegisterOK(o, k)'
    BY <1>1
  <2>1. CASE k = [c EXCEPT !.type = un]
    <3>1. k.inst = c.inst
      BY <2>1 DEF Cell
    <3> QED
      BY <3>1, NoRegister
  <2>2. CASE k \in design[o].cells
    BY <2>2 DEF RegistersInv, RegisterOK, IsRegister, Base
  <2> QED
    BY <2>1, <2>2
<1>2. CASE n # o
  BY <1>2, KeptRegisters
<1> QED
  BY <1>1, <1>2

(* A clone of a module keeps its registers, under a name of its own. *)
LEMMA CloneWorkerRegisters ==
    ASSUME HierarchyInv, RegistersInv, CloneWorker
    PROVE  RegistersInv'
<1> DEFINE t == Template(wrapper)
           un == WorkerName(path)
<1>1. /\ pc = "full"
      /\ UNCHANGED <<input, pc, ffSources>>
      /\ t \in DOMAIN design
      /\ DOMAIN design' = DOMAIN design \cup {un}
      /\ design'[un].cells = design[t].cells
      /\ \A x \in DOMAIN design : x # un => design'[x] = design[x]
      /\ stack' = <<[mod |-> un, cells |-> design[t].cells, owner |-> wrapper,
                     cell |-> Duplicate(t, path)]>>
  BY CloneWorkerStep
<1>2. un[1] = t[1]
  <2>1. Base(un) = Base(t)
    BY CloneWorkerStep
  <2> QED
    BY <2>1 DEF Base
<1>3. RegisterType' = RegisterType
  BY <1>1, TypeKept
<1>4. ~IsRegister(wrapper, Duplicate(t, path))
  <2>1. Duplicate(t, path).inst = "worker"
    BY DEF Duplicate
  <2> QED
    BY <1>1, <2>1, FullFacts, RegisterFacts
<1>5. \A c \in design[t].cells : IsRegister(un, c) => c.type = RegisterType
  BY <1>1, <1>2 DEF RegistersInv, RegisterOK, IsRegister
<1>6. /\ Len(stack') = 1
      /\ stack'[1].mod = un /\ stack'[1].cells = design[t].cells
      /\ stack'[1].owner = wrapper /\ stack'[1].cell = Duplicate(t, path)
  BY <1>1
<1> HIDE DEF t, un
<1>7. \A n \in DOMAIN design' : \A c \in design'[n].cells : RegisterOK(n, c)'
  <2>1. PICK u : u = un
    OBVIOUS
  <2> QED
    BY <1>1, <1>2, <1>3, <2>1, AddCloneRegisters
<1>8. FrameRegisters'
  <2>1. \A i \in 1..Len(stack') : i = 1
    BY <1>6
  <2>2. \A c \in stack'[1].cells : IsRegister(stack[1].mod, c)' => c.type = RegisterType'
    BY <1>1, <1>3, <1>5, <1>6 DEF IsRegister
  <2>3. ~IsRegister(stack[1].owner, stack[1].cell)'
    BY <1>1, <1>4, <1>6 DEF IsRegister
  <2> QED
    BY <2>1, <2>2, <2>3 DEF FrameRegisters
<1>9. SourcesOK' /\ UserDesign'
  BY <1>1, SourcesKept DEF RegistersInv, UserDesign
<1> QED
  BY <1>7, <1>8, <1>9 DEF RegistersInv

(* A cell the recursion leaves alone changes no register. *)
LEMMA LeaveCellRegisters ==
    ASSUME HierarchyInv, RegistersInv, VisitCell, NEW c \in stack[1].cells, LeaveCell(c)
    PROVE  RegistersInv'
<1>1. /\ stack # <<>> /\ stack' = Visited(c)
      /\ UNCHANGED <<input, pc, ffSources, design>> /\ pc = "full"
  BY DEF VisitCell, LeaveCell
<1>2. /\ Len(stack') = Len(stack)
      /\ \A i \in 1..Len(stack) :
           /\ stack'[i].mod = stack[i].mod /\ stack'[i].owner = stack[i].owner
           /\ stack'[i].cell = stack[i].cell
           /\ stack'[i].cells \subseteq stack[i].cells
  BY <1>1, VisitedFacts
<1>3. RegisterType' = RegisterType
  BY <1>1, TypeKept
<1>4. \A n \in DOMAIN design' : \A k \in design'[n].cells : RegisterOK(n, k)'
  BY <1>1, <1>3, KeptRegisters
<1>5. FrameRegisters'
  BY <1>1, <1>2, <1>3, FrameRegistersKept DEF FrameRegisters
<1>6. SourcesOK' /\ UserDesign'
  BY <1>1, SourcesKept DEF RegistersInv, UserDesign
<1> QED
  BY <1>4, <1>5, <1>6 DEF RegistersInv

(* Retyping an instance leaves the registers alone. *)
LEMMA ReuseCloneRegisters ==
    ASSUME HierarchyInv, RegistersInv, VisitCell, NEW c \in stack[1].cells, ReuseClone(c)
    PROVE  RegistersInv'
<1> DEFINE un == UniqueName(c)
           o  == stack[1].mod
<1>1. /\ pc = "full" /\ stack # <<>>
      /\ UNCHANGED <<input, pc, ffSources>>
      /\ c \in Cell /\ c.type \in DOMAIN design
      /\ o \in DOMAIN design
      /\ DOMAIN design' = DOMAIN design
      /\ \A x \in DOMAIN design : x # o => design'[x] = design[x]
      /\ design'[o].cells = (design[o].cells \ {c}) \cup {[c EXCEPT !.type = un]}
  BY ReuseCloneStep
<1>2. /\ Len(stack') = Len(stack)
      /\ \A i \in 1..Len(stack) :
           /\ stack'[i].mod = stack[i].mod /\ stack'[i].owner = stack[i].owner
           /\ stack'[i].cell = stack[i].cell
           /\ stack'[i].cells \subseteq stack[i].cells
  BY ReuseCloneStep
<1>3. RegisterType' = RegisterType
  BY <1>1, TypeKept
<1>4. ~IsRegister(o, c)
  <2>1. 1 \in 1..Len(stack)
    BY <1>1, TopFacts
  <2>2. IsRegister(o, c) => c.type = RegisterType
    BY <2>1 DEF RegistersInv, FrameRegisters
  <2> QED
    BY <1>1, <2>2, RegisterFacts
<1> HIDE DEF un, o
<1>5. \A n \in DOMAIN design' : \A k \in design'[n].cells : RegisterOK(n, k)'
  <2>1. PICK x, u : x = o /\ u = un
    OBVIOUS
  <2> QED
    BY <1>1, <1>3, <1>4, <2>1, RetypeRegisters
<1>6. FrameRegisters'
  BY <1>1, <1>2, <1>3, FrameRegistersKept DEF FrameRegisters
<1>7. SourcesOK' /\ UserDesign'
  BY <1>1, SourcesKept DEF RegistersInv, UserDesign
<1> QED
  BY <1>5, <1>6, <1>7 DEF RegistersInv

(* The clone of a submodule has the registers of the submodule. *)
LEMMA CloneSubmoduleRegisters ==
    ASSUME HierarchyInv, RegistersInv, VisitCell, NEW c \in stack[1].cells, CloneSubmodule(c)
    PROVE  RegistersInv'
<1> DEFINE un == UniqueName(c)
<1>1. /\ pc = "full" /\ stack # <<>>
      /\ UNCHANGED <<input, pc, ffSources>>
      /\ c.type \in DOMAIN design
      /\ DOMAIN design' = DOMAIN design \cup {un}
      /\ design'[un].cells = design[c.type].cells
      /\ \A x \in DOMAIN design : x # un => design'[x] = design[x]
  BY CloneSubmoduleStep
<1>2. un[1] = c.type[1]
  <2>1. Base(un) = Base(c.type)
    BY CloneSubmoduleStep
  <2> QED
    BY <2>1 DEF Base
<1>3. /\ Len(stack') = Len(stack) + 1 /\ Len(stack) \in Nat
      /\ stack'[1] = [mod |-> un, cells |-> design[c.type].cells,
                      owner |-> stack[1].mod, cell |-> c]
      /\ \A i \in 1..Len(stack) :
           /\ stack'[i + 1].mod = stack[i].mod
           /\ stack'[i + 1].owner = stack[i].owner
           /\ stack'[i + 1].cell = stack[i].cell
           /\ stack'[i + 1].cells \subseteq stack[i].cells
  BY CloneSubmoduleStep
<1>4. RegisterType' = RegisterType
  BY <1>1, TypeKept
<1>5. ~IsRegister(stack[1].mod, c)
  <2>1. 1 \in 1..Len(stack)
    BY <1>1, TopFacts
  <2>2. IsRegister(stack[1].mod, c) => c.type = RegisterType
    BY <2>1 DEF RegistersInv, FrameRegisters
  <2> QED
    BY <1>1, <2>2, RegisterFacts
<1>6. \A k \in design[c.type].cells : IsRegister(un, k) => k.type = RegisterType
  BY <1>1, <1>2 DEF RegistersInv, RegisterOK, IsRegister
<1> HIDE DEF un
<1>7. \A n \in DOMAIN design' : \A k \in design'[n].cells : RegisterOK(n, k)'
  <2>1. PICK u : u = un
    OBVIOUS
  <2> QED
    BY <1>1, <1>2, <1>4, <2>1, AddCloneRegisters
<1>8. FrameRegisters'
  <2>1. /\ \A k \in stack'[1].cells : IsRegister(stack[1].mod, k)' => k.type = RegisterType'
        /\ ~IsRegister(stack[1].owner, stack[1].cell)'
    <3>1. /\ stack'[1].mod = un /\ stack'[1].cells = design[c.type].cells
          /\ stack'[1].owner = stack[1].mod /\ stack'[1].cell = c
      BY <1>3
    <3> QED
      BY <1>1, <1>4, <1>5, <1>6, <3>1 DEF IsRegister
  <2>2. ASSUME NEW i \in 1..Len(stack), NEW j, j = i + 1
        PROVE  /\ \A k \in stack'[j].cells : IsRegister(stack[j].mod, k)' => k.type = RegisterType'
               /\ ~IsRegister(stack[j].owner, stack[j].cell)'
    BY <1>1, <1>3, <1>4, <2>2, FrameRegistersKept
  <2>3. \A j \in 1..Len(stack') : j = 1 \/ \E i \in 1..Len(stack) : j = i + 1
    <3> TAKE j \in 1..Len(stack')
    <3>1. j = 1 \/ (j - 1 \in 1..Len(stack) /\ j = (j - 1) + 1)
      BY <1>3
    <3> QED
      BY <3>1
  <2> QED
    BY <2>1, <2>2, <2>3 DEF FrameRegisters
<1>9. SourcesOK' /\ UserDesign'
  BY <1>1, SourcesKept DEF RegistersInv, UserDesign
<1> QED
  BY <1>7, <1>8, <1>9 DEF RegistersInv

(* Leaving a submodule changes no register. *)
LEMMA ReturnRegisters ==
    ASSUME HierarchyInv, RegistersInv, Return
    PROVE  RegistersInv'
<1> DEFINE f == stack[1]
           o == f.owner
<1>1. /\ pc = "full" /\ stack # <<>>
      /\ UNCHANGED <<input, pc, ffSources>>
      /\ f.cell \in Cell
      /\ o \in DOMAIN design
      /\ DOMAIN design' = DOMAIN design
      /\ \A x \in DOMAIN design : x # o => design'[x] = design[x]
      /\ design'[o].cells = (design[o].cells \ {f.cell}) \cup {[f.cell EXCEPT !.type = f.mod]}
  BY ReturnStep
<1>2. /\ Len(stack) \in Nat /\ Len(stack) >= 1 /\ Len(stack') = Len(stack) - 1
      /\ \A i \in 1..Len(stack') : stack'[i] = stack[i + 1]
  BY ReturnStep
<1>3. RegisterType' = RegisterType
  BY <1>1, TypeKept
<1>4. ~IsRegister(o, f.cell)
  <2>1. 1 \in 1..Len(stack)
    BY <1>1, TopFacts
  <2> QED
    BY <2>1 DEF RegistersInv, FrameRegisters
<1>5. \A n \in DOMAIN design' : \A k \in design'[n].cells : RegisterOK(n, k)'
  <2>1. PICK x, c, u : x = o /\ c = f.cell /\ u = f.mod
    OBVIOUS
  <2> HIDE DEF f, o
  <2> QED
    BY <1>1, <1>3, <1>4, <2>1, RetypeRegisters
<1>6. FrameRegisters'
  <2>1. \A j \in 1..Len(stack') : j + 1 \in 1..Len(stack) /\ stack'[j] = stack[j + 1]
    BY <1>2
  <2>2. ASSUME NEW j \in 1..Len(stack')
        PROVE  /\ \A k \in stack'[j].cells : IsRegister(stack[j].mod, k)' => k.type = RegisterType'
               /\ ~IsRegister(stack[j].owner, stack[j].cell)'
    BY <1>1, <1>3, <2>1, FrameRegistersKept
  <2> QED
    BY <2>2 DEF FrameRegisters
<1>7. SourcesOK' /\ UserDesign'
  BY <1>1, SourcesKept DEF RegistersInv, UserDesign
<1> QED
  BY <1>5, <1>6, <1>7 DEF RegistersInv

(* The steps that only remove modules.                                     *)
LEMMA RemovalRegisters ==
    ASSUME HierarchyInv, RegistersInv, FinishFull \/ (\E n \in toRemove : CleanupOne(n))
    PROVE  RegistersInv'
<1>1. /\ pc \in {"full", "cleanup"} /\ pc' \in {"process", "cleanup"} /\ stack = <<>>
      /\ UNCHANGED <<input, ffSources, stack>>
      /\ \A x \in DOMAIN design' : x \in DOMAIN design /\ design'[x] = design[x]
  <2>1. CASE FinishFull
    BY <2>1, FinishFullStep
  <2>2. CASE \E n \in toRemove : CleanupOne(n)
    BY <2>2, CleanupOneStep
  <2> QED
    BY <2>1, <2>2
<1>2. RegisterType' = RegisterType
  BY <1>1, TypeKept
<1>3. \A n \in DOMAIN design' : \A c \in design'[n].cells : RegisterOK(n, c)'
  BY <1>1, <1>2, KeptRegisters
<1>4. SourcesOK' /\ UserDesign' /\ FrameRegisters'
  BY <1>1, SourcesKept DEF RegistersInv, UserDesign, FrameRegisters
<1> QED
  BY <1>3, <1>4 DEF RegistersInv

(* Every step.                                                             *)
LEMMA NextRegisters ==
    ASSUME HierarchyInv, RegistersRecognised, RegistersInv, [Next]_vars
    PROVE  RegistersInv'
<1>1. CASE Mark \/ Synthesize
  BY <1>1, MarkRegisters, SynthesizeRegisters
<1>2. CASE Plan \/ (\E m \in todo : SkipModule(m)) \/ StartCleanup \/ Finish \/ UNCHANGED vars
  BY <1>2, IdleRegisters
<1>3. ASSUME NEW m \in todo, ExpandLogic(m) \/ StartFull(m)
      PROVE  RegistersInv'
  BY <1>3, ExpandLogicRegisters, StartFullRegisters
<1>4. CASE CloneWorker \/ Return
  BY <1>4, CloneWorkerRegisters, ReturnRegisters
<1>5. CASE VisitCell
  <2>1. PICK c \in stack[1].cells : LeaveCell(c) \/ ReuseClone(c) \/ CloneSubmodule(c)
    BY <1>5 DEF VisitCell
  <2> QED
    BY <1>5, <2>1, LeaveCellRegisters, ReuseCloneRegisters, CloneSubmoduleRegisters
<1>6. CASE FinishFull \/ (\E n \in toRemove : CleanupOne(n))
  BY <1>6, RemovalRegisters
<1> QED
  BY <1>1, <1>2, <1>3, <1>4, <1>5, <1>6 DEF Next, Terminated

(* When the flow ends every copy of a register that LogicTMR made is       *)
(* followed by voters if its configuration asks for them and lets the code *)
(* see what the registers are.                                             *)
THEOREM RegistersVotedHolds == Spec => [](RegistersRecognised => RegistersVoted)
<1>1. Init => (RegistersRecognised => RegistersInv)
  BY InitRegisters
<1>2. HierarchyInv /\ (RegistersRecognised => RegistersInv) /\ [Next]_vars
        => (RegistersRecognised => RegistersInv)'
  <2> SUFFICES ASSUME HierarchyInv, RegistersRecognised => RegistersInv,
                      [Next]_vars, RegistersRecognised'
               PROVE  RegistersInv'
    OBVIOUS
  <2>1. RegistersRecognised
    BY InputKept DEF RegistersRecognised
  <2> QED
    BY <2>1, NextRegisters
<1>3. (RegistersRecognised => RegistersInv) => (RegistersRecognised => RegistersVoted)
  BY DEF RegistersInv, RegisterOK, RegistersVoted
<1> QED
  BY <1>1, <1>2, <1>3, HierarchyInvariant, PTL DEF Spec
===============================================================================
