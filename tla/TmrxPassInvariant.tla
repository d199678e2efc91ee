-------------------------- MODULE TmrxPassInvariant -------------------------
(***************************************************************************)
(* The inductive invariants behind the properties of the hierarchy.        *)
(***************************************************************************)
EXTENDS TmrxPassProperties

LastToken(n) == n[Len(n)]

LevelOf(n) == Level[n[1]]

(* What the names of generated modules look like: `Base' survives every    *)
(* operation, and a template only exists while it is being used.           *)
NamesOK ==
    \A n \in DOMAIN design :
        /\ n # <<>>
        /\ n[1] \in User
        /\ LastToken(n) \in PathSuffixes \cup {ImplSuffix, WorkerSuffix} \/ n \in UserName
        /\ LastToken(n) = WorkerSuffix => pc = "full" /\ n = Template(wrapper)

(* The design is the user's until tmrx starts, and the modules that wait   *)
(* to be processed still are.                                              *)
TodoOK ==
    /\ pc \in {"mark", "synth", "plan"} => DOMAIN design = UserName
    /\ todo \subseteq DOMAIN design
    /\ wrapper \notin todo
    /\ pc # "full" => wrapper = NoName
    /\ pc # "process" /\ pc # "full" => todo = {}

(* tmrx_impl_module is only set on processed modules of the user, and      *)
(* names an existing module as long as anything reads it.                  *)
ImplOK ==
    \A n \in DOMAIN design :
        design[n].impl # NoName =>
            /\ pc \notin {"mark", "synth", "plan"}
            /\ n \in UserName \ todo
            /\ design[n].impl = Append(n, ImplSuffix)
            /\ pc \in {"process", "full"} => design[n].impl \in DOMAIN design

(* The hierarchy stays acyclic: no cell instantiates a module of a higher  *)
(* level, and one that waits or serves as a template only of lower levels. *)
LevelsOK ==
    \A n \in DOMAIN design : \A c \in design[n].cells :
        c.type \in DOMAIN design =>
            /\ LevelOf(c.type) =< LevelOf(n)
            /\ (n \in todo \/ pc \in {"mark", "synth", "plan"}) => LevelOf(c.type) < LevelOf(n)
            /\ (pc = "full" /\ n = Template(wrapper)) => LevelOf(c.type) < LevelOf(n)

(* Outside the wrapper nothing instantiates the template, and the wrapper  *)
(* only in the instances of the paths still to come.                       *)
TemplateOK ==
    pc = "full" =>
        /\ wrapper \in DOMAIN design
        /\ Template(wrapper) \in DOMAIN design
        /\ \A n \in DOMAIN design : \A c \in design[n].cells :
             c.type = Template(wrapper) =>
                 n = wrapper /\ \E i \in path..3 : c = Duplicate(Template(wrapper), i)

(* The activations of uniquifySubmodulesRecursive work on clones, below    *)
(* the level of the wrapper; the outermost one is for the wrapper's cell.  *)
FrameOK(i) ==
    LET f == stack[i]
    IN  /\ f.mod \in DOMAIN design
        /\ LastToken(f.mod) \in PathSuffixes
        /\ f.owner \in DOMAIN design
        /\ LevelOf(f.mod) =< LevelOf(f.owner)
        /\ IF i = Len(stack)
           THEN f.owner = wrapper /\ f.cell = Duplicate(Template(wrapper), path)
           ELSE LastToken(f.owner) \in PathSuffixes
        /\ \A c \in f.cells :
             /\ c.type \in DOMAIN design \cup Primitive
             /\ c.type \in DOMAIN design =>
                  /\ LevelOf(c.type) < LevelOf(wrapper)
                  /\ LevelOf(c.type) =< LevelOf(f.mod)
                  /\ c.type # Template(wrapper)

StackOK ==
    /\ pc = "full" => path \in 1..4
    /\ stack # <<>> => pc = "full" /\ path \in 1..3
    /\ \A i \in 1..Len(stack) : FrameOK(i)

HierarchyInv ==
    /\ TypeOK
    /\ input \in Inputs
    /\ NoDanglingCells
    /\ NamesOK
    /\ TodoOK
    /\ ImplOK
    /\ LevelsOK
    /\ TemplateOK
    /\ StackOK

-----------------------------------------------------------------------------
(* No name is given twice.  A name that continues a user's module with     *)
(* _tmrx_impl or _tmrx_worker only exists when that module has been        *)
(* reached, and the workers of paths still to come do not exist.           *)
FreshOK ==
    /\ \A n \in DOMAIN design :
         (Len(n) > 1 /\ n[2] \in {ImplSuffix, WorkerSuffix}) => Base(n) \notin todo
    /\ pc = "full" =>
         \A i \in path..3 :
           (i > path \/ stack = <<>>) => WorkerName(i) \notin DOMAIN design

(* The names that are given without looking are new.                       *)
NamesNew ==
    /\ pc = "process" =>
         \A m \in todo :
           (Ready(m) /\ ~Skipped(m)) =>
             /\ Target(m) = m \/ Target(m) \notin DOMAIN design
             /\ ConfigOf(m).mode = "Full" => Template(Target(m)) \notin DOMAIN design
    /\ (pc = "full" /\ stack = <<>> /\ path \in 1..3) => WorkerName(path) \notin DOMAIN design

(* Every module has a name that starts with one of the user's and goes on  *)
(* with suffixes.                                                          *)
Generated(n) == n # <<>> /\ n[1] \in User /\ \A k \in 2..Len(n) : n[k] \in Suffix

NamesGenerated == \A n \in DOMAIN design : Generated(n)

(* Blackboxes are the user's, empty, not cloned, and no candidate for      *)
(* removal.                                                                *)
BlackboxOK ==
    /\ \A n \in DOMAIN design :
         design[n].bb => /\ n \in input.bb
                         /\ design[n].cells = {}
                         /\ design[n].impl = NoName
    /\ pc = "full" => ~design[wrapper].bb
    /\ toRemove \subseteq UserName
    /\ \A n \in toRemove \cap DOMAIN design : ~design[n].bb

(* A wrapper under the name of a user's module has taken the place of that *)
(* module because its configuration says so.                               *)
WrapperOK ==
    pc = "full" /\ wrapper \in UserName =>
        /\ design[wrapper].impl = NoName
        /\ input.cfg[wrapper].mode # "None"

IdentityInv == FreshOK /\ BlackboxOK /\ WrapperOK

-----------------------------------------------------------------------------
(* Ports.                                                                  *)

(* tmrx_mark finds the design as the user wrote it.                        *)
UserDesign == pc = "mark" => design = [n \in UserName |-> UserModule(n[1])]

(* The module that a clone for a path was made of.                         *)
ClonedFrom(n) == SubSeq(n, 1, Len(n) - 1)

(* Before it is expanded a module has the ports its user gave it, and so   *)
(* has the template of the workers.                                        *)
BasePorts ==
    /\ pc \in {"mark", "synth", "plan"} =>
         \A n \in DOMAIN design :
           /\ design[n].ports = "base"
           /\ \A c \in design[n].cells : c.ports = "base"
    /\ \A n \in todo : design[n].ports = "base"
    /\ pc = "full" => design[Template(wrapper)].ports = "base"

(* Whatever is instantiated has been marked, and what the passes create is *)
(* marked, except a template.                                              *)
InstancesMarked ==
    /\ pc # "mark" =>
         \A n \in DOMAIN design : \A c \in design[n].cells :
           c.type \in DOMAIN design =>
             design[c.type].proper \/ LastToken(c.type) = WorkerSuffix
    /\ \A n \in DOMAIN design :
         n \in UserName \/ LastToken(n) = WorkerSuffix \/ design[n].proper

(* The clones for a path have the ports of what they were made of, which   *)
(* is a marked module or a template, and still there unless it is a module *)
(* of the user or a template.                                              *)
ClonesAlike ==
    \A n \in DOMAIN design :
        (n # <<>> /\ LastToken(n) \in PathSuffixes) =>
            LET o == ClonedFrom(n)
            IN  IF o \in DOMAIN design
                THEN /\ design[n].ports = design[o].ports
                     /\ design[o].proper \/ LastToken(o) = WorkerSuffix
                ELSE LastToken(o) \notin PathSuffixes

(* The cells that the recursion holds on to are connected by the ports of  *)
(* their modules, the one it works for by those of the module it gets.     *)
FramePorts ==
    \A i \in 1..Len(stack) :
        /\ \A c \in stack[i].cells :
             c.type \in DOMAIN design => c.ports = design[c.type].ports
        /\ stack[i].cell.ports = design[stack[i].mod].ports

PortsInv ==
    /\ UserDesign
    /\ BasePorts
    /\ InstancesMarked
    /\ ClonesAlike
    /\ FramePorts
    /\ PortsMatch

-----------------------------------------------------------------------------
(* Registers.                                                              *)

(* What tmrx_mark recorded of a module it looked at: its registers.        *)
SourcesOK ==
    pc # "mark" =>
        \A n \in input.markSel \ input.bb :
            /\ n \in DOMAIN ffSources
            /\ \A e \in input.cells[n[1]] : e[2] = BuiltinFf => e[1] \in ffSources[n]

(* Registers become library cells when the flow maps them, and nothing     *)
(* else does; a copy of one is voted if the configuration says so.         *)
RegisterType ==
    IF input.mapped /\ pc \notin {"mark", "synth"} THEN LibraryFf ELSE BuiltinFf

RegisterOK(n, c) ==
    /\ IsRegister(n, c) => c.type = RegisterType
    /\ (c.path # "" /\ IsRegister(n, c) /\ input.cfg[Base(n)].ffVoter) => c.voted

(* A cell that is retyped to a module is no register.                      *)
FrameRegisters ==
    \A i \in 1..Len(stack) :
        /\ \A c \in stack[i].cells : IsRegister(stack[i].mod, c) => c.type = RegisterType
        /\ ~IsRegister(stack[i].owner, stack[i].cell)

RegistersInv ==
    /\ UserDesign
    /\ SourcesOK
    /\ \A n \in DOMAIN design : \A c \in design[n].cells : RegisterOK(n, c)
    /\ FrameRegisters
-----------------------------------------------------------------------------
(* Workers.                                                                *)

(* A module that worker branches are to have for themselves.               *)
Own(n) == ~ConfiguredShared(n) /\ n \notin input.bb

(* The name s ends in the path suffixes that the name n ends in.           *)
Follows(s, n) ==
    \A j \in 0..Len(n) - 1 :
        (\A i \in 0..j : n[Len(n) - i] \in PathSuffixes) =>
            j < Len(s) /\ s[Len(s) - j] = n[Len(n) - j]

(* The name of a wrapper is the one that was expanded, then the paths that *)
(* it was cloned for; those of its workers differ in between.              *)
Stem(n) == IF Len(n) > 1 /\ n[2] = ImplSuffix THEN 2 ELSE 1

WrapperName(n) == \A k \in Stem(n) + 1..Len(n) : n[k] \in PathSuffixes

WorkerOf(s, n, i) ==
    /\ Len(s) = Len(n) + 2
    /\ s[Stem(n) + 1] = WorkerSuffix
    /\ s[Stem(n) + 2] = PathSuffix[i]
    /\ \A k \in 1..Len(n) : s[IF k =< Stem(n) THEN k ELSE k + 2] = n[k]

(* The cell c of module n may instantiate s: a module of its own if it is  *)
(* in a clone, and the worker of its path if it is in a wrapper.           *)
Placed(n, c, s) ==
    /\ Own(s) => Follows(s, n)
    /\ c.inst # "worker" => LevelOf(s) < LevelOf(n)
    /\ c.inst = "worker" =>
         /\ WrapperName(n)
         /\ \E i \in 1..3 : c = Duplicate(c.type, i) /\ WorkerOf(s, n, i)

(* The cells that the recursion has not come to, or works for.             *)
Held(n, c) ==
    \E i \in 1..Len(stack) :
        \/ n = stack[i].mod /\ c \in stack[i].cells
        \/ n = stack[i].owner /\ c = stack[i].cell

Settled(n, c) ==
    \/ c.type \in Primitive
    \/ Held(n, c)
    \/ pc = "full" /\ c.type = Template(wrapper)
    \/ Placed(n, c, c.type)

(* What an activation works on is still as in the module it was cloned     *)
(* from; what it was called for will be in place when it returns.          *)
FramePlaced(i) ==
    LET f == stack[i]
    IN  /\ LastToken(f.mod) = PathSuffix[path]
        /\ Placed(f.owner, f.cell, f.mod)
        /\ \A c \in f.cells :
             \/ c.type \in Primitive
             \/ design[c.type].proper /\ Placed(ClonedFrom(f.mod), c, c.type)

(* Each activation works below those that wait for it: at a lower level,   *)
(* or in a worker of the wrapper.                                          *)
Rank(n) ==
    2 * LevelOf(n) + (IF \E k \in 1..Len(n) : n[k] = WorkerSuffix THEN 0 ELSE 1)

RanksOK ==
    \A i, j \in 1..Len(stack) :
        /\ i =< j => Rank(stack[i].mod) < Rank(stack[j].owner)
        /\ i < j => Rank(stack[i].mod) < Rank(stack[j].mod)

WorkersInv ==
    /\ \A n \in DOMAIN design : n \in input.bb => design[n].bb
    /\ pc = "full" => wrapper \in UserName \cup {Append(n, ImplSuffix) : n \in UserName}
    /\ \A n \in DOMAIN design : \A c \in design[n].cells : Settled(n, c)
    /\ \A i \in 1..Len(stack) : FramePlaced(i)
    /\ RanksOK

(* The instances in a wrapper are modules.                                 *)
WorkersAreModules ==
    \A n \in DOMAIN design : \A c \in design[n].cells :
        c.inst = "worker" => c.type \notin Primitive

(* Generated modules, which have the global configuration, are not exempt. *)
RenamedByDefault ==
    ~(input.global.prevent \/ (input.global.mode = "Logic" /\ input.global.preserve))
-----------------------------------------------------------------------------
(* Protection.                                                             *)

EverySelected == InstancesSelected /\ input.tmrxSel = UserName

(* The version of the user's module Base(n) that a module is, in the terms *)
(* of the documentation, and how much logic it is expected to have.        *)
Variant(n) ==
    IF /\ \A k \in 1..Len(n) : n[k] # WorkerSuffix
       /\ \/ \E k \in 1..Len(n) : n[k] = ImplSuffix
          \/ ~Instantiated(Base(n))
          \/ input.cfg[Base(n)].preserve
    THEN "tmr" ELSE "original"

Expected(n)  == Documented(input)[<<Base(n), Variant(n)>>]
Weight(n, c) == IF c.type \in Primitive THEN Tally(Base(n)) ELSE Expected(c.type)

Amount(n, C) == Total([c \in C |-> Weight(n, c)])

(* The contents of every module that has been reached add up.              *)
Accounted(n) == Amount(n, design[n].cells) = Expected(n)

AccountsOK ==
    pc \notin {"mark", "synth", "plan"} =>
        \A n \in DOMAIN design \ todo : ~design[n].bb => Accounted(n)

(* Until then a module is as the user wrote it and the flow mapped it, and *)
(* marked if it has instances.                                             *)
SourceCell(e) ==
    [UserCell(e) EXCEPT !.type = IF e[2] = BuiltinFf THEN RegisterType ELSE e[2]]

SourceOK ==
    \A n \in UserName \cap DOMAIN design :
        (pc \in {"mark", "synth", "plan"} \/ n \in todo) =>
            /\ design[n].cells = {SourceCell(e) : e \in input.cells[n[1]]}
            /\ pc # "mark" => (design[n].proper <=> Instantiated(n))

MarkedOK == \A n \in DOMAIN design : n \in input.bb => design[n].bb

(* A module is only reached after what it instantiates, and left behind as *)
(* the original of a clone unless it keeps its ports or has no instances.  *)
ReachedOK ==
    pc \in {"process", "full"} =>
        /\ \A m \in todo : \A c \in design[m].cells : c.type \in todo => <<m, c.type>> \in edges
        /\ \A n \in DOMAIN design \ todo : \A c \in design[n].cells : c.type \notin todo
        /\ \A n \in (UserName \cap DOMAIN design) \ todo :
             (Instantiated(n) /\ ~input.cfg[n].preserve /\ n \notin input.bb) =>
                 design[n].impl # NoName

(* The tops of the user's design are never cloned, hence never removed.    *)
TopsOK == \A n \in Tops : n \in DOMAIN design \ toRemove /\ design[n].impl = NoName

(* Cells of a module are told apart by instance and path, and instantiate  *)
(* modules of a lower rank.                                                *)
CellsOf(n, C) ==
    /\ IsFiniteSet(C)
    /\ \A c, k \in C : c.inst = k.inst /\ c.path = k.path => c = k
    /\ \A c \in C : c.type \notin Primitive => Rank(c.type) < Rank(n)

CellsOK == \A n \in DOMAIN design : CellsOf(n, design[n].cells)

(* A clone for a path stands for what it was cloned from.                  *)
SameAs(n, k) == Base(n) = Base(k) /\ Variant(n) = Variant(k) /\ Rank(n) = Rank(k)

FrameCells(i) ==
    LET f == stack[i]
    IN  /\ f.cells \subseteq design[f.mod].cells
        /\ f.cell \in design[f.owner].cells
        /\ f.cell.type \in DOMAIN design
        /\ SameAs(f.mod, f.cell.type)
        /\ Rank(f.mod) < Rank(wrapper)
        /\ i < Len(stack) => f.owner = stack[i + 1].mod /\ f.cell \notin stack[i + 1].cells
        /\ \A j \in i + 1..Len(stack) : Rank(f.mod) < Rank(stack[j].mod)

(* The instances of the template are there until their path is reached.    *)
FramesOK ==
    /\ pc = "full" => \A i \in path..3 : Duplicate(Template(wrapper), i) \in design[wrapper].cells
    /\ \A i \in 1..Len(stack) : FrameCells(i)

ProtectionInv ==
    /\ AccountsOK
    /\ SourceOK
    /\ MarkedOK
    /\ ReachedOK
    /\ TopsOK
    /\ CellsOK
    /\ FramesOK
=============================================================================
