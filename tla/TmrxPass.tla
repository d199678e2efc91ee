------------------------------ MODULE TmrxPass ------------------------------
(***************************************************************************)
(* The two Yosys passes of the plugin as one sequential program: tmrx_mark *)
(* (mark_pass.cc), the technology mapping that the flow runs in between,   *)
(* and tmrx (tmrx_pass.cc), whose steps on the module hierarchy are those  *)
(* of logicTmrExpansion and fullModuleTmrExpansion.                        *)
(*                                                                         *)
(* The model keeps which modules exist, what each instantiates, whether    *)
(* the ports of a module are the ones written by the user ("base") or the  *)
(* expanded ones ("tri"), the attributes the passes communicate through,   *)
(* and which register copies get voters.  Wires, voter cells and the       *)
(* tmr_domain attributes (which no code reads) are left out.               *)
(***************************************************************************)
EXTENDS Naturals, Sequences, FiniteSets, FiniteSetsExt, SequencesExt

CONSTANTS
    User,       \* identifiers of the modules of the user's design
    Instance,   \* names of the cells in it
    Level,      \* [User -> Nat]: a module only instantiates lower levels
    Inputs,     \* the designs, configurations and selections to explore
    Letter,     \* what names are written with
    Spellings   \* ways to write them: [User \cup Suffix -> Seq(Letter)]

-----------------------------------------------------------------------------
(* Identifiers.  A module name is the sequence of the strings that the     *)
(* code concatenates: <<"alu">>, <<"alu", "_tmrx_impl">>, ...  It tells    *)
(* what the module was made from; the code only has the text, which tells  *)
(* the same as long as NamesFresh holds.                                   *)

ImplSuffix   == "_tmrx_impl"
WorkerSuffix == "_tmrx_worker"
PathSuffix   == <<"_a", "_b", "_c">>
PathSuffixes == {PathSuffix[i] : i \in 1..3}
Suffix       == {ImplSuffix, WorkerSuffix} \cup PathSuffixes

Token  == User \cup Suffix \cup {"$dff", "libdff"}
Name   == Seq(Token)
NoName == <<>>

BuiltinFf   == <<"$dff">>       \* the type of a flip-flop before mapping
LibraryFf   == <<"libdff">>     \* its type afterwards: an opaque library cell
Primitive   == {BuiltinFf, LibraryFf}

UserName == {<<u>> : u \in User}

(* How a name reads if its tokens are written as `sp' says.                *)
Text(sp, n) == FlattenSeq([k \in 1..Len(n) |-> sp[n[k]]])

(* A cell: the instance in the source it comes from, the TMR path of the   *)
(* copy ("" when it is not one), the type, the shape of the ports it is    *)
(* connected by, and whether voters follow its outputs.                    *)
Shape  == {"base", "tri"}
CellName == Instance \cup {"worker"}
Cell   == [inst: CellName, path: PathSuffixes \cup {""}, type: Name,
           ports: Shape, voted: BOOLEAN]
Module == [ports: Shape, proper: BOOLEAN, bb: BOOLEAN, impl: Name,
           cells: SUBSET Cell]

Mode   == {"None", "Logic", "Full"}
Config == [mode: Mode, preserve: BOOLEAN, prevent: BOOLEAN,
           ffVoter: BOOLEAN, ffCells: SUBSET Primitive,
           excludedFf: SUBSET Primitive]

(* What validateCfg enforces on the configuration of a module: None keeps  *)
(* the ports, and a blackbox is not expanded by LogicTMR.                  *)
Validated(cfg, isBlackbox) ==
    /\ cfg.mode = "None" => cfg.preserve
    /\ isBlackbox => cfg.mode # "Logic"

(* What a run starts from: the instances of each module (name -> type, the *)
(* dictionary cells_ of RTLIL), the blackboxes, the final configuration of *)
(* each module, the global one, whether the flow maps flip-flops between   *)
(* the passes, and the modules selected for each pass.                     *)
InputType(i) ==
    /\ i.cells \in [User -> SUBSET (Instance \X (UserName \cup {BuiltinFf}))]
    /\ i.bb \subseteq UserName
    /\ \A u \in User : \A e, f \in i.cells[u] : e[1] = f[1] => e = f
    /\ \A u \in User : <<u>> \in i.bb => i.cells[u] = {}
    /\ i.cfg \in [UserName -> Config]
    /\ \A n \in UserName : Validated(i.cfg[n], n \in i.bb)
    /\ i.global \in Config
    /\ i.mapped \in BOOLEAN
    /\ i.markSel \subseteq UserName
    /\ i.tmrxSel \subseteq UserName

ASSUME UserAssumption ==
    /\ User \cap (Suffix \cup {"$dff", "libdff"}) = {}
    /\ "worker" \notin Instance

(* Yosys rejects recursive hierarchies before the passes run.              *)
ASSUME LevelAssumption ==
    /\ Level \in [User -> Nat]
    /\ \A i \in Inputs, u, v \in User :
         (\E e \in i.cells[u] : e[2] = <<v>>) => Level[v] < Level[u]

ASSUME InputsAssumption == \A i \in Inputs : InputType(i)

(* A netlist is finite: the numbers of copies of its cells can be summed.  *)
ASSUME FiniteAssumption == \A i \in Inputs, u \in User : IsFiniteSet(i.cells[u])

(* No two modules of the user's design have the same name.                 *)
ASSUME SpellingAssumption ==
    \A sp \in Spellings :
        /\ \A x \in User \cup Suffix : sp[x] \in Seq(Letter)
        /\ \A u, v \in User : sp[u] = sp[v] => u = v

-----------------------------------------------------------------------------
VARIABLES
    input,      \* the chosen member of Inputs; never changes
    pc,         \* the phase of the flow
    design,     \* module name -> Module; its domain is the design's modules
    ffSources,  \* module name -> source locations of its flip-flops
    edges,      \* the dependency graph of the topological sort
    todo,       \* its nodes that the main loop has not reached yet
    wrapper,    \* the module fullModuleTmrExpansion is working on
    path,       \* the TMR path it has reached
    stack,      \* the activations of uniquifySubmodulesRecursive
    toRemove    \* originals the cleanup loop has not looked at yet

vars == <<input, pc, design, ffSources, edges, todo, wrapper, path, stack,
          toRemove>>

Phase == {"mark", "synth", "plan", "process", "full", "cleanup", "done"}

(* One activation of uniquifySubmodulesRecursive: the module it works in,  *)
(* the cells it has not visited, and the cell (of module `owner') whose    *)
(* type is set to `mod' when it returns.                                   *)
Frame == [mod: Name, cells: SUBSET Cell, owner: Name, cell: Cell]

TypeOK ==
    /\ InputType(input)
    /\ pc \in Phase
    /\ DOMAIN design \subseteq Name
    /\ \A n \in DOMAIN design : design[n] \in Module
    /\ DOMAIN ffSources \subseteq UserName
    /\ \A n \in DOMAIN ffSources : ffSources[n] \subseteq CellName
    /\ edges \subseteq UserName \X UserName
    /\ todo \subseteq UserName
    /\ wrapper \in Name
    /\ path \in 0..4
    /\ stack \in Seq(Frame)
    /\ toRemove \subseteq Name

-----------------------------------------------------------------------------
(* Operations of RTLIL::Design.                                            *)

Put(d, n, m) == [x \in DOMAIN d \cup {n} |-> IF x = n THEN m ELSE d[x]]
Drop(d, n)   == [x \in DOMAIN d \ {n} |-> d[x]]

Retype(d, n, c, t) ==
    [d EXCEPT ![n].cells = (@ \ {c}) \cup {[c EXCEPT !.type = t]}]

(* ConfigManager::getConfig looks a module up by its current name; a module*)
(* that the passes create has no configuration of its own.                 *)
ConfigOf(n) == IF n \in UserName THEN input.cfg[n] ELSE input.global

IsProper(d, n) == n \in DOMAIN d /\ d[n].proper

(* Cells that are treated as logic: primitives, unmarked modules, blackboxes*)
IsLogicTree(d, c) == IsProper(d, c.type) => d[c.type].bb

-----------------------------------------------------------------------------
(* tmrx_mark, and the mapping step of the flow.                            *)

Sources(d, n) == {c.inst : c \in {k \in d[n].cells : k.type = BuiltinFf}}

Mark ==
    /\ pc = "mark"
    /\ LET scanned == {p \in input.markSel : ~design[p].bb}
           Instantiated(n) == \E p \in scanned : \E c \in design[p].cells : c.type = n
       IN  /\ ffSources' = [p \in scanned |-> Sources(design, p)]
           /\ design' = [n \in DOMAIN design |->
                           [design[n] EXCEPT !.proper = @ \/ Instantiated(n)]]
    /\ pc' = "synth"
    /\ UNCHANGED <<input, edges, todo, wrapper, path, stack, toRemove>>

(* dfflibmap keeps the name, the connections and `src' of a flip-flop and  *)
(* gives it a library type.                                                *)
MapCell(c) == IF c.type = BuiltinFf THEN [c EXCEPT !.type = LibraryFf] ELSE c

Synthesize ==
    /\ pc = "synth"
    /\ design' = IF input.mapped
                 THEN [n \in DOMAIN design |->
                         [design[n] EXCEPT !.cells = {MapCell(c) : c \in @}]]
                 ELSE design
    /\ pc' = "plan"
    /\ UNCHANGED <<input, ffSources, edges, todo, wrapper, path, stack, toRemove>>

-----------------------------------------------------------------------------
(* tmrx: the dependency graph and the main loop.                           *)

PlanUnresolved ==       \* mutant: types that are no design module become nodes
    /\ pc = "plan"
    /\ edges' = {}
    /\ todo' = UNION {{m} \cup {c.type : c \in design[m].cells} : m \in input.tmrxSel}
    /\ pc' = "process"
    /\ UNCHANGED <<input, design, ffSources, wrapper, path, stack, toRemove>>

Plan ==
    /\ pc = "plan"
    /\ LET selected == {m \in input.tmrxSel : ~design[m].bb}
           deps == {e \in selected \X UserName :
                      /\ \E c \in design[e[1]].cells : c.type = e[2]
                      /\ IsProper(design, e[2])}
       IN  /\ edges' = deps
           /\ todo' = selected \cup {e[2] : e \in deps}
    /\ pc' = "process"
    /\ UNCHANGED <<input, design, ffSources, wrapper, path, stack, toRemove>>

(* The sorted list is walked backwards: a module is reached only after all *)
(* the modules it depends on.  Any such order is allowed.                  *)
Ready(m) == m \in todo /\ \A e \in edges : e[1] = m => e[2] \notin todo

SkippedNone(m) == ConfigOf(m).mode = "None"     \* mutant: blackboxes expanded
Skipped(m) == design[m].bb \/ ConfigOf(m).mode = "None"

SkipModule(m) ==
    /\ pc = "process"
    /\ Ready(m)
    /\ Skipped(m)
    /\ todo' = todo \ {m}
    /\ UNCHANGED <<input, pc, design, ffSources, edges, wrapper, path, stack,
                   toRemove>>

InPlace(m) == m         \* mutant: no clone, expand the original

(* The module that is expanded: m itself, or a clone that leaves m as is.  *)
Target(m) == IF ~ConfigOf(m).preserve /\ design[m].proper
             THEN Append(m, ImplSuffix) ELSE m

WithTarget(m) ==
    LET t == Target(m)
    IN  IF t = m THEN design
        ELSE Put([design EXCEPT ![m].impl = t], t, [design[m] EXCEPT !.proper = TRUE])

-----------------------------------------------------------------------------
(* logicTmrExpansion, as far as the hierarchy can tell.                    *)

IsFlipFlopNotListed(c, n, cfg) ==       \* mutant: configured cells ignored
    \/ c.type = BuiltinFf
    \/ n \in DOMAIN ffSources /\ c.inst \in ffSources[n]

(* isFlipFlop, with `n' the name of the module being expanded.             *)
IsFlipFlop(c, n, cfg) ==
    /\ c.type \notin cfg.excludedFf
    /\ \/ c.type = BuiltinFf
       \/ n \in DOMAIN ffSources /\ c.inst \in ffSources[n]
       \/ c.type \in cfg.ffCells

Triplicate(c, n, cfg) ==
    {[c EXCEPT !.path = PathSuffix[i],
               !.voted = cfg.ffVoter /\ IsFlipFlop(c, n, cfg)] : i \in 1..3}

NotRemapped(d, c) == c  \* mutant: tmrx_impl_module ignored

(* resolveSubmodule and connectSubmodulePorts: the cell follows the        *)
(* tmrx_impl_module attribute and is reconnected to the ports of its type. *)
Resolve(d, c) ==
    LET eff == IF d[c.type].impl # NoName THEN d[c.type].impl ELSE c.type
    IN  [c EXCEPT !.type = eff, !.ports = d[eff].ports]

ExpandedCells(d, n, cfg) ==
    UNION {IF IsLogicTree(d, c) THEN Triplicate(c, n, cfg) ELSE {Resolve(d, c)}
             : c \in d[n].cells}

LogicTmrExpansion(d, n, cfg) ==
    [d EXCEPT ![n].cells = ExpandedCells(d, n, cfg),
              ![n].ports = IF cfg.preserve THEN "base" ELSE "tri"]

ExpandLogic(m) ==
    /\ pc = "process"
    /\ Ready(m)
    /\ ~Skipped(m)
    /\ ConfigOf(m).mode = "Logic"
    /\ design' = LogicTmrExpansion(WithTarget(m), Target(m), ConfigOf(m))
    /\ todo' = todo \ {m}
    /\ UNCHANGED <<input, pc, ffSources, edges, wrapper, path, stack, toRemove>>

-----------------------------------------------------------------------------
(* fullModuleTmrExpansion.                                                 *)

Template(n)   == Append(n, WorkerSuffix)
OneWorkerName(i) == Append(Template(wrapper), PathSuffix[1])    \* mutant
WorkerName(i) == Append(Template(wrapper), PathSuffix[i])

Duplicate(t, i) == [inst |-> "worker", path |-> PathSuffix[i], type |-> t,
                    ports |-> "base", voted |-> FALSE]

(* The module becomes the template of the workers, and a wrapper with three*)
(* instances of the template takes its name.                               *)
Wrap(d, n, cfg) ==
    Put(Put(d, Template(n), d[n]), n,
        [ports  |-> IF cfg.preserve THEN "base" ELSE "tri",
         proper |-> TRUE, bb |-> FALSE, impl |-> NoName,
         cells  |-> {Duplicate(Template(n), i) : i \in 1..3}])

StartFull(m) ==
    /\ pc = "process"
    /\ Ready(m)
    /\ ~Skipped(m)
    /\ ConfigOf(m).mode = "Full"
    /\ design' = Wrap(WithTarget(m), Target(m), ConfigOf(m))
    /\ todo' = todo \ {m}
    /\ wrapper' = Target(m)
    /\ path' = 1
    /\ pc' = "full"
    /\ UNCHANGED <<input, ffSources, edges, stack, toRemove>>

(* One worker per path is cloned from the template ...                     *)
CloneWorker ==
    /\ pc = "full"
    /\ stack = <<>>
    /\ path \in 1..3
    /\ LET t == Template(wrapper)
       IN  /\ design' = Put(design, WorkerName(path), [design[t] EXCEPT !.proper = TRUE])
           /\ stack' = <<[mod |-> WorkerName(path), cells |-> design[t].cells,
                          owner |-> wrapper, cell |-> Duplicate(t, path)]>>
    /\ UNCHANGED <<input, pc, ffSources, edges, todo, wrapper, path, toRemove>>

(* ... and the submodules below it are made its own, cell by cell.         *)
IsExempt(n) == ConfigOf(n).prevent \/ (ConfigOf(n).mode = "Logic" /\ ConfigOf(n).preserve)

KeepsType(c) == IsProper(design, c.type) => (IsExempt(c.type) \/ design[c.type].bb)

FirstPathName(c) == Append(c.type, PathSuffix[1])       \* mutant
UniqueName(c) == Append(c.type, PathSuffix[path])

(* The activation on top of the stack, without the cell it visits.         *)
Visited(c) == [stack EXCEPT ![1].cells = @ \ {c}]

LeaveCell(c) ==
    /\ KeepsType(c)
    /\ stack' = Visited(c)
    /\ UNCHANGED design

ReuseClone(c) ==
    /\ ~KeepsType(c)
    /\ UniqueName(c) \in DOMAIN design
    /\ design' = Retype(design, stack[1].mod, c, UniqueName(c))
    /\ stack' = Visited(c)

RecurseIntoOriginal(c) ==       \* mutant: recursion on the module cloned from
    /\ ~KeepsType(c)
    /\ UniqueName(c) \notin DOMAIN design
    /\ design' = Put(design, UniqueName(c), design[c.type])
    /\ stack' = <<[mod |-> c.type, cells |-> design[c.type].cells,
                   owner |-> stack[1].mod, cell |-> c]>> \o Visited(c)

CloneSubmodule(c) ==
    /\ ~KeepsType(c)
    /\ UniqueName(c) \notin DOMAIN design
    /\ design' = Put(design, UniqueName(c),
                     [design[c.type] EXCEPT !.proper = TRUE, !.impl = NoName])
    /\ stack' = <<[mod |-> UniqueName(c), cells |-> design[c.type].cells,
                   owner |-> stack[1].mod, cell |-> c]>> \o Visited(c)

VisitCell ==
    /\ pc = "full"
    /\ stack # <<>>
    /\ \E c \in stack[1].cells : LeaveCell(c) \/ ReuseClone(c) \/ CloneSubmodule(c)
    /\ UNCHANGED <<input, pc, ffSources, edges, todo, wrapper, path, toRemove>>

(* An activation returns: the cell it was for gets the new type.  The      *)
(* return of the outermost one retypes the wrapper's instance.             *)
Return ==
    /\ pc = "full"
    /\ stack # <<>>
    /\ stack[1].cells = {}
    /\ design' = Retype(design, stack[1].owner, stack[1].cell, stack[1].mod)
    /\ stack' = Tail(stack)
    /\ path' = IF Len(stack) = 1 THEN path + 1 ELSE path
    /\ UNCHANGED <<input, pc, ffSources, edges, todo, wrapper, toRemove>>

FinishFull ==
    /\ pc = "full"
    /\ stack = <<>>
    /\ path = 4
    /\ design' = Drop(design, Template(wrapper))
    /\ wrapper' = NoName
    /\ path' = 0
    /\ pc' = "process"
    /\ UNCHANGED <<input, ffSources, edges, todo, stack, toRemove>>

-----------------------------------------------------------------------------
(* tmrx: the cleanup loop.                                                 *)

StartCleanup ==
    /\ pc = "process"
    /\ todo = {}
    /\ toRemove' = {n \in DOMAIN design : design[n].impl # NoName}
    /\ pc' = "cleanup"
    /\ UNCHANGED <<input, design, ffSources, edges, todo, wrapper, path, stack>>

ReferencedByKept(n) ==  \* mutant: other originals do not count
    \E m \in DOMAIN design \ toRemove : \E c \in design[m].cells : c.type = n

StillReferenced(n) == \E m \in DOMAIN design : \E c \in design[m].cells : c.type = n

RetryReferenced(n) ==   \* mutant: a referenced original is looked at again
    /\ pc = "cleanup"
    /\ n \in toRemove
    /\ design' = IF StillReferenced(n) THEN design ELSE Drop(design, n)
    /\ toRemove' = IF StillReferenced(n) THEN toRemove ELSE toRemove \ {n}
    /\ UNCHANGED <<input, pc, ffSources, edges, todo, wrapper, path, stack>>

(* The originals come in the hash order of the design's modules: any.      *)
CleanupOne(n) ==
    /\ pc = "cleanup"
    /\ n \in toRemove
    /\ design' = IF StillReferenced(n) THEN design ELSE Drop(design, n)
    /\ toRemove' = toRemove \ {n}
    /\ UNCHANGED <<input, pc, ffSources, edges, todo, wrapper, path, stack>>

Finish ==
    /\ pc = "cleanup"
    /\ toRemove = {}
    /\ pc' = "done"
    /\ UNCHANGED <<input, design, ffSources, edges, todo, wrapper, path, stack,
                   toRemove>>

Terminated == pc = "done" /\ UNCHANGED vars

-----------------------------------------------------------------------------
UserCell(e) == [inst |-> e[1], path |-> "", type |-> e[2], ports |-> "base",
                voted |-> FALSE]

UserModule(u) ==
    [ports |-> "base", proper |-> FALSE, bb |-> <<u>> \in input.bb, impl |-> NoName,
     cells |-> {UserCell(e) : e \in input.cells[u]}]

Init ==
    /\ input \in Inputs
    /\ pc = "mark"
    /\ design = [n \in UserName |-> UserModule(n[1])]
    /\ ffSources = [n \in {} |-> {}]
    /\ edges = {}
    /\ todo = {}
    /\ wrapper = NoName
    /\ path = 0
    /\ stack = <<>>
    /\ toRemove = {}

Next ==
    \/ Mark
    \/ Synthesize
    \/ Plan
    \/ \E m \in todo : SkipModule(m) \/ ExpandLogic(m) \/ StartFull(m)
    \/ CloneWorker
    \/ VisitCell
    \/ Return
    \/ FinishFull
    \/ StartCleanup
    \/ \E n \in toRemove : CleanupOne(n)
    \/ Finish
    \/ Terminated

Spec == Init /\ [][Next]_vars

(* Yosys runs a pass to its end: the next step is always taken.            *)
FairSpec == Spec /\ WF_vars(Next)
=============================================================================
