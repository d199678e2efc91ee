# TMRX in TLA+

TMRX is a Yosys plugin that makes a netlist triple-redundant. These modules model it three
times over: how it finds out the configuration of every module (`ConfigManager`), how its two
passes rewrite a *module hierarchy* (`TmrxPass`), and how they rewrite *netlists*, whose result
is then run while single cells fail (`TmrCircuit`). TLC checks all three on small designs; TLAPS
proves results on the hierarchy and the configuration for every design, and for the circuits that
every netlist which passes a check of its structure masks a failing path, heals and reports.

Paths below are relative to the repository (`src/tmrx_pass.cc`, `include/...`, `docs/...`).

## The system

| Part | State | Operations | Interacts through |
| --- | --- | --- | --- |
| mark pass (`mark_pass.cc`) | attribute `tmrx_is_proper_submodule`, table `ffSources` | marks the children of selected modules, records where flip-flops come from | attributes and the table, read by `tmrx` |
| pass driver (`tmrx_pass.cc`) | processing order, attribute `tmrx_impl_module`, list of originals | leaf-first loop, `_tmrx_impl` clone, dispatch, cleanup | calls the expansions; reads configurations |
| LogicTMR (`tmrx_logic_expansion.cc`) | maps of wires, outputs and flip-flops; file-scope clock and reset nets | duplicate, connect submodules, rename, vote, collect errors | reads what earlier iterations did to children |
| FullModuleTMR (`tmrx_mod_expansion.cc`) | wrapper, template, recursion over submodules | wrap, vote, clone workers, make them unique, drop the template | clones modules other parents use |
| voters and errors (`tmrx_utils.cc`) | voter modules | `insertVoter`, safe mode, `connectErrorSignal` | called by both expansions |
| flip-flop detection (`tmrx_utils.cc`) | `ffSources` | `isFlipFlop` | technology mapping runs between the passes |
| configuration (`config_manager.cc`) | configuration per module name | parsing, precedence, `validateCfg`, `getConfig` | looked up by name, generated names get the global one |

The program is sequential. What is hard is not concurrency but order and staleness: the
design is changed in place while it is iterated, names carry meaning and change, iteration
follows hash tables, each module is expanded on what was made of its children, and the
netlist that comes out must survive any single upset at any time. `PROJECT.json` lists these
hazards line by line. What makes each part correct:

* driver, FullModuleTMR, mark: no dangling instance, ports agree, fresh names, independent
  workers, originals and blackboxes intact, replication as documented, termination;
* LogicTMR, wrapper, voters: every net has one driver, the expanded circuit behaves like the
  original under single faults, hit registers heal, a fully connected design is accepted;
* error aggregation: the top error output is high exactly when some voter sees a difference;
* configuration: the documented precedence for every module, valid results although
  configurations are shared while they are corrected, custom voters found and never expanded,
  the global section intact for generated modules, refusal only with reason, termination.

## Modules

| Module | Models |
| --- | --- |
| `TmrxPass` | both passes on the hierarchy; one action per step of the driver, of `fullModuleTmrExpansion` and of its recursion |
| `TmrxPassProperties` | what the passes promise about the hierarchy |
| `TmrxPassInvariant` | its inductive invariants |
| `TmrxPassProofs` | `HierarchyInv` and what follows from it |
| `TmrxPassIdentityProofs` | what each action does to every module, cell and activation; fresh names, blackboxes and originals |
| `TmrxPassCellProofs` | ports and registers |
| `TmrxPassWorkerProofs` | independence of the workers |
| `TmrxPassProtectionProofs` | replication as documented |
| `MCTmrxPass` | its instances for TLC |
| `Netlist` | netlists of 1-bit wires, flattening, evaluation, the clock tick |
| `TmrxUtils` | clock/reset/error wires, `insertVoter`, `connectErrorSignal` |
| `LogicTmr` | `logicTmrExpansion`, one operator per function of the file |
| `FullModuleTmr` | the wrapper netlist of `fullModuleTmrExpansion` |
| `Circuit` | abstract specification: the circuit the user wrote |
| `TmrCircuit` | the expansion loop, then the expanded circuit with upsets |
| `TmrCircuitProperties`, `MCTmrCircuit` | its properties (with the refinement of `Circuit`) and instances |
| `TmrCircuitMasking` | the checks of a netlist from which masking, healing, error reports and clocked voters follow: symbolic evaluation with one path unknown, and what may raise a net |
| `TmrCircuitProofs` | types, the refinement of `Circuit`, healing, errors and controls, for every netlist that passes the checks |
| `ConfigOptions` | options, (partial) configurations, the file, the attributes, the defaults |
| `ConfigManager` | the constructor of `ConfigManager`, one action per phase and per visit of a loop |
| `Configuration` | abstract specification: the documented configuration of every module, in one step |
| `ConfigManagerProperties`, `MCConfigManager` | its properties (with the refinement of `Configuration`) and instances |
| `ConfigManagerInvariant` | its inductive invariants |
| `ConfigManagerProofs` | types, validation, templates and the global section |
| `ConfigManagerRefinement` | the configuration manager implements `Configuration` |

The three models meet in two places. `Validated` of `ConfigManagerProperties`, proved for every
input, is what `TmrxPass` assumes of the configurations it starts from (its `Validated`), and the
`global` configuration that `TmrxPass` and `TmrCircuit` give to generated modules is the one
`GlobalConfigKept` is about. The dispatch, the clones and the names of `TmrxPass` are those of
`TmrCircuit`, which keeps no originals.

### The hierarchy model

`design` maps module names to modules. A name is the sequence of strings the code
concatenates, `<<"alu", "_tmrx_impl", "_a">>`: it tells what a module was made from. The code only
has the text, in which nothing keeps these strings apart. `Text` is what a name reads like if the
user's modules and the suffixes are written as a member of `Spellings` says, and `NamesFresh` is the
condition under which looking a module up by its text, as the code does, and by its name, as the
model does, is the same; it holds for every spelling that is `Decodable` (no suffix ends in another,
no module of the user is called like another one with something added that ends in a suffix). A module keeps the shape of its ports (`base` or `tri`), its attributes and its
cells; a cell keeps its type, its path, the shape it is connected by, and whether it is
voted. `ffSources` outlives `tmrx_mark` as in the plugin.

`Mark` is `tmrx_mark`; `Synthesize` stands for the mapping the flow runs in between, in
which flip-flops may become library cells; `Plan` is the topological sort;
`SkipModule`/`ExpandLogic`/`StartFull` are one iteration of the driver's loop; `CloneWorker`, `VisitCell`
(`LeaveCell`, `ReuseClone`, `CloneSubmodule`), `Return` and `FinishFull` are the worker loop and
`uniquifySubmodulesRecursive`, with its activations on `stack`; `StartCleanup`, `CleanupOne`,
`Finish` are the cleanup. Modules, cells and originals are taken in any order the hash
tables may yield.

### The circuit model

A module has sets of wires and ports, cells that name a wire per port, and connections.
RTLIL connections are undirected joins of wires here, except where the code itself looks at
the direction (`isSignalUnconnected`). `StartLogic` duplicates the logic,
`ConnectSubmodule` connects one submodule (in any order), `FinishLogic` renames, votes and
connects the error signal; `ExpandFull` builds the wrapper. Their stages (`InsertFfVoters`,
`MergeOutputs`, `SinkErrors`, ...) are operators from one state of the expansion to the next. `PowerOn` flattens the result. Then
`Tick` clocks it with any input and `Upset` makes one cell put out the wrong value until the
next tick. Values of all nets are in `val`.

An upset hits a cell that belongs to a path (`_a`, `_b`, `_c` of a copy, or the worker it is in)
and only while no copy on *another* path deviates: the assumption triple redundancy makes.
Single cells that no path owns (the voter of a preserved output, modules in mode None) are
outside the promise. Nets nobody drives have either value, fixed at power-on.

A custom voter is a voter with further input ports. `ControlWires` says what `insertVoter`
connects to its clock and reset ports: the configured net, else the first clock or reset wire of
the module, else nothing. Built-in voters have no such ports.

Observed registers are the majority of their copies, observed expanded outputs the majority
of their three ports; under this mapping `BehavesAsOriginal` is `Circuit`'s specification.

### The configuration model

A module name is the sequence of the strings between its `$` signs, so the base name of
`\sub$top.u` is `<<"sub">>` and that of `$paramod$sub` is `<<"">>`, as `substr` yields. Strings come
from the constant `String`, which only has to contain the names the code itself uses. A scope of
the file sets options to anything; modes and voters that are no such are dropped
(`Understood`). That every key is known to its table is one flag of the file (`known`): its only
effect is to end the pass.

`RefuseFile`/`ReadFile` read the file, `ReadAttributes` the attributes (and adds black boxes to
their group), `Assemble` stacks the layers of every module; one `SkipDefaultVoter`, `LoadVoter` or
`RejectVoter` visits one entry for `loadCustomVoters`, one `AcceptConfig` or `RejectConfig` one module
for `validateCfg`, both in any order. `finalModuleCfgs`, `globalCfg`, `loadedFiles` and the others are the
members of the class. What `validateCfg` changes goes, as in the code, to the entry of the module or,
if it has none, to the global configuration. `read_verilog` and `proc` of Yosys are modelled by what
they do to the design: `proc` runs on the *whole* design, which may turn a black box into none
between the two phases that ask.

`Configuration` states the documentation as one step: `Cascade` is the precedence, `SoundVoter` what
makes a voter acceptable, `Corrected` what validation may change. It leaves open what depends on
the order of loading: a module that is a template and asks for a custom voter itself is given the
template's configuration or its own.

## Runs

| Run | Question | Instance |
| --- | --- | --- |
| `whole_design` | Is the hierarchy consistent at every step, is it replicated as documented at the end, and do the passes end? | T, M, L in a chain, a diamond and with two instances; all modes and options; a blackbox leaf; two global defaults, one exempt from renaming; tmrx on any subset of the modules; mapped registers that only their source tells; names as in the documentation, and names that come close to being read in two ways |
| `circuits` | Is the expanded netlist well formed, equivalent under single upsets, self-healing, does it report exactly what voters see, and are custom voters clocked? Does its structure alone tell so? | all mode mixes of two designs with two levels, most of one with three, clock/reset expansions, gated and divided clocks, no flip-flop voters, error sinks in modules of both strategies, custom voters with clock and reset ports |
| `configuration` | Does every module end with the documented configuration, whatever the order of loading, and is nothing refused without reason? | every subset of the seven layers for names of three shapes; black boxes of every kind; 19 requests for a voter against designs that already have one; voters with helpers; files and values that are wrong |
| `kept_originals` | violated: a kept original may be unreachable (`tmrx_pass.cc:130`) | chain |
| `shared_workers` | violated: outer workers share inner ones (`tmrx_mod_expansion.cc:22`) | nested FullModuleTMR |
| `mapped_registers` | violated: mapped flip-flops of a clone are not voted (`tmrx_utils.cc:34`) | chain, no `ff_cells` |
| `select_one` | violated: ports do not match after selecting one submodule (`tmrx_pass.cc:89`) | chain |
| `auto_ports` | violated: a child's automatic error port is not collected (`tmrx_utils.cc:530`) | T and M with `auto_error_port` |
| `nested_errors` | violated: error sinks below FullModuleTMR workers stay open (`tmrx_mod_expansion.cc:125`) | FullModuleTMR over LogicTMR |
| `clock_outputs` | violated: three drivers on a shared clock output (`tmrx_logic_expansion.cc:41`) | a clock divider |
| `cell_orders` | violated: safe mode refuses a connected chain in one cell order (`tmrx_logic_expansion.cc:528`) | two instances in a row |
| `voter_helpers` | violated: a module instantiated by a custom voter is expanded in place (`config_manager.cc:666`) | a voter with a helper |

Each violation run checks one statement of the documentation or of a comment, quoted in
`PROJECT.json` under `findings`.

**Bounds.** Three levels are the least at which a clone's clone, a shared child with two
parents and an original referenced by an original exist. The circuits have two or three levels, two
registers and one data input, so that feedback, feed-through and a child between two pieces of
parent logic occur; the middle one of three modules is both a child and a parent, and an error goes through two of them. Each register carries one bit: expansion is per wire, and vectors only repeat
it. `LogicDepth` (12) bounds the levels of gates; a deeper netlist would be reported by
`DrivenOnce`. Runs are not bounded in time: the state spaces are exhausted. The `circuits` run leaves out
what the violation runs show (safe mode with chains, automatic ports in a child, clock
outputs of LogicTMR).
The FullModuleTMR wrapper ORs its old, undriven error sink into the new one (`tmrx_utils.cc:558`):
`DrivenOnce` allows this floating net and no other, and `ErrorOnlyOnDisagreement` speaks of the
runs in which it reads 0. A configuration has two modules (up to five with a voter and its
helpers): a layer never looks at a third module, an alias needs two. Every layer sets one
option to a value of its own, and five of the seven the mode, too.

**Fairness.** `FairSpec` of `TmrxPass` and `ConfigManager` adds `WF_vars(Next)`: Yosys runs a pass to its
end, so a step that is possible is taken. Only `Termination` needs it: the recursion and the cleanup work on a
design they change, and `loadCustomVoters` inserts into the table it walks through.

**Healing.** `RegistersRecover` asks for voters after every triplicated register and for a tick that
clocks every register: a register whose gated clock is off keeps what it has, right or wrong.

## Proofs

Every theorem is about `Spec`, for every value of the constants that satisfies the assumptions named in the
modules: an acyclic hierarchy (a module instantiates lower levels) of modules with finitely many cells and
well-formed inputs for `TmrxPass`, and any ways to write names that give the user's modules different texts; any set of strings that has the names the code uses and inputs of the right type for `ConfigManager`; `TmrCircuit`
assumes nothing.

| Theorem | States | From |
| --- | --- | --- |
| `HierarchyInvariant`, `TypeCorrect`, `NoDangling` | `TypeOK`, no dangling instance | `HierarchyInv` |
| `NamesFreshHolds` | for every decodable spelling: no text is given twice, and what the recursion finds by its text is the clone it looks for | `HierarchyInv`, `IdentityInv`, `NamesGenerated` |
| `BlackboxesUntouchedHolds`, `OriginalsUntouchedHolds` | no step changes a blackbox, a module in mode None or a cloned original | the same |
| `PortsMatchHolds` | `InstancesSelected` implies that cells fit the ports of their modules | and `PortsInv` |
| `RegistersVotedHolds` | `RegistersRecognised` implies that every copy of a register is voted | and `RegistersInv` |
| `WorkersIndependentHolds` | `InstancesSelected` implies that workers share no module that is not configured to be shared | and `PortsInv`, `WorkersInv`, `WorkersAreModules` |
| `ProtectionHolds` | `InstancesSelected` implies that, with every module selected for `tmrx`, the logic below every top is replicated as documented (`ProtectionAsDocumented`) | `HierarchyInv`, `IdentityInv`, `PortsInv`, `ProtectionInv` |
| `TypeCorrect`, `ValidatedHolds`, `TemplatesExemptHolds`, `GlobalConfigKeptHolds` | of the configuration | `ConfigManagerInv` |
| `ConfigurationAsDocumentedHolds` | `ConfigManager` implements `Configuration` | and `AnswerInv` |
| `CircuitTyped` | `TypeOK` of `TmrCircuit` | `Typed` |
| `MaskingRefines` | `MasksEachPath` implies that `TmrCircuit` implements `Circuit` (`BehavesAsOriginal`) | and `CircuitInvariant` |
| `RestoringRecovers` | `MasksEachPath` and `RestoresEachPath` imply `RegistersRecover` | and `CircuitInvariant` |
| `ErrorsReported`, `NoFalseErrors` | `ErrorsCollected` implies `ErrorsReachTop` and `ErrorOnlyOnDisagreement` | `Reporting` |
| `VotersAreControlled` | `VotersWired` implies `VotersControlled` | `Wired` |

**No dangling instance.** `NoDanglingCells` is not inductive. That no reference is left when a template is
removed needs `TemplateOK` (outside the wrapper nothing instantiates the template, and in the wrapper only
the instances of paths still to come); that a retyped cell hits an existing module needs
`StackOK` (every activation of the recursion works on an existing clone); that a clone never
takes the place of a template or of a user's module needs `NamesOK` and `TodoOK`; that the recursion
never meets the wrapper it is working for needs `LevelsOK`; and that LogicTMR remaps only to
existing clones needs `ImplOK`. Together they are `HierarchyInv`. The proof has one lemma per
action; `AddClone` and `RetypeCell` hold what the steps of the recursion share, and the lemmas
on names (`GeneratedName`, `PathName`) the arithmetic of suffixes.

`TmrxPassIdentityProofs` then says once, per action and in terms of the state before, what every module, cell and
activation of the next state is. The remaining invariants are proved from these lemmas, each with a lemma per action.

**Names, blackboxes, originals.** The code adds `_tmrx_impl`, `_tmrx_worker` and worker names without looking
whether they are free, and `uniquifySubmodulesRecursive` takes what it finds by a name for the clone it needs. Two arguments
show that this is right. `FreshOK` says why the modules the names stand for are new: a name that continues a user's module exists only once that module has been
reached (`NamesNew`). That the *text* is free as well, or belongs to the clone that is looked for, is a fact about concatenation:
every module has a name that starts with one of the user's and goes on with suffixes (`NamesGenerated`), and
`TextTells` reads such a text from its end. Of two suffixes that a text ends in, one ends in the other (`CommonEnd`), so in a decodable
spelling they are the same and can be taken off (`SameSuffix`); when one of the texts is down to a user's name, so is the
other (`FirstText`). That `FlattenSeq` is the concatenation step by step is `FlattenFacts`. Without
`Decodable` the property is wrong, see below. `BlackboxOK` keeps blackboxes empty, uncloned and off the list of removals, also when the recursion meets
them; `WrapperOK` says that a wrapper under a user's name took the place of a module that was neither cloned nor in mode None.

**Ports.** A clone made for a path is reused by its name long after the module it was made of has been
instantiated elsewhere. `ClonesAlike` says that the two still agree, which holds because a module expanded in place was
never cloned before (`BasePorts`, `InstancesMarked`); `FramePorts` carries the agreement through the copies
of cells that the recursion holds while the design changes below it. The hypothesis is what selections must fulfil: every
instantiated module is instantiated by one that `tmrx_mark` saw. `select_one` violates `PortsMatch` without it.

**Registers.** `SourcesOK` ties the table of the mark pass to the registers of the source, `RegisterOK` the type of a
register to the phase of the flow: mapped registers are recognised as listed cells, or by the table if the
module keeps its name. `mapped_registers` violates `RegistersVoted` without the hypothesis.

**Workers.** That two workers share no module is a statement about everything below them, but it follows from
what single cells refer to, since names tell: `Follows` says that a name ends in the path suffixes another one
ends in. Every cell is `Placed`: an instance leads to a lower level, and to a name that follows that of its
own module unless the configuration asks for sharing; an instance of a worker leads to the worker of its path. While the
recursion runs, its cells are not in place yet: those that an activation has still to visit and the one it was
called for are `Held`, and `FramePlaced` says that what it visits is placed as in the module it was cloned
from, and that its own module is what the cell it was called for is to get. That a module is not cloned while an
activation works in it needs `RanksOK`: activations work at lower and lower ranks, a rank being the level, and at one
level a worker below its wrapper. In the end `CollectedFollows` goes along the ranks (the recursive function in
`Private` has a solution by `CollectionExists`, and by the ranks all its members follow), and names that
follow workers of different paths differ where the workers do (`WorkerPath`). Two hypotheses are needed.
Without `InstancesSelected`, a module that was not marked is shared by the workers of a parent processed before
it, and marked when it becomes a wrapper itself: TLC finds this if designs with unmarked instances are added.
Without the one on the global configuration, clones are exempt from renaming: the run `shared_workers`.

**Replication.** The property compares two counts at the end: what the final design has below a top, and what the
documentation's table makes of the user's design. The invariant that joins them speaks of every module at every
step. A name tells which version of which module it is (`Variant`): the one for TMR parents, or the
original. `AccountsOK` says that the contents of every module that has been reached, with each cell weighted by
what its module is `Expected` to have, add up to what the module itself is expected to have. This is local, so a step
has to be accounted for only in the modules it touches: a clone for a path stands for the same version at the
same rank (`SameAs`), so retyping a cell to it leaves the sum alone (`ExchangeCell`); a wrapper has three instances of its
template (`ThreeWorkers`), which takes over the contents of the module; LogicTMR makes three copies of its logic
(`TriplicatedTotal`) and, by `ReachedOK` and the order of processing, finds every child done and remaps to its
`_tmrx_impl` (`ResolvedVersion`). `SourceOK` says that what has not been reached is still what the user
wrote, which is where the documented count enters (`ExpandedAmount`, `ReadyFacts`); it needs `PortsInv`, since a marked module is
recognised as a submodule and an unmarked one would be logic. `CellsOK` (cells are told apart by instance and path, and lead to lower
ranks) makes the sums finite; `TopsOK` keeps the tops, and `FramesOK` the cells that the
recursion holds while it changes the design. Both counts are recursive functions along the hierarchy: `DocumentedFacts` shows by
levels that the documented one has a solution, `ReplicatesAgree` by ranks that the actual one has only
one, and `ExpectedReplicates` that the expected amounts are it.

**Configuration.** `Validated` is not inductive because a correction may hit the global
configuration, which modules seen before share; `ValidInv` holds since a correction keeps what is
valid valid for a module of any kind (`OverrideValid`). `TemplatesExempt` needs that `validateCfg` neither
changes the voter of a module nor an exempt configuration (`CorrectionKeepsVoter`,
`ExemptIsCorrect`), and that the exempt configuration, which is derived from the global one, stays
the same when that is corrected (`ExemptKept`). `GlobalInv` needs that no module lacks an entry
when the loop begins (`EntriesInv`).

**Refinement.** `ConfigurationAsDocumented` says that an unfinished constructor maps to the initial state of
`Configuration` and that only its last step, to `done` or `aborted`, is a step there. The work is to show that this step gives an answer the
documentation allows. `AssembleConfig` takes, per option, the last layer that sets it (`MaxExists`, from the
well-foundedness of the naturals); `AssembledTwice` and `AssembledInTurn` let groups be stacked on their own,
so that the code's one list of layers is the documentation's `Cascade` (`AssembledCascade`). `AnswerInv`
carries it through the constructor: `SourcesInv`, what the tables hold of file and attributes; `DesignInv`, that every module is a
version of one in the input or in a loaded voter file, which `proc` may have turned from a blackbox into
none; `ConfigsInv`, that every entry is the cascade, corrected or not, or that of a template, and that who asks for
a voter has one; `SharedInv`, what corrections leave of the global configuration. `FinishAnswers`,
`RejectVoterReason` and `RejectConfigReason` are the three ways to end.

**Circuits.** What is proved is the step from the structure of one netlist to what it does over time, for all
inputs, upsets and lengths of a run. `Symbols` evaluates a netlist with terms instead of bits: an input or a register is its
name, a gate the term of its inputs, everything that the cells of one path put out is `Unknown`, and a voter
passes on what two of its inputs agree on. `MasksEachPath` asks this of the netlist at power-on, for every path:
copies on the other paths, which are the most of each register, read and hold the term the original register
reads and holds, and so do outputs, by a majority of three if they are expanded. `RestoresEachPath` asks that even
the registers of the path that fails read the right term. The netlist does not change while it runs, so both
are statements about what the expansion made of a design, not about its runs; nothing in them tells what
values, upsets or histories occur.

That terms determine values (`SymbolsDetermineValues`) goes along the levels of both netlists (`LevelInduction`). Two nets
with the same known term have the same value, whatever the cells of the failing path put out. From this follows the
inductive step: `MaskedState` says that every copy that is not on the failing path holds what the original holds
(`OnlyPathWrong`), hence that the majority does (`ConsensusOfMost`); a tick keeps it (`MaskedTick`), an upset
may choose a new path only when no other one deviates (`MaskedUpset`), and outputs are right in each such state
(`MaskedOutput`). `CircuitInvariant` adds the time before power-on, and `RefinementInit`/`RefinementNext` are the two
halves of the refinement. A tick without a fault leaves no copy behind if all are loaded as in the original
(`RestoredTick`).

`ErrorsCollected` asks that the causes of the error output, found by going backwards through ORs that no path owns,
are exactly the voters of the netlist, and undriven nets (`Causes`). A net is high if a voter among its causes sees a
difference, and only then unless an undriven one is high (`CausesExplain`); that a voter sees what the netlist has in
the end, and not what it had when the voter was evaluated, is `SettledValue`. `VotersWired` asks that the control ports of
custom voters have the symbol of the clock or reset input even if nothing is known of the registers.

Only model-checked:

* `MasksEachPath`, `RestoresEachPath`, `ErrorsCollected` and `VotersWired`, the hypotheses of the theorems on circuits: that
  the expansion makes a netlist which passes the checks out of *every* design. Flattening, expansion and levelling
  fold over netlists, and what a fold makes of every netlist needs an induction over data that the provers
  cannot do. TLC checks them on every netlist of the run `circuits`;
* `DrivenOnce` and `NeverAborts`, for the same reason;
* `Termination`, which is liveness.

## Observations without a run

Reading the code beside the documentation also showed what no property states:

* the documentation calls the attribute `tmrx_preserve_module_ports` (`examples.adoc:106`), the code reads
  `tmrx_tmr_preserve_module_ports` (`tmrx_constants.h:69`);
* an unmarked module with a `$` in its name ignores its `[specific_module]` entry
  (`config_manager.cc:1014`), and the file cannot name a `$paramod` module, the base name of which is empty;
* the groups of `[module."a$b"]` apply to a marked `a$b`, the settings of that entry do not; the groups
  of `sub`, the reserved one of black boxes included, apply to `sub$u1`;
* `[group.black_box_module]` in the file replaces the built-in group with its mode FullModuleTMR;
* an attribute that is the number 1, not the string "1", reads as false; modes and voters that do not exist
  are dropped silently;
* whether a custom voter that is also defined elsewhere is accepted depends on the order of the table;
* a module of the user called `alu_a` beside `alu` is taken for the clone of `alu` for path a by
  `uniquifySubmodulesRecursive` (`tmrx_mod_expansion.cc:56`): the worker gets another module than it had. TLC
  finds `NamesFresh` violated if such a spelling is added and the property asked of all `Spellings`;
* `loadCustomVoters` holds a reference into `finalModuleCfgs` while it inserts into it
  (`config_manager.cc:724`); if the table moves, the log message at line 726 reads freed memory. The configuration is not affected, and the model has no
  such reference;
* a custom voter finds clocks by name only until the clock is expanded; then it stays unclocked, with a
  warning;
* a built-in voter is connected to configured voter clock and reset ports, which it does not have
  (`tmrx_utils.cc:399`).

## Not modelled

Vectors (expansion is per wire), `tmr_domain` attributes (only `PathOf` derives the path from the name
instead), names of voter modules, path suffixes that differ between modules (the code takes them from the configuration of
each FullModuleTMR module, the model has one triple for the design), options
that `ConfigManager` only hands on (two stand for all), `getConfigAsString`, logging and formatting, the
plugin's registration, scripts, tests and build files. `isLogicTreeCell` is modelled for designs whose
submodules are all marked, and the option `insert_voter_before_ff`, which ends the pass, is set
only in `MCConfigManager`. `Resolve` of `TmrxPass` reconnects a cell to whatever
shape its module has, where `connectSubmodulePorts` ends the pass if the ports do not match
(`tmrx_logic_expansion.cc:97`-`:104`); that only happens without `InstancesSelected`. `ConnectSubmodulePorts` of
`LogicTmr` has these errors, but not those for a connected port that the submodule lacks or that has no direction (`:240`,
`:279`-`:285`), which an elaborated netlist does not contain, and it takes the ports in one order, the code in that of a
hash table.

The TOML parser (`include/toml11/toml.hpp`) is a vendored library; what matters of it is whether it
accepts the file (`readable`). It is 85 % of the lines of the repository's C++, so the share of all lines that
is modelled stays small although nearly all of `src/*.cc` is.

## Plan

Done: 1. hierarchy of both passes; 2. its invariant and proofs; 3. netlists, LogicTMR and the
FullModuleTMR wrapper, refinement of the original circuit; 4. the configuration, its documented
specification, refinement and proofs; 5. custom voters, error sinks and three levels in netlists;
6. proofs of `NamesFresh`, `BlackboxesUntouched`, `OriginalsUntouched`, `PortsMatch`, `RegistersVoted`,
`WorkersIndependentByDefault`, `ProtectionAsDocumented` and of the refinement of `Configuration`; 7. the netlist checks behind masking, healing and error
reports, and the proofs that they are enough; 8. names as texts, and the proof that they can be told apart.
