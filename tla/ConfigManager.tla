---------------------------- MODULE ConfigManager ----------------------------
(***************************************************************************)
(* The constructor of ConfigManager (config_manager.cc): it reads the file *)
(* and the attributes, assembles a configuration for every module, loads   *)
(* the custom voters into the design and validates the result.             *)
(***************************************************************************)
EXTENDS ConfigOptions

CONSTANT Inputs     \* the designs, files and voter libraries to explore

ASSUME InputsAssumption == \A i \in Inputs : InputType(i)

Empty == [n \in {} |-> n]

VARIABLES
    input,              \* the chosen member of Inputs; never changes
    pc,                 \* the phase of the constructor
    design,             \* the modules of the design
    globalPart,         \* globalConfigPart
    globalCfg,
    groupCfg,
    moduleCfgs,
    specificModuleCfgs,
    moduleAttrCfgs,
    groupAssignments,
    finalModuleCfgs,
    pending,            \* modules the loop of the phase has not visited
    loadedFiles         \* loaded_files: voter files read so far

sources == <<globalPart, groupCfg, moduleCfgs, specificModuleCfgs, moduleAttrCfgs,
             groupAssignments>>
vars == <<input, pc, design, sources, globalCfg, finalModuleCfgs, pending, loadedFiles>>

Phase == {"read", "annotate", "assemble", "voters", "validate", "done", "aborted"}

-----------------------------------------------------------------------------
(* log_error ends Yosys.                                                   *)
Abort ==
    /\ pc' = "aborted"
    /\ UNCHANGED <<input, design, sources, globalCfg, finalModuleCfgs, pending, loadedFiles>>

(* Mutant: the first part that sets an option wins.                        *)
AssembleFirst(parts, def) ==
    [o \in Option |->
       LET setting == {i \in DOMAIN parts : o \in DOMAIN parts[i]}
       IN  IF setting = {} THEN def[o] ELSE parts[Min(setting)][o]]

(* assembleConfig: the parts are applied in order, so the last one that    *)
(* sets an option wins.                                                    *)
AssembleConfig(parts, def) ==
    [o \in Option |->
       LET setting == {i \in DOMAIN parts : o \in DOMAIN parts[i]}
       IN  IF setting = {} THEN def[o] ELSE parts[Max(setting)][o]]

-----------------------------------------------------------------------------
(* The file.                                                               *)
Parts(entries) == [n \in DOMAIN entries |-> ParseConfig(entries[n].part)]

RefuseFile ==
    /\ pc = "read"
    /\ Refused(input.file)
    /\ Abort

ReadFile ==
    /\ pc = "read"
    /\ ~Refused(input.file)
    /\ LET f == Contents(input.file)
       IN  /\ globalPart' = ParseConfig(f.global)
           /\ groupCfg' = Over([g \in DOMAIN f.group |-> ParseConfig(f.group[g])], DefaultGroups)
           /\ moduleCfgs' = Parts(f.module)
           /\ specificModuleCfgs' = Parts(f.specific)
           /\ groupAssignments' = [n \in DOMAIN f.module \cup DOMAIN f.specific |->
                                     Listed(f.module, n) \o Listed(f.specific, n)]
    /\ globalCfg' = AssembleConfig(<<globalPart'>>, DefaultConfig)
    /\ pc' = "annotate"
    /\ UNCHANGED <<input, design, moduleAttrCfgs, finalModuleCfgs, pending, loadedFiles>>

-----------------------------------------------------------------------------
(* The attributes, and the reserved group of black boxes.                  *)
Assigned(n) == IF n \in DOMAIN groupAssignments THEN groupAssignments[n] ELSE <<>>

BlackBoxGroupOf(m) ==
    (IF m.mems \/ m.procs THEN <<BlackBoxGroup>> ELSE <<>>) \o
    (IF m.bb THEN <<BlackBoxGroup>> ELSE <<>>)

(* Mutant: the reserved group comes first.                                 *)
BlackBoxFirst(n) == BlackBoxGroupOf(design[n]) \o Assigned(n) \o design[n].groups

AnnotatedGroups(n) == Assigned(n) \o design[n].groups \o BlackBoxGroupOf(design[n])

ReadAttributes ==
    /\ pc = "annotate"
    /\ groupAssignments' = [n \in DOMAIN groupAssignments \cup DOMAIN design |->
                              IF n \in DOMAIN design THEN AnnotatedGroups(n) ELSE Assigned(n)]
    /\ moduleAttrCfgs' = [n \in DOMAIN design |-> ParseModuleAnnotations(design[n].attrs)]
    /\ pc' = "assemble"
    /\ UNCHANGED <<input, design, globalPart, globalCfg, groupCfg, moduleCfgs, specificModuleCfgs,
                   finalModuleCfgs, pending, loadedFiles>>

-----------------------------------------------------------------------------
(* The configuration of every module.  A group that does not exist and a   *)
(* module without entry contribute nothing.                                *)
GroupParts(n) ==
    [k \in DOMAIN Assigned(n) |->
       IF Assigned(n)[k] \in DOMAIN groupCfg THEN groupCfg[Assigned(n)[k]] ELSE NoPart]

Present(cfgs, n) == <<IF n \in DOMAIN cfgs THEN cfgs[n] ELSE NoPart>>

MarkedParts(n) ==
    <<globalPart>> \o GroupParts(BaseName(n)) \o GroupParts(n) \o
    Present(moduleCfgs, BaseName(n)) \o Present(moduleAttrCfgs, n) \o Present(specificModuleCfgs, n)

UnmarkedParts(n) ==
    <<globalPart>> \o GroupParts(n) \o Present(moduleCfgs, n) \o Present(moduleAttrCfgs, n)

CfgParts(n) == IF design[n].proper THEN MarkedParts(n) ELSE UnmarkedParts(n)

Assemble ==
    /\ pc = "assemble"
    /\ finalModuleCfgs' = [n \in DOMAIN design |-> AssembleConfig(CfgParts(n), globalCfg)]
    /\ pending' = DOMAIN design
    /\ pc' = "voters"
    /\ UNCHANGED <<input, design, sources, globalCfg, loadedFiles>>

-----------------------------------------------------------------------------
(* loadCustomVoters visits the entries that exist when it starts.          *)
Custom(n) == finalModuleCfgs[n]["tmrVoter"] = "Custom"

SkipDefaultVoter(n) ==
    /\ ~Custom(n)
    /\ pending' = pending \ {n}
    /\ UNCHANGED <<input, pc, design, sources, globalCfg, finalModuleCfgs, loadedFiles>>

(* read_verilog refuses to define a module again, unless it is a black box *)
(* that it then replaces; proc, which runs on the whole design, leaves no  *)
(* process anywhere.                                                       *)
Readable(file) ==
    /\ file \in DOMAIN input.library
    /\ \A n \in DOMAIN input.library[file] \cap DOMAIN design : design[n].bb

AfterProc(ms) == [n \in DOMAIN ms |-> [ms[n] EXCEPT !.procs = FALSE]]

AfterLoading(file) ==
    IF file \in loadedFiles THEN design ELSE AfterProc(Over(input.library[file], design))

(* Mutant: the ports of the voter are not checked.                         *)
VoterLoadableAnyPorts(c) ==
    /\ c["tmrVoterFile"] # "" /\ c["tmrVoterModule"] # ""
    /\ c["tmrVoterFile"] \in loadedFiles \/ Readable(c["tmrVoterFile"])
    /\ VoterId(c) \in DOMAIN AfterLoading(c["tmrVoterFile"])

VoterLoadable(c) ==
    /\ c["tmrVoterFile"] # "" /\ c["tmrVoterModule"] # ""
    /\ c["tmrVoterFile"] \in loadedFiles \/ Readable(c["tmrVoterFile"])
    /\ VoterId(c) \in DOMAIN AfterLoading(c["tmrVoterFile"])
    /\ FitsVoter(AfterLoading(c["tmrVoterFile"])[VoterId(c)], c)

RejectVoter(n) ==
    /\ Custom(n)
    /\ ~VoterLoadable(finalModuleCfgs[n])
    /\ Abort

(* Mutant: the template keeps the mode of the global configuration.        *)
ExemptKeepsMode == [globalCfg EXCEPT !["preserveModulePorts"] = TRUE]

(* The template of the voter is never expanded.                            *)
Exempt == [globalCfg EXCEPT !["tmrMode"] = "None", !["preserveModulePorts"] = TRUE,
                            !["insertVoterBeforeModules"] = FALSE,
                            !["insertVoterAfterModules"] = FALSE]

(* Mutant: the entry that is inserted is visited, too.                     *)
LoadVoterAndVisit(n) ==
    /\ Custom(n)
    /\ VoterLoadable(finalModuleCfgs[n])
    /\ LET c == finalModuleCfgs[n]
       IN  /\ design' = AfterLoading(c["tmrVoterFile"])
           /\ loadedFiles' = loadedFiles \cup {c["tmrVoterFile"]}
           /\ finalModuleCfgs' = Over([t \in {VoterId(c)} |-> Exempt], finalModuleCfgs)
           /\ pending' = (pending \ {n}) \cup {VoterId(c)}
    /\ UNCHANGED <<input, pc, sources, globalCfg>>

LoadVoter(n) ==
    /\ Custom(n)
    /\ VoterLoadable(finalModuleCfgs[n])
    /\ LET c == finalModuleCfgs[n]
       IN  /\ design' = AfterLoading(c["tmrVoterFile"])
           /\ loadedFiles' = loadedFiles \cup {c["tmrVoterFile"]}
           /\ finalModuleCfgs' = Over([t \in {VoterId(c)} |-> Exempt], finalModuleCfgs)
    /\ pending' = pending \ {n}
    /\ UNCHANGED <<input, pc, sources, globalCfg>>

VisitVoter ==
    /\ pc = "voters"
    /\ \E n \in pending : SkipDefaultVoter(n) \/ RejectVoter(n) \/ LoadVoter(n)

StartValidation ==
    /\ pc = "voters"
    /\ pending = {}
    /\ pending' = DOMAIN design
    /\ pc' = "validate"
    /\ UNCHANGED <<input, design, sources, globalCfg, finalModuleCfgs, loadedFiles>>

-----------------------------------------------------------------------------
(* getConfig; validateCfg holds a reference to the same object.            *)
GetConfig(n) == IF n \in DOMAIN finalModuleCfgs THEN finalModuleCfgs[n] ELSE globalCfg

(* Checks 1 and 2 change the configuration.                                *)
CorrectMode(c, box) ==
    [c EXCEPT !["tmrMode"] = IF box /\ @ = "LogicTMR" THEN "FullModuleTMR" ELSE @]

CorrectPorts(c) == [c EXCEPT !["preserveModulePorts"] = @ \/ c["tmrMode"] = "None"]

(* Mutant: mode None does not preserve the ports.                          *)
OverrideBoxOnly(c, box) == CorrectMode(c, box)

Override(c, box) == CorrectPorts(CorrectMode(c, box))

RejectConfig(n) ==
    /\ ~Acceptable(GetConfig(n))
    /\ Abort

(* Mutant: the corrections go to the global configuration.                 *)
AcceptIntoGlobal(n) ==
    /\ Acceptable(GetConfig(n))
    /\ LET c == Override(GetConfig(n), IsBlackBox(design[n]))
       IN  globalCfg' = c /\ UNCHANGED finalModuleCfgs
    /\ pending' = pending \ {n}
    /\ UNCHANGED <<input, pc, design, sources, loadedFiles>>

AcceptConfig(n) ==
    /\ Acceptable(GetConfig(n))
    /\ LET c == Override(GetConfig(n), IsBlackBox(design[n]))
       IN  IF n \in DOMAIN finalModuleCfgs
           THEN finalModuleCfgs' = [finalModuleCfgs EXCEPT ![n] = c] /\ UNCHANGED globalCfg
           ELSE globalCfg' = c /\ UNCHANGED finalModuleCfgs
    /\ pending' = pending \ {n}
    /\ UNCHANGED <<input, pc, design, sources, loadedFiles>>

Validate ==
    /\ pc = "validate"
    /\ \E n \in pending : RejectConfig(n) \/ AcceptConfig(n)

Finish ==
    /\ pc = "validate"
    /\ pending = {}
    /\ pc' = "done"
    /\ UNCHANGED <<input, design, sources, globalCfg, finalModuleCfgs, pending, loadedFiles>>

Terminated == pc \in {"done", "aborted"} /\ UNCHANGED vars

-----------------------------------------------------------------------------
Init ==
    /\ input \in Inputs
    /\ pc = "read"
    /\ design = input.modules
    /\ globalPart = NoPart
    /\ globalCfg = DefaultConfig
    /\ groupCfg = DefaultGroups
    /\ moduleCfgs = Empty
    /\ specificModuleCfgs = Empty
    /\ moduleAttrCfgs = Empty
    /\ groupAssignments = Empty
    /\ finalModuleCfgs = Empty
    /\ pending = {}
    /\ loadedFiles = {}

Next ==
    \/ RefuseFile
    \/ ReadFile
    \/ ReadAttributes
    \/ Assemble
    \/ VisitVoter
    \/ StartValidation
    \/ Validate
    \/ Finish
    \/ Terminated

Spec == Init /\ [][Next]_vars

(* The constructor runs to its end.                                        *)
FairSpec == Spec /\ WF_vars(Next)
=============================================================================
