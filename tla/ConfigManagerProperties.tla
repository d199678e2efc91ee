----------------------- MODULE ConfigManagerProperties -----------------------
(***************************************************************************)
(* What the constructor of ConfigManager promises to the passes.           *)
(***************************************************************************)
EXTENDS ConfigManager

AreParts(f) == \A x \in DOMAIN f : IsConfigPart(f[x])

(* Types of the variables of the constructor, whatever the file, the       *)
(* attributes and the library say.                                         *)
TypeOK ==
    /\ InputType(input)
    /\ pc \in Phase
    /\ IsModules(design)
    /\ IsConfigPart(globalPart) /\ IsConfig(globalCfg)
    /\ AreParts(groupCfg) /\ AreParts(moduleCfgs)
    /\ AreParts(specificModuleCfgs) /\ AreParts(moduleAttrCfgs)
    /\ \A n \in DOMAIN groupAssignments : groupAssignments[n] \in Seq(String)
    /\ \A n \in DOMAIN finalModuleCfgs : IsConfig(finalModuleCfgs[n])
    /\ pending \subseteq DOMAIN design
    /\ loadedFiles \subseteq DOMAIN input.library

-----------------------------------------------------------------------------
Answer ==
    CASE pc = "done" -> [status |-> "resolved", design |-> design,
                         configs |-> [n \in DOMAIN input.modules |-> GetConfig(n)]]
      [] pc = "aborted" -> [status |-> "rejected", design |-> Empty, configs |-> Empty]
      [] pc \notin {"done", "aborted"} -> [status |-> "open", design |-> Empty, configs |-> Empty]

Documented == INSTANCE Configuration WITH answer <- Answer

(* In whatever order modules are visited, voters are loaded and            *)
(* configurations are corrected: every module ends with the configuration  *)
(* of the documented precedence, and the pass is refused only with reason. *)
ConfigurationAsDocumented == Documented!ConfigurationSpec

(* What the passes rely on, for every module they can meet: although       *)
(* validateCfg changes configurations that several modules share, none     *)
(* that was valid becomes invalid.                                         *)
Valid(c, box) ==
    /\ box => c["tmrMode"] # "LogicTMR"
    /\ c["tmrMode"] = "None" => c["preserveModulePorts"]
    /\ Acceptable(c)

Validated ==
    pc = "done" => \A n \in DOMAIN design : Valid(GetConfig(n), IsBlackBox(design[n]))

(* Every module that will be expanded with a custom voter finds its        *)
(* template, and the passes leave the template alone: "Exempt the template *)
(* itself from TMR so it is never expanded" (config_manager.cc, 719), also *)
(* if the template was a module of the design with its own configuration.  *)
TemplatesExempt ==
    pc = "done" =>
        \A n \in DOMAIN finalModuleCfgs :
            (Custom(n) /\ finalModuleCfgs[n]["tmrMode"] # "None") =>
                /\ VoterId(finalModuleCfgs[n]) \in DOMAIN design \cap DOMAIN finalModuleCfgs
                /\ finalModuleCfgs[VoterId(finalModuleCfgs[n])] = Exempt

(* The modules that tmrx will generate are looked up by names that have no *)
(* entry.  They find the global section of the file as it was written,     *)
(* unless a voter file brought a module without entry.                     *)
GlobalConfigKept ==
    (pc = "done" /\ DOMAIN design \subseteq DOMAIN finalModuleCfgs) =>
        globalCfg = Documented!Global(input)

(* The loop over the entries ends, although it inserts entries.            *)
Termination == <>(pc \in {"done", "aborted"})

-----------------------------------------------------------------------------
(* A statement of the documentation that the code does not keep.           *)

ExpandedInPlace(n) ==
    /\ ~design[n].proper /\ ~design[n].bb
    /\ GetConfig(n)["tmrMode"] # "None" /\ ~GetConfig(n)["preserveModulePorts"]

(* tmr-strategies.adoc 78-81: "When a child module is expanded with        *)
(* preserve_module_ports = false, TMRX keeps two versions of it in the     *)
(* design", so no module that another one instantiates changes its ports   *)
(* in place.                                                               *)
ChildrenKeepOriginals ==
    pc = "done" =>
        \A p \in DOMAIN design : \A n \in design[p].uses \cap DOMAIN design : ~ExpandedInPlace(n)
=============================================================================
