----------------------- MODULE ConfigManagerInvariant -----------------------
(***************************************************************************)
(* What holds while the constructor runs, so that its promises hold at the *)
(* end.                                                                    *)
(***************************************************************************)
EXTENDS ConfigManagerProperties

IsPart(p)      == IsConfigPart(p) /\ p = [o \in DOMAIN p |-> p[o]]
IsFullCfg(c)   == IsConfig(c) /\ c = [o \in Option |-> c[o]]
AllParts(f)    == \A x \in DOMAIN f : IsPart(f[x])

TypeInv ==
    /\ TypeOK
    /\ IsPart(globalPart) /\ IsFullCfg(globalCfg)
    /\ AllParts(groupCfg) /\ AllParts(moduleCfgs)
    /\ AllParts(specificModuleCfgs) /\ AllParts(moduleAttrCfgs)
    /\ \A n \in DOMAIN finalModuleCfgs : IsFullCfg(finalModuleCfgs[n])

(* The entries of finalModuleCfgs are those of the design at first, and    *)
(* templates join them; the loop over them has met those that are not      *)
(* pending.                                                                *)
EntriesInv ==
    /\ pc \in {"voters", "validate", "done"} => DOMAIN finalModuleCfgs \subseteq DOMAIN design
    /\ pc = "voters" => pending \subseteq DOMAIN finalModuleCfgs

(* A module whose entry has been met finds its template, exempt.           *)
Served(n) ==
    Custom(n) /\ finalModuleCfgs[n]["tmrMode"] # "None" =>
        /\ VoterId(finalModuleCfgs[n]) \in DOMAIN finalModuleCfgs
        /\ finalModuleCfgs[VoterId(finalModuleCfgs[n])] = Exempt

TemplatesInv ==
    /\ pc = "voters" => \A n \in DOMAIN finalModuleCfgs \ pending : Served(n)
    /\ pc \in {"validate", "done"} => \A n \in DOMAIN finalModuleCfgs : Served(n)

(* The modules that validateCfg has seen are valid and stay so.            *)
ValidInv ==
    /\ pc \in {"validate", "done"} =>
         \A n \in DOMAIN design \ pending : Valid(GetConfig(n), IsBlackBox(design[n]))
    /\ pc = "done" => pending = {}

GlobalInv ==
    /\ pc \in {"annotate", "assemble", "voters"} => globalCfg = Documented!Global(input)
    /\ (pc \in {"validate", "done"} /\ DOMAIN design \subseteq DOMAIN finalModuleCfgs) =>
         globalCfg = Documented!Global(input)

ConfigManagerInv == TypeInv /\ EntriesInv /\ TemplatesInv /\ ValidInv /\ GlobalInv

-----------------------------------------------------------------------------
(* How the constructor comes to the documented answer.                     *)

(* Once the file is read, the tables hold what it says, and the attributes *)
(* join them.                                                              *)
FileGroups(i, n) ==
    Listed(Contents(i.file).module, n) \o Listed(Contents(i.file).specific, n)

GroupList(i, n) ==
    IF n \in DOMAIN i.modules
    THEN FileGroups(i, n) \o i.modules[n].groups \o BlackBoxGroupOf(i.modules[n])
    ELSE FileGroups(i, n)

Scopes(f) == DOMAIN f.module \cup DOMAIN f.specific

SourcesInv ==
    LET f == Contents(input.file)
    IN  /\ pc \notin {"read", "aborted"} => ~Refused(input.file)
        /\ pc \in {"annotate", "assemble"} =>
             /\ globalPart = ParseConfig(f.global)
             /\ groupCfg = Over([g \in DOMAIN f.group |-> ParseConfig(f.group[g])], DefaultGroups)
             /\ moduleCfgs = Parts(f.module) /\ specificModuleCfgs = Parts(f.specific)
        /\ pc = "annotate" =>
             groupAssignments = [n \in Scopes(f) |-> FileGroups(input, n)]
        /\ pc = "assemble" =>
             /\ groupAssignments = [n \in Scopes(f) \cup DOMAIN design |-> GroupList(input, n)]
             /\ moduleAttrCfgs = [n \in DOMAIN design |-> ParseModuleAnnotations(design[n].attrs)]

(* Where the modules of the design come from.                              *)
IsVersion(m, d) == Documented!IsVersion(m, d)

DesignInv ==
    /\ loadedFiles \subseteq Documented!VoterFiles(input)
    /\ pc \in {"read", "annotate", "assemble"} => loadedFiles = {} /\ design = input.modules
    /\ DOMAIN input.modules \subseteq DOMAIN design
    /\ \A f \in loadedFiles : DOMAIN input.library[f] \subseteq DOMAIN design
    /\ \A n \in DOMAIN design :
         \/ /\ n \in DOMAIN input.modules /\ IsVersion(design[n], input.modules[n])
            /\ \A f \in loadedFiles : n \notin DOMAIN input.library[f]
         \/ \E f \in loadedFiles :
              n \in DOMAIN input.library[f] /\ IsVersion(design[n], input.library[f][n])

(* The entry of a module is its cascade, corrected once it has been        *)
(* validated, or that of a template.                                       *)
Cascade(n) == Documented!Cascade(input, n)

IsCascade(n) ==
    /\ n \in DOMAIN input.modules
    /\ finalModuleCfgs[n] = IF pc = "voters" \/ n \in pending THEN Cascade(n)
                            ELSE Override(Cascade(n), IsBlackBox(design[n]))

IsTemplate(n) ==
    n \in Documented!MayBeTemplate(input) /\ finalModuleCfgs[n] = Documented!TemplateConfig(input)

(* A module that is no template itself and asks for a voter has loaded it. *)
Asking == Documented!CustomModules(input) \ Documented!MayBeTemplate(input)

Supplied(n) ==
    LET t == VoterId(Cascade(n))
    IN  /\ t \in DOMAIN finalModuleCfgs /\ IsTemplate(t)
        /\ t \in DOMAIN design
        /\ \E m \in Documented!Definitions(input, t) : FitsVoter(m, Cascade(n))

ConfigsInv ==
    /\ pc \in {"voters", "validate", "done"} =>
         /\ DOMAIN input.modules \subseteq DOMAIN finalModuleCfgs
         /\ \A n \in DOMAIN finalModuleCfgs : IsCascade(n) \/ IsTemplate(n)
    /\ pc = "voters" => \A n \in Asking \ pending : Supplied(n)
    /\ pc \in {"validate", "done"} => \A n \in Asking : Supplied(n)

(* What is left of the global configuration in the one that modules        *)
(* without an entry share and correct.                                     *)
SharedInv ==
    pc \in {"voters", "validate", "done"} =>
        \A o \in Option \ {"tmrMode", "preserveModulePorts"} :
            globalCfg[o] = Documented!Global(input)[o]

AnswerInv == SourcesInv /\ DesignInv /\ ConfigsInv /\ SharedInv
===============================================================================
