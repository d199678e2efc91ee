---------------------------- MODULE Configuration ----------------------------
(***************************************************************************)
(* What the documentation promises (configuration.adoc, "Configuration     *)
(* Precedence"; tmr-strategies.adoc for black boxes): in one step, every   *)
(* module of the design gets the configuration of its layers, or the input *)
(* is rejected.                                                            *)
(***************************************************************************)
EXTENDS ConfigOptions

VARIABLES
    input,      \* the design, the file and the voter library; never changes
    answer      \* what the passes will work with

-----------------------------------------------------------------------------
(* The layers, the highest first.                                          *)
Global(i) == Over(ParseConfig(Contents(i.file).global), DefaultConfig)

GroupScope(i, g) ==
    LET groups == Contents(i.file).group
    IN  CASE g \in DOMAIN groups -> ParseConfig(groups[g])
          [] g \in DOMAIN DefaultGroups \ DOMAIN groups -> DefaultGroups[g]
          [] OTHER -> NoPart

(* Groups are listed in the file and in an attribute; black boxes belong   *)
(* to a reserved one.  A unique copy of a module has those of its base     *)
(* name, too.                                                              *)
GroupsOf(i, n) ==
    LET f == Contents(i.file)
    IN  Listed(f.module, n) \o Listed(f.specific, n) \o
        (IF n \in DOMAIN i.modules
         THEN i.modules[n].groups \o
              (IF IsBlackBox(i.modules[n]) THEN <<BlackBoxGroup>> ELSE <<>>)
         ELSE <<>>)

Groups(i, n) ==
    IF i.modules[n].proper /\ Len(n) > 1
    THEN GroupsOf(i, BaseName(n)) \o GroupsOf(i, n)
    ELSE GroupsOf(i, n)

(* Of several groups that set an option the last one counts.               *)
GroupPart(i, groups) ==
    LET Setting(o) == {k \in DOMAIN groups : o \in DOMAIN GroupScope(i, groups[k])}
    IN  [o \in {p \in Option : Setting(p) # {}} |-> GroupScope(i, groups[Max(Setting(o))])[o]]

Scope(entries, n) == IF n \in DOMAIN entries THEN ParseConfig(entries[n].part) ELSE NoPart

(* Only modules that tmrx_mark found below another one can be instances.   *)
SpecificPart(i, n) ==
    IF i.modules[n].proper THEN Scope(Contents(i.file).specific, n) ELSE NoPart

ModulePart(i, n) ==
    Scope(Contents(i.file).module, IF i.modules[n].proper THEN BaseName(n) ELSE n)

Cascade(i, n) ==
    Over(SpecificPart(i, n),
    Over(ParseModuleAnnotations(i.modules[n].attrs),
    Over(ModulePart(i, n),
    Over(GroupPart(i, Groups(i, n)), Global(i)))))

-----------------------------------------------------------------------------
(* The configurations that ask for a custom voter.  The template of one    *)
(* has the global configuration, which may ask for one itself.             *)
CustomModules(i) == {n \in DOMAIN i.modules : Cascade(i, n)["tmrVoter"] = "Custom"}

VoterConfigs(i) ==
    {Cascade(i, n) : n \in CustomModules(i)} \cup
    {c \in {Global(i)} : CustomModules(i) # {} /\ c["tmrVoter"] = "Custom"}

(* Modules that are templates in some order of loading, and in any order.  *)
MayBeTemplate(i) == {VoterId(c) : c \in VoterConfigs(i)}
Template(i) == {VoterId(Cascade(i, n)) : n \in CustomModules(i) \ MayBeTemplate(i)}

VoterFiles(i) == {c["tmrVoterFile"] : c \in VoterConfigs(i)} \cap DOMAIN i.library

(* A voter can be loaded if its file defines it with the ports it needs    *)
(* and nothing that is defined elsewhere, except as a blackbox.            *)
SoundVoter(i, c) ==
    LET file == c["tmrVoterFile"]
    IN  /\ file # "" /\ c["tmrVoterModule"] # ""
        /\ file \in DOMAIN i.library
        /\ \A n \in DOMAIN i.library[file] \cap DOMAIN i.modules : i.modules[n].bb
        /\ \A f \in VoterFiles(i) \ {file} : DOMAIN i.library[f] \cap DOMAIN i.library[file] = {}
        /\ VoterId(c) \in DOMAIN i.library[file]
        /\ FitsVoter(i.library[file][VoterId(c)], c)

-----------------------------------------------------------------------------
(* The definitions of a module, the processes of which may be gone.        *)
Definitions(i, n) ==
    {i.modules[n] : k \in {n} \cap DOMAIN i.modules} \cup
    {i.library[f][n] : f \in {g \in VoterFiles(i) : n \in DOMAIN i.library[g]}}

IsVersion(m, d) == m = [d EXCEPT !.procs = m.procs]

(* A black box is never expanded by LogicTMR, and a module that is not     *)
(* expanded keeps its ports.                                               *)
Mode(c, box) == IF box /\ c["tmrMode"] = "LogicTMR" THEN "FullModuleTMR" ELSE c["tmrMode"]

Corrected(c, box) ==
    [c EXCEPT !["tmrMode"] = Mode(c, box),
              !["preserveModulePorts"] = @ \/ Mode(c, box) = "None"]

TemplateConfig(i) ==
    [Global(i) EXCEPT !["tmrMode"] = "None", !["preserveModulePorts"] = TRUE,
                      !["insertVoterBeforeModules"] = FALSE,
                      !["insertVoterAfterModules"] = FALSE]

Delivered(i, a, n) ==
    \/ /\ n \notin Template(i)
       /\ a.configs[n] = Corrected(Cascade(i, n), IsBlackBox(a.design[n]))
    \/ n \in MayBeTemplate(i) /\ a.configs[n] = TemplateConfig(i)

VoterAvailable(i, a, c) ==
    /\ VoterId(c) \in DOMAIN a.design
    /\ \E m \in Definitions(i, VoterId(c)) : FitsVoter(m, c)

(* The answer to an input.                                                 *)
Answers(i, a) ==
    /\ DOMAIN a.configs = DOMAIN i.modules
    /\ DOMAIN i.modules \subseteq DOMAIN a.design
    /\ \A n \in DOMAIN a.design : \E d \in Definitions(i, n) : IsVersion(a.design[n], d)
    /\ \A n \in DOMAIN i.modules : Delivered(i, a, n) /\ Acceptable(a.configs[n])
    /\ \A n \in CustomModules(i) \ MayBeTemplate(i) : VoterAvailable(i, a, Cascade(i, n))

MayReject(i) ==
    \/ Refused(i.file)
    \/ \E n \in DOMAIN i.modules : ~Acceptable(Cascade(i, n))
    \/ \E c \in VoterConfigs(i) : ~SoundVoter(i, c)
    \/ CustomModules(i) # {} /\ ~Acceptable(Global(i))

-----------------------------------------------------------------------------
Nothing == [n \in {} |-> n]
Open     == [status |-> "open", design |-> Nothing, configs |-> Nothing]
Rejected == [status |-> "rejected", design |-> Nothing, configs |-> Nothing]

Resolve ==
    /\ answer = Open
    /\ ~Refused(input.file)
    /\ answer' = [status |-> "resolved", design |-> answer'.design, configs |-> answer'.configs]
    /\ Answers(input, answer')
    /\ UNCHANGED input

Reject ==
    /\ answer = Open
    /\ MayReject(input)
    /\ answer' = Rejected
    /\ UNCHANGED input

ConfigurationSpec ==
    /\ InputType(input) /\ answer = Open
    /\ [][Resolve \/ Reject]_<<input, answer>>
=============================================================================
