---------------------------- MODULE ConfigOptions ----------------------------
(***************************************************************************)
(* config_manager.h: options, configurations, partial configurations, and  *)
(* what they are read from: the TOML file and the attributes of modules.   *)
(*                                                                         *)
(* A module name is the sequence of the strings between its '$' signs:     *)
(* <<"sub", "top.u">> for \sub$top.u, <<"", "paramod">> for $paramod.      *)
(***************************************************************************)
EXTENDS Naturals, Sequences, FiniteSets, FiniteSetsExt

CONSTANT String     \* the strings that names, files and attributes are made of

BlackBoxGroup == "black_box_module"
CdcGroup      == "cdc_module"

ASSUME StringAssumption ==
    {"", "_a", "_b", "_c", BlackBoxGroup, CdcGroup} \subseteq String

Name == Seq(String) \ {<<>>}

TmrMode  == {"None", "FullModuleTMR", "LogicTMR"}
TmrVoter == {"Default", "Custom"}

(* The options that config_manager.cc itself reads.  The ones it only      *)
(* hands on are all treated alike: errorPortName stands for those that may *)
(* be set anywhere, ffCells for those that have no attribute.              *)
Flag == {"preserveModulePorts", "insertVoterBeforeFf", "insertVoterBeforeModules",
         "insertVoterAfterModules"}
Text == {"tmrVoterFile", "tmrVoterModule", "tmrVoterClockPortName", "tmrVoterResetPortName",
         "logicPath1Suffix", "logicPath2Suffix", "logicPath3Suffix", "errorPortName", "ffCells"}
Option == {"tmrMode", "tmrVoter"} \cup Flag \cup Text

Values(o) ==
    CASE o = "tmrMode" -> TmrMode
      [] o = "tmrVoter" -> TmrVoter
      [] o \in Flag -> BOOLEAN
      [] o \in Text -> String

(* Config and ConfigPart (std::optional fields).                           *)
IsConfigPart(p) == DOMAIN p \subseteq Option /\ \A o \in DOMAIN p : p[o] \in Values(o)
IsConfig(c)     == IsConfigPart(c) /\ DOMAIN c = Option

NoPart == [o \in {} |-> o]

(* f laid over g.                                                          *)
Over(f, g) == [x \in DOMAIN f \cup DOMAIN g |-> IF x \in DOMAIN f THEN f[x] ELSE g[x]]

-----------------------------------------------------------------------------
(* What is read.  A scope of the file and the attributes of a module set   *)
(* options to anything; the modes and voters that are no such are ignored, *)
(* and an attribute sets a flag by the string "1".                         *)
Understood(raw) ==
    {o \in DOMAIN raw : /\ o = "tmrMode" => raw[o] \in TmrMode
                        /\ o = "tmrVoter" => raw[o] \in TmrVoter}

(* Mutant: modes and voters are taken as they are written.                 *)
ParseConfigAny(raw) == raw

ParseConfig(raw) == [o \in Understood(raw) |-> raw[o]]

ParseModuleAnnotations(raw) ==
    [o \in Understood(raw) \ {"ffCells"} |-> IF o \in Flag THEN raw[o] = "1" ELSE raw[o]]

IsScope(raw) ==
    DOMAIN raw \subseteq Option /\ \A o \in DOMAIN raw : raw[o] \in IF o \in Flag THEN BOOLEAN ELSE String
IsAttributes(raw) == DOMAIN raw \subseteq Option /\ \A o \in DOMAIN raw : raw[o] \in String

(* A module of the design: whether tmrx_mark marked it, what makes it a    *)
(* black box, its 1-bit ports, its tmrx_ attributes, the groups that       *)
(* tmrx_assign_to_group lists, and the modules it instantiates.            *)
IsModule(m) ==
    /\ DOMAIN m = {"proper", "bb", "mems", "procs", "inp", "out", "attrs", "groups", "uses"}
    /\ m = [x \in DOMAIN m |-> m[x]]
    /\ m.proper \in BOOLEAN /\ m.bb \in BOOLEAN /\ m.mems \in BOOLEAN /\ m.procs \in BOOLEAN
    /\ m.inp \subseteq String /\ m.out \subseteq String
    /\ IsAttributes(m.attrs)
    /\ m.groups \in Seq(String)
    /\ m.uses \subseteq Name

IsModules(ms) == DOMAIN ms \subseteq Name /\ \A n \in DOMAIN ms : IsModule(ms[n])

(* [module.<name>] and [specific_module."<name>"]: groups and a scope.     *)
IsEntries(es) ==
    /\ DOMAIN es \subseteq Name
    /\ \A n \in DOMAIN es : es[n].groups \in Seq(String) /\ IsScope(es[n].part)

(* The file: `readable' unless toml::parse fails, `known' if every scope   *)
(* and key is a known one and every value has its type.                    *)
IsFile(f) ==
    /\ DOMAIN f = {"readable", "known", "global", "group", "module", "specific"}
    /\ f.readable \in BOOLEAN /\ f.known \in BOOLEAN
    /\ IsScope(f.global)
    /\ DOMAIN f.group \subseteq String /\ \A g \in DOMAIN f.group : IsScope(f.group[g])
    /\ IsEntries(f.module) /\ IsEntries(f.specific)

(* A file that cannot be read counts as empty; one with an unknown scope or *)
(* key, or a specific module without a '$', ends the pass.                 *)
Contents(f) ==
    IF f.readable THEN f
    ELSE [f EXCEPT !.global = NoPart, !.group = NoPart, !.module = NoPart, !.specific = NoPart]

Refused(f) == f.readable /\ (~f.known \/ \E n \in DOMAIN f.specific : Len(n) = 1)

Listed(entries, n) == IF n \in DOMAIN entries THEN entries[n].groups ELSE <<>>

(* The input: the design, the file, and the modules in each Verilog file   *)
(* that a tmr_voter_file may name.                                         *)
InputType(i) ==
    /\ IsModules(i.modules)
    /\ IsFile(i.file)
    /\ DOMAIN i.library \subseteq String
    /\ \A f \in DOMAIN i.library : IsModules(i.library[f])

-----------------------------------------------------------------------------
(* loadDefaultGroupsCfg.                                                   *)
DefaultGroups ==
    [g \in {BlackBoxGroup, CdcGroup} |-> [o \in {"tmrMode"} |-> "FullModuleTMR"]]

(* loadGlobalDefaultCfg.                                                   *)
DefaultConfig ==
    Over([tmrMode |-> "LogicTMR", tmrVoter |-> "Default", insertVoterAfterModules |-> TRUE,
          logicPath1Suffix |-> "_a", logicPath2Suffix |-> "_b", logicPath3Suffix |-> "_c"],
    Over([o \in Flag |-> FALSE],
         [o \in Text |-> ""]))

IsBlackBox(m) == m.bb \/ m.mems \/ m.procs

(* The part of a name before the first '$': std::string::substr.           *)
BaseName(n) == <<n[1]>>

UniqueSuffixes(c) ==
    /\ c["logicPath1Suffix"] # c["logicPath2Suffix"]
    /\ c["logicPath1Suffix"] # c["logicPath3Suffix"]
    /\ c["logicPath2Suffix"] # c["logicPath3Suffix"]

(* validateCfg: checks 5 and 6 end the pass.                               *)
Acceptable(c) == ~c["insertVoterBeforeFf"] /\ UniqueSuffixes(c)

VoterId(c) == <<c["tmrVoterModule"]>>

(* The ports that insertVoter and the configuration ask of a voter.        *)
FitsVoter(m, c) ==
    /\ {"a", "b", "c"} \subseteq m.inp
    /\ {"y", "err"} \subseteq m.out
    /\ \A o \in {"tmrVoterClockPortName", "tmrVoterResetPortName"} : c[o] = "" \/ c[o] \in m.inp
=============================================================================
