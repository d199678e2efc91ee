------------------------- MODULE ConfigManagerProofs -------------------------
(***************************************************************************)
(* For every design, file and library: the types of the constructor, and   *)
(* what it leaves for the passes.                                          *)
(***************************************************************************)
EXTENDS ConfigManagerInvariant, WellFoundedInduction, TLAPS

-----------------------------------------------------------------------------
(* Maxima of sets of positions.                                            *)

(* A set of positions in a sequence has a greatest one.                    *)
LEMMA MaxExists ==
    ASSUME NEW n \in Nat, NEW S \in SUBSET (1..n), S # {}
    PROVE  Max(S) \in S /\ \A y \in S : Max(S) >= y
<1> DEFINE T == {k \in Nat : \E i \in S : k = n - i}
<1>1. T \subseteq Nat /\ T # {}
  <2>1. PICK i \in S : TRUE
    OBVIOUS
  <2>2. n - i \in Nat
    OBVIOUS
  <2> QED
    BY <2>1, <2>2
<1>2. IsWellFoundedOn(OpToRel(<, Nat), Nat)
  BY NatLessThanWellFounded
<1>3. PICK x \in T : \A y \in T : ~(<<y, x>> \in OpToRel(<, Nat))
  BY <1>1, <1>2, WFMin
<1>4. \A y \in T : ~(y < x)
  BY <1>1, <1>3 DEF OpToRel
<1>5. PICK i \in S : x = n - i
  BY <1>3
<1>6. ASSUME NEW y \in S PROVE i >= y
  <2>1. n - y \in T
    OBVIOUS
  <2>2. ~(n - y < n - i)
    BY <2>1, <1>4, <1>5
  <2> QED
    BY <2>2
<1> QED
  BY <1>6 DEF Max

-----------------------------------------------------------------------------
(* Configurations and parts of one.                                        *)

(* The values of an option.                                                *)
LEMMA OptionValues ==
    /\ "tmrMode" \in Option /\ "tmrVoter" \in Option /\ Flag \subseteq Option /\ Text \subseteq Option
    /\ "tmrVoterFile" \in Text /\ "tmrVoterModule" \in Text
    /\ "preserveModulePorts" \in Flag
    /\ "insertVoterBeforeModules" \in Flag /\ "insertVoterAfterModules" \in Flag
    /\ "tmrMode" \notin Flag \cup Text /\ "tmrVoter" \notin Flag \cup Text /\ Flag \cap Text = {}
    /\ Values("tmrMode") = TmrMode
    /\ Values("tmrVoter") = TmrVoter
    /\ \A o \in Flag : Values(o) = BOOLEAN
    /\ \A o \in Text : Values(o) = String
<1>1. \A o \in Flag : o # "tmrMode" /\ o # "tmrVoter" /\ o \notin Text
  BY DEF Flag, Text
<1>2. \A o \in Text : o # "tmrMode" /\ o # "tmrVoter" /\ o \notin Flag
  BY DEF Flag, Text
<1> QED
  BY <1>1, <1>2 DEF Option, Values, Flag, Text

(* What is read from a scope of the file is a partial configuration.       *)
LEMMA ParsedScope ==
    ASSUME NEW raw, IsScope(raw)
    PROVE  IsPart(ParseConfig(raw))
<1>1. \A o \in Understood(raw) : o \in Option /\ raw[o] \in Values(o)
  BY OptionValues DEF IsScope, Understood, Option
<1> QED
  BY <1>1 DEF ParseConfig, IsPart, IsConfigPart

(* What is read from attributes is a partial configuration.                *)
LEMMA ParsedAttributes ==
    ASSUME NEW raw, IsAttributes(raw)
    PROVE  IsPart(ParseModuleAnnotations(raw))
<1>1. \A o \in Understood(raw) : o \in Option /\ raw[o] \in String
  BY DEF IsAttributes, Understood
<1>2. \A o \in Understood(raw) :
        /\ o \in Flag => (raw[o] = "1") \in Values(o)
        /\ o \notin Flag => raw[o] \in Values(o)
  BY <1>1, OptionValues DEF Understood, Option
<1> QED
  BY <1>1, <1>2 DEF ParseModuleAnnotations, IsPart, IsConfigPart

(* The defaults have the right types.                                      *)
LEMMA Defaults ==
    /\ IsFullCfg(DefaultConfig)
    /\ IsPart(NoPart)
    /\ \A g \in DOMAIN DefaultGroups : IsPart(DefaultGroups[g])
<1> DEFINE special == [tmrMode |-> "LogicTMR", tmrVoter |-> "Default",
                       insertVoterAfterModules |-> TRUE,
                       logicPath1Suffix |-> "_a", logicPath2Suffix |-> "_b",
                       logicPath3Suffix |-> "_c"]
           rest == Over([o \in Flag |-> FALSE], [o \in Text |-> ""])
<1>1. /\ DOMAIN special = {"tmrMode", "tmrVoter", "insertVoterAfterModules",
                           "logicPath1Suffix", "logicPath2Suffix", "logicPath3Suffix"}
      /\ \A o \in DOMAIN special : special[o] \in Values(o)
  <2>1. /\ special["tmrMode"] \in TmrMode /\ special["tmrVoter"] \in TmrVoter
        /\ special["insertVoterAfterModules"] \in BOOLEAN
        /\ special["logicPath1Suffix"] \in String /\ special["logicPath2Suffix"] \in String
        /\ special["logicPath3Suffix"] \in String
    BY StringAssumption DEF TmrMode, TmrVoter
  <2>2. /\ "insertVoterAfterModules" \in Flag
        /\ {"logicPath1Suffix", "logicPath2Suffix", "logicPath3Suffix"} \subseteq Text
    BY DEF Flag, Text
  <2>3. DOMAIN special = {"tmrMode", "tmrVoter", "insertVoterAfterModules",
                          "logicPath1Suffix", "logicPath2Suffix", "logicPath3Suffix"}
    OBVIOUS
  <2> HIDE DEF special
  <2> QED
    BY <2>1, <2>2, <2>3, OptionValues
<1>2. IsFullCfg(DefaultConfig)
  <2>1. DOMAIN rest = Flag \cup Text /\ \A o \in Flag \cup Text : rest[o] \in Values(o)
    <3>1. DOMAIN rest = Flag \cup Text
      BY DEF Over
    <3>2. \A o \in Flag : rest[o] \in BOOLEAN
      BY DEF Over
    <3>3. \A o \in Text : rest[o] \in String
      BY OptionValues, StringAssumption DEF Over
    <3>4. (\A o \in Flag : Values(o) = BOOLEAN) /\ (\A o \in Text : Values(o) = String)
      BY OptionValues
    <3> HIDE DEF rest
    <3> QED
      BY <3>1, <3>2, <3>3, <3>4
  <2>2. DefaultConfig = Over(special, rest)
    BY DEF DefaultConfig
  <2>3. DOMAIN special \subseteq Option /\ DOMAIN special \cup DOMAIN rest = Option
    BY <1>1, <2>1, OptionValues DEF Option, Flag, Text
  <2> HIDE DEF special, rest
  <2>4. DOMAIN DefaultConfig = Option /\ \A o \in Option : DefaultConfig[o] \in Values(o)
    BY <1>1, <2>1, <2>2, <2>3 DEF Over
  <2>5. DefaultConfig = [o \in Option |-> DefaultConfig[o]]
    BY <2>2, <2>4 DEF Over
  <2> QED
    BY <2>4, <2>5 DEF IsFullCfg, IsConfig, IsConfigPart
<1>3. IsPart(NoPart)
  BY DEF NoPart, IsPart, IsConfigPart
<1>4. \A g \in DOMAIN DefaultGroups : IsPart(DefaultGroups[g])
  BY OptionValues DEF DefaultGroups, IsPart, IsConfigPart, TmrMode
<1> QED
  BY <1>2, <1>3, <1>4

(* The set of all parts, to speak of sequences of them.                    *)
ConfigPart ==
    {p \in UNION {[D -> UNION {Values(o) : o \in Option}] : D \in SUBSET Option} : IsPart(p)}

(* Its members are the parts.                                              *)
LEMMA PartSet ==
    ASSUME NEW p
    PROVE  p \in ConfigPart <=> IsPart(p)
<1>1. ASSUME IsPart(p) PROVE p \in ConfigPart
  <2>1. DOMAIN p \in SUBSET Option
    BY <1>1 DEF IsPart, IsConfigPart
  <2>2. p \in [DOMAIN p -> UNION {Values(o) : o \in Option}]
    <3>1. \A o \in DOMAIN p : p[o] \in UNION {Values(x) : x \in Option}
      BY <1>1 DEF IsPart, IsConfigPart
    <3>2. p = [o \in DOMAIN p |-> p[o]]
      BY <1>1 DEF IsPart
    <3> QED
      BY <3>1, <3>2
  <2> QED
    BY <1>1, <2>1, <2>2 DEF ConfigPart
<1> QED
  BY <1>1 DEF ConfigPart

(* Assembling parts over a configuration gives a configuration.            *)
LEMMA Assembled ==
    ASSUME NEW parts \in Seq(ConfigPart), NEW def, IsConfig(def)
    PROVE  IsFullCfg(AssembleConfig(parts, def))
<1>0. DOMAIN parts = 1..Len(parts) /\ Len(parts) \in Nat
  OBVIOUS
<1>1. \A i \in DOMAIN parts : IsConfigPart(parts[i])
  BY PartSet DEF IsPart
<1> SUFFICES ASSUME NEW o \in Option
             PROVE  AssembleConfig(parts, def)[o] \in Values(o)
  BY DEF IsFullCfg, IsConfig, IsConfigPart, AssembleConfig
<1> DEFINE setting == {i \in DOMAIN parts : o \in DOMAIN parts[i]}
<1>2. CASE setting = {}
  BY <1>2 DEF AssembleConfig, IsConfig, IsConfigPart
<1>3. CASE setting # {}
  <2>1. Max(setting) \in setting
    BY <1>0, <1>3, MaxExists
  <2>2. parts[Max(setting)][o] \in Values(o)
    BY <1>1, <2>1 DEF IsConfigPart
  <2> QED
    BY <1>3, <2>2 DEF AssembleConfig
<1> QED
  BY <1>2, <1>3

-----------------------------------------------------------------------------
(* Types.                                                                  *)

(* The scopes of a file, read or not, have their types.                    *)
LEMMA FileContents ==
    ASSUME NEW f, IsFile(f)
    PROVE  /\ IsScope(Contents(f).global)
           /\ \A g \in DOMAIN Contents(f).group : IsScope(Contents(f).group[g])
           /\ IsEntries(Contents(f).module) /\ IsEntries(Contents(f).specific)
<1>1. CASE f.readable
  BY <1>1 DEF IsFile, Contents
<1>2. CASE ~f.readable
  <2>1. /\ Contents(f).global = NoPart /\ Contents(f).group = NoPart
        /\ Contents(f).module = NoPart /\ Contents(f).specific = NoPart
    BY <1>2 DEF IsFile, Contents
  <2>2. DOMAIN NoPart = {}
    BY DEF NoPart
  <2> QED
    BY <2>1, <2>2 DEF IsScope, IsEntries
<1> QED
  BY <1>1, <1>2

(* Laying f over g keeps what both have.                                   *)
LEMMA OverFacts ==
    ASSUME NEW f, NEW g
    PROVE  /\ DOMAIN Over(f, g) = DOMAIN f \cup DOMAIN g
           /\ \A x \in DOMAIN f : Over(f, g)[x] = f[x]
           /\ \A x \in DOMAIN g \ DOMAIN f : Over(f, g)[x] = g[x]
BY DEF Over

(* The modules of a file join those of the design.                         *)
LEMMA ModulesOver ==
    ASSUME NEW f, NEW g, IsModules(f), IsModules(g)
    PROVE  IsModules(Over(f, g))
<1>1. DOMAIN Over(f, g) \subseteq Name
  BY OverFacts DEF IsModules
<1>2. ASSUME NEW n \in DOMAIN Over(f, g) PROVE IsModule(Over(f, g)[n])
  <2>1. CASE n \in DOMAIN f
    <3>1. Over(f, g)[n] = f[n]
      BY <2>1 DEF Over
    <3>2. IsModule(f[n])
      BY <2>1 DEF IsModules
    <3> QED
      BY <3>1, <3>2
  <2>2. CASE n \in DOMAIN g \ DOMAIN f
    <3>1. Over(f, g)[n] = g[n]
      BY <2>2 DEF Over
    <3>2. IsModule(g[n])
      BY <2>2 DEF IsModules
    <3> QED
      BY <3>1, <3>2
  <2> QED
    BY <2>1, <2>2, OverFacts
<1> QED
  BY <1>1, <1>2 DEF IsModules

(* proc changes nothing of a module but its processes.                     *)
LEMMA ModulesAfterProc ==
    ASSUME NEW ms, IsModules(ms)
    PROVE  /\ IsModules(AfterProc(ms))
           /\ DOMAIN AfterProc(ms) = DOMAIN ms
           /\ \A n \in DOMAIN ms :
                /\ AfterProc(ms)[n].bb = ms[n].bb
                /\ AfterProc(ms)[n].inp = ms[n].inp /\ AfterProc(ms)[n].out = ms[n].out
<1>1. ASSUME NEW m, IsModule(m)
      PROVE  /\ IsModule([m EXCEPT !.procs = FALSE])
             /\ [m EXCEPT !.procs = FALSE].bb = m.bb
             /\ [m EXCEPT !.procs = FALSE].inp = m.inp /\ [m EXCEPT !.procs = FALSE].out = m.out
  <2> DEFINE k == [m EXCEPT !.procs = FALSE]
  <2>1. /\ DOMAIN k = DOMAIN m
        /\ k.proper = m.proper /\ k.bb = m.bb /\ k.mems = m.mems /\ k.inp = m.inp
        /\ k.out = m.out /\ k.attrs = m.attrs /\ k.groups = m.groups /\ k.uses = m.uses
    BY <1>1 DEF IsModule
  <2>2. k.procs \in BOOLEAN /\ k = [x \in DOMAIN k |-> k[x]]
    BY <1>1 DEF IsModule
  <2> HIDE DEF k
  <2>3. IsModule(k)
    BY <1>1, <2>1, <2>2 DEF IsModule
  <2> QED
    BY <2>1, <2>3 DEF k
<1>2. \A n \in DOMAIN ms : AfterProc(ms)[n] = [ms[n] EXCEPT !.procs = FALSE]
  BY DEF AfterProc
<1>3. DOMAIN AfterProc(ms) = DOMAIN ms
  BY DEF AfterProc
<1>4. ASSUME NEW n \in DOMAIN ms
      PROVE  /\ IsModule(AfterProc(ms)[n])
             /\ AfterProc(ms)[n].bb = ms[n].bb
             /\ AfterProc(ms)[n].inp = ms[n].inp /\ AfterProc(ms)[n].out = ms[n].out
  <2>1. IsModule(ms[n])
    BY DEF IsModules
  <2> QED
    BY <1>1, <1>2, <2>1
<1> QED
  BY <1>3, <1>4 DEF IsModules

(* Initially.                                                              *)
LEMMA TypeInit == Init => TypeInv
<1> SUFFICES ASSUME Init PROVE TypeInv
  OBVIOUS
<1>1. InputType(input)
  BY InputsAssumption DEF Init
<1>2. IsModules(design)
  BY <1>1 DEF Init, InputType
<1>3. DOMAIN Empty = {} /\ DOMAIN NoPart = {}
  BY DEF Empty, NoPart
<1>4. AllParts(groupCfg) /\ AreParts(groupCfg)
  BY Defaults DEF Init, AllParts, AreParts, IsPart
<1>5. TypeOK
  BY <1>1, <1>2, <1>3, <1>4, Defaults DEF Init, TypeOK, Phase, AreParts, IsPart, IsFullCfg
<1> QED
  BY <1>3, <1>4, <1>5, Defaults DEF Init, TypeInv, AllParts

(* Of the variables that hold parts, the weaker statements follow.         *)
LEMMA PartsAreTyped ==
    ASSUME NEW f, AllParts(f)
    PROVE  AreParts(f)
BY DEF AllParts, AreParts, IsPart

(* The file.                                                               *)
LEMMA TypeReadFile == TypeInv /\ ReadFile => TypeInv'
<1> SUFFICES ASSUME TypeInv, ReadFile PROVE TypeInv'
  OBVIOUS
<1> DEFINE f == Contents(input.file)
<1>1. /\ IsScope(f.global)
      /\ \A g \in DOMAIN f.group : IsScope(f.group[g])
      /\ IsEntries(f.module) /\ IsEntries(f.specific)
  BY FileContents DEF TypeInv, TypeOK, InputType
<1>2. IsPart(globalPart')
  BY <1>1, ParsedScope DEF ReadFile
<1>3. IsFullCfg(globalCfg')
  <2>1. <<globalPart'>> \in Seq(ConfigPart)
    BY <1>2, PartSet
  <2> QED
    BY <2>1, Assembled, Defaults DEF ReadFile, IsFullCfg
<1>4. AllParts(groupCfg')
  <2> SUFFICES ASSUME NEW g \in DOMAIN groupCfg' PROVE IsPart(groupCfg'[g])
    BY DEF AllParts
  <2> DEFINE read == [x \in DOMAIN f.group |-> ParseConfig(f.group[x])]
  <2>1. groupCfg' = Over(read, DefaultGroups)
    BY DEF ReadFile
  <2>2. CASE g \in DOMAIN f.group
    BY <1>1, <2>1, <2>2, ParsedScope DEF Over
  <2>3. CASE g \notin DOMAIN f.group
    BY <2>1, <2>3, Defaults DEF Over
  <2> QED
    BY <2>2, <2>3
<1>5. ASSUME NEW es, IsEntries(es) PROVE AllParts(Parts(es))
  <2>1. \A n \in DOMAIN es : IsPart(ParseConfig(es[n].part))
    BY <1>5, ParsedScope DEF IsEntries
  <2> QED
    BY <2>1 DEF AllParts, Parts
<1>6. AllParts(moduleCfgs') /\ AllParts(specificModuleCfgs')
  BY <1>1, <1>5 DEF ReadFile
<1>7. \A n \in DOMAIN groupAssignments' : groupAssignments'[n] \in Seq(String)
  <2>1. ASSUME NEW es, IsEntries(es), NEW n PROVE Listed(es, n) \in Seq(String)
    BY <2>1 DEF Listed, IsEntries
  <2>2. \A n : Listed(f.module, n) \o Listed(f.specific, n) \in Seq(String)
    BY <1>1, <2>1
  <2> QED
    BY <2>2 DEF ReadFile
<1>8. TypeOK'
  BY <1>2, <1>3, <1>4, <1>6, <1>7, PartsAreTyped
     DEF ReadFile, TypeInv, TypeOK, Phase, IsPart, IsFullCfg
<1> QED
  BY <1>2, <1>3, <1>4, <1>6, <1>8 DEF ReadFile, TypeInv

(* The attributes.                                                         *)
LEMMA TypeReadAttributes == TypeInv /\ ReadAttributes => TypeInv'
<1> SUFFICES ASSUME TypeInv, ReadAttributes PROVE TypeInv'
  OBVIOUS
<1>1. AllParts(moduleAttrCfgs')
  <2>1. \A n \in DOMAIN design : IsAttributes(design[n].attrs)
    BY DEF TypeInv, TypeOK, IsModules, IsModule
  <2> QED
    BY <2>1, ParsedAttributes DEF ReadAttributes, AllParts
<1>2. \A n \in DOMAIN groupAssignments' : groupAssignments'[n] \in Seq(String)
  <2>1. \A n : Assigned(n) \in Seq(String)
    BY DEF Assigned, TypeInv, TypeOK
  <2>2. \A n \in DOMAIN design : AnnotatedGroups(n) \in Seq(String)
    <3> SUFFICES ASSUME NEW n \in DOMAIN design PROVE AnnotatedGroups(n) \in Seq(String)
      OBVIOUS
    <3>1. design[n].groups \in Seq(String)
      BY DEF TypeInv, TypeOK, IsModules, IsModule
    <3>2. BlackBoxGroupOf(design[n]) \in Seq(String)
      <4>1. BlackBoxGroup \in String
        BY StringAssumption
      <4>2. \A b \in String : <<b>> \in Seq(String) /\ <<>> \in Seq(String)
        OBVIOUS
      <4> QED
        BY <4>1, <4>2 DEF BlackBoxGroupOf
    <3> QED
      BY <2>1, <3>1, <3>2 DEF AnnotatedGroups
  <2> QED
    BY <2>1, <2>2 DEF ReadAttributes
<1>3. TypeOK'
  BY <1>1, <1>2, PartsAreTyped DEF ReadAttributes, TypeInv, TypeOK, Phase
<1> QED
  BY <1>1, <1>3 DEF ReadAttributes, TypeInv

(* The layers of a module are a sequence of parts.                         *)
LEMMA CfgPartsType ==
    ASSUME TypeInv, NEW n
    PROVE  CfgParts(n) \in Seq(ConfigPart)
<1>1. \A x : GroupParts(x) \in Seq(ConfigPart)
  <2> SUFFICES ASSUME NEW x PROVE GroupParts(x) \in Seq(ConfigPart)
    OBVIOUS
  <2>1. Assigned(x) \in Seq(String)
    BY DEF Assigned, TypeInv, TypeOK
  <2>2. \A k \in DOMAIN Assigned(x) : GroupParts(x)[k] \in ConfigPart
    BY Defaults, PartSet DEF GroupParts, TypeInv, AllParts
  <2>3. DOMAIN Assigned(x) = 1..Len(Assigned(x)) /\ Len(Assigned(x)) \in Nat
    BY <2>1
  <2>4. GroupParts(x) \in [1..Len(Assigned(x)) -> ConfigPart]
    BY <2>2, <2>3 DEF GroupParts
  <2> QED
    BY <2>3, <2>4
<1>2. \A cfgs, x : AllParts(cfgs) => Present(cfgs, x) \in Seq(ConfigPart)
  BY Defaults, PartSet DEF Present, AllParts
<1>3. \A x : /\ Present(moduleCfgs, x) \in Seq(ConfigPart)
             /\ Present(moduleAttrCfgs, x) \in Seq(ConfigPart)
             /\ Present(specificModuleCfgs, x) \in Seq(ConfigPart)
  BY <1>2 DEF TypeInv
<1>4. <<globalPart>> \in Seq(ConfigPart)
  BY PartSet DEF TypeInv
<1>5. MarkedParts(n) \in Seq(ConfigPart)
  BY <1>1, <1>3, <1>4 DEF MarkedParts
<1>6. UnmarkedParts(n) \in Seq(ConfigPart)
  BY <1>1, <1>3, <1>4 DEF UnmarkedParts
<1> QED
  BY <1>5, <1>6 DEF CfgParts

(* The configurations.                                                     *)
LEMMA TypeAssemble == TypeInv /\ Assemble => TypeInv'
<1> SUFFICES ASSUME TypeInv, Assemble PROVE TypeInv'
  OBVIOUS
<1>1. \A n \in DOMAIN design : IsFullCfg(AssembleConfig(CfgParts(n), globalCfg))
  BY CfgPartsType, Assembled DEF TypeInv, IsFullCfg
<1>2. \A n \in DOMAIN finalModuleCfgs' : IsFullCfg(finalModuleCfgs'[n])
  BY <1>1 DEF Assemble
<1>3. TypeOK'
  BY <1>2 DEF Assemble, TypeInv, TypeOK, Phase, sources, IsFullCfg
<1> QED
  BY <1>2, <1>3 DEF Assemble, TypeInv, sources

(* Changing one option to one of its values.                               *)
LEMMA SetOption ==
    ASSUME NEW c, IsFullCfg(c), NEW o \in Option, NEW v \in Values(o)
    PROVE  IsFullCfg([c EXCEPT ![o] = v])
BY DEF IsFullCfg, IsConfig, IsConfigPart

(* The configuration of a template, made from a global one.                *)
ExemptOf(g) == [g EXCEPT !["tmrMode"] = "None", !["preserveModulePorts"] = TRUE,
                         !["insertVoterBeforeModules"] = FALSE,
                         !["insertVoterAfterModules"] = FALSE]

(* It is a configuration that expands nothing and preserves the ports.     *)
LEMMA ExemptFacts ==
    ASSUME NEW g, IsFullCfg(g)
    PROVE  /\ IsFullCfg(ExemptOf(g))
           /\ ExemptOf(g)["tmrMode"] = "None" /\ ExemptOf(g)["preserveModulePorts"] = TRUE
<1>1. DOMAIN g = Option
  BY DEF IsFullCfg, IsConfig
<1>2. IsFullCfg(ExemptOf(g))
  <2>1. /\ "None" \in Values("tmrMode") /\ TRUE \in Values("preserveModulePorts")
        /\ FALSE \in Values("insertVoterBeforeModules") /\ FALSE \in Values("insertVoterAfterModules")
    BY OptionValues DEF TmrMode
  <2> DEFINE c1 == [g EXCEPT !["tmrMode"] = "None"]
             c2 == [c1 EXCEPT !["preserveModulePorts"] = TRUE]
             c3 == [c2 EXCEPT !["insertVoterBeforeModules"] = FALSE]
             c4 == [c3 EXCEPT !["insertVoterAfterModules"] = FALSE]
  <2>2. IsFullCfg(c1)
    BY <2>1, SetOption, OptionValues
  <2>3. IsFullCfg(c2)
    BY <2>1, <2>2, SetOption, OptionValues
  <2>4. IsFullCfg(c3)
    BY <2>1, <2>3, SetOption, OptionValues
  <2>5. IsFullCfg(c4)
    BY <2>1, <2>4, SetOption, OptionValues
  <2> QED
    BY <2>5 DEF ExemptOf
<1> QED
  BY <1>1, <1>2, OptionValues DEF ExemptOf

(* After a voter file has been read.                                       *)
LEMMA LoadedModules ==
    ASSUME TypeInv, NEW file,
           file \in loadedFiles \/ Readable(file)
    PROVE  /\ IsModules(AfterLoading(file))
           /\ DOMAIN design \subseteq DOMAIN AfterLoading(file)
<1>1. CASE file \in loadedFiles
  BY <1>1 DEF AfterLoading, TypeInv, TypeOK
<1>2. CASE file \notin loadedFiles
  <2>1. IsModules(input.library[file]) /\ IsModules(design)
    BY <1>2 DEF Readable, TypeInv, TypeOK, InputType
  <2>2. IsModules(Over(input.library[file], design))
    BY <2>1, ModulesOver
  <2>3. DOMAIN design \subseteq DOMAIN Over(input.library[file], design)
    BY DEF Over
  <2>4. AfterLoading(file) = AfterProc(Over(input.library[file], design))
    BY <1>2 DEF AfterLoading
  <2> QED
    BY <2>2, <2>3, <2>4, ModulesAfterProc
<1> QED
  BY <1>1, <1>2

(* A custom voter.                                                         *)
LEMMA TypeLoadVoter ==
    ASSUME TypeInv, pc = "voters", NEW n \in pending, LoadVoter(n)
    PROVE  TypeInv'
<1> DEFINE c == finalModuleCfgs[n]
           file == c["tmrVoterFile"]
<1>1. IsModules(design') /\ DOMAIN design \subseteq DOMAIN design'
  BY LoadedModules DEF LoadVoter, VoterLoadable
<1>2. loadedFiles' \subseteq DOMAIN input.library
  BY DEF LoadVoter, VoterLoadable, Readable, TypeInv, TypeOK
<1>3. \A m \in DOMAIN finalModuleCfgs' : IsFullCfg(finalModuleCfgs'[m])
  <2>1. finalModuleCfgs' = Over([t \in {VoterId(c)} |-> Exempt], finalModuleCfgs)
    BY DEF LoadVoter
  <2>2. \A m \in DOMAIN finalModuleCfgs' :
          \/ finalModuleCfgs'[m] = Exempt
          \/ m \in DOMAIN finalModuleCfgs /\ finalModuleCfgs'[m] = finalModuleCfgs[m]
    BY <2>1 DEF Over
  <2>3. IsFullCfg(Exempt)
    BY ExemptFacts DEF TypeInv, Exempt, ExemptOf
  <2> QED
    BY <2>2, <2>3 DEF TypeInv
<1>4. TypeOK'
  BY <1>1, <1>2, <1>3 DEF LoadVoter, TypeInv, TypeOK, sources, IsFullCfg
<1> QED
  BY <1>3, <1>4 DEF LoadVoter, TypeInv, sources

(* Correcting a configuration.                                             *)
LEMMA OverrideType ==
    ASSUME NEW c, IsFullCfg(c), NEW box \in BOOLEAN
    PROVE  IsFullCfg(Override(c, box))
<1> DEFINE d == CorrectMode(c, box)
<1>1. IsFullCfg(d)
  <2>1. (IF box /\ c["tmrMode"] = "LogicTMR" THEN "FullModuleTMR" ELSE c["tmrMode"])
          \in Values("tmrMode")
    BY OptionValues DEF IsFullCfg, IsConfig, IsConfigPart, TmrMode
  <2>2. DOMAIN c = Option
    BY DEF IsFullCfg, IsConfig
  <2> QED
    BY <2>1, <2>2, SetOption, OptionValues DEF CorrectMode
<1> HIDE DEF d
<1>2. IsFullCfg(CorrectPorts(d))
  <2>1. (d["preserveModulePorts"] \/ d["tmrMode"] = "None") \in Values("preserveModulePorts")
    BY OptionValues
  <2>2. DOMAIN d = Option
    BY <1>1 DEF IsFullCfg, IsConfig
  <2> QED
    BY <1>1, <2>1, <2>2, SetOption, OptionValues DEF CorrectPorts
<1> QED
  BY <1>2 DEF Override, d

(* The configuration of a module is one.                                   *)
LEMMA GetConfigType ==
    ASSUME TypeInv, NEW n
    PROVE  IsFullCfg(GetConfig(n))
BY DEF GetConfig, TypeInv

(* Whether a module is a black box is known.                               *)
LEMMA BoxType ==
    ASSUME TypeInv, NEW n \in DOMAIN design
    PROVE  IsBlackBox(design[n]) \in BOOLEAN
BY DEF IsBlackBox

(* A configuration that is accepted.                                       *)
LEMMA TypeAcceptConfig ==
    ASSUME TypeInv, pc = "validate", NEW n \in pending, AcceptConfig(n)
    PROVE  TypeInv'
<1> DEFINE c == Override(GetConfig(n), IsBlackBox(design[n]))
<1>1. IsFullCfg(c)
  BY GetConfigType, OverrideType, BoxType DEF TypeInv, TypeOK
<1> HIDE DEF c
<1>2. CASE n \in DOMAIN finalModuleCfgs
  <2>1. finalModuleCfgs' = [finalModuleCfgs EXCEPT ![n] = c] /\ globalCfg' = globalCfg
    BY <1>2 DEF AcceptConfig, c
  <2>2. \A m \in DOMAIN finalModuleCfgs' : IsFullCfg(finalModuleCfgs'[m])
    BY <1>1, <2>1 DEF TypeInv
  <2>3. TypeOK'
    BY <2>1, <2>2 DEF AcceptConfig, TypeInv, TypeOK, sources, IsFullCfg
  <2> QED
    BY <2>1, <2>2, <2>3 DEF AcceptConfig, TypeInv, sources
<1>3. CASE n \notin DOMAIN finalModuleCfgs
  <2>1. finalModuleCfgs' = finalModuleCfgs /\ globalCfg' = c
    BY <1>3 DEF AcceptConfig, c
  <2>2. TypeOK'
    BY <1>1, <2>1 DEF AcceptConfig, TypeInv, TypeOK, sources, IsFullCfg
  <2> QED
    BY <1>1, <2>1, <2>2 DEF AcceptConfig, TypeInv, sources
<1> QED
  BY <1>2, <1>3

(* Every step.                                                             *)
LEMMA TypeNext == TypeInv /\ [Next]_vars => TypeInv'
<1> SUFFICES ASSUME TypeInv, [Next]_vars PROVE TypeInv'
  OBVIOUS
<1>1. CASE UNCHANGED vars
  BY <1>1 DEF vars, sources, TypeInv, TypeOK
<1>2. CASE pc' = "aborted" /\ Abort
  BY <1>2 DEF Abort, sources, TypeInv, TypeOK, Phase
<1>3. CASE RefuseFile
  BY <1>2, <1>3 DEF RefuseFile, Abort
<1>4. CASE ReadFile
  BY <1>4, TypeReadFile
<1>5. CASE ReadAttributes
  BY <1>5, TypeReadAttributes
<1>6. CASE Assemble
  BY <1>6, TypeAssemble
<1>7. CASE VisitVoter
  <2>1. PICK n \in pending : SkipDefaultVoter(n) \/ RejectVoter(n) \/ LoadVoter(n)
    BY <1>7 DEF VisitVoter
  <2>2. CASE SkipDefaultVoter(n)
    BY <2>2 DEF SkipDefaultVoter, sources, TypeInv, TypeOK
  <2>3. CASE RejectVoter(n)
    BY <1>2, <2>3 DEF RejectVoter, Abort
  <2>4. CASE LoadVoter(n)
    BY <1>7, <2>4, TypeLoadVoter DEF VisitVoter
  <2> QED
    BY <2>1, <2>2, <2>3, <2>4
<1>8. CASE StartValidation
  BY <1>8 DEF StartValidation, sources, TypeInv, TypeOK, Phase
<1>9. CASE Validate
  <2>1. PICK n \in pending : RejectConfig(n) \/ AcceptConfig(n)
    BY <1>9 DEF Validate
  <2>2. CASE RejectConfig(n)
    BY <1>2, <2>2 DEF RejectConfig, Abort
  <2>3. CASE AcceptConfig(n)
    BY <1>9, <2>3, TypeAcceptConfig DEF Validate
  <2> QED
    BY <2>1, <2>2, <2>3
<1>10. CASE Finish
  BY <1>10 DEF Finish, sources, TypeInv, TypeOK, Phase
<1>11. CASE Terminated
  BY <1>1, <1>11 DEF Terminated
<1> QED
  BY <1>1, <1>3, <1>4, <1>5, <1>6, <1>7, <1>8, <1>9, <1>10, <1>11 DEF Next

(* The variables of the constructor have their types, whatever the file,   *)
(* the attributes and the library say.                                     *)
THEOREM TypeCorrect == Spec => []TypeOK
<1>1. TypeInv => TypeOK
  BY DEF TypeInv
<1> QED
  BY <1>1, TypeInit, TypeNext, PTL DEF Spec

-----------------------------------------------------------------------------
(* What correcting a configuration changes.                                *)

(* The correction changes two options, each of them as it should.          *)
LEMMA OverrideFacts ==
    ASSUME NEW c, IsFullCfg(c), NEW box \in BOOLEAN
    PROVE  LET d == Override(c, box)
           IN  /\ d["tmrMode"] = IF box /\ c["tmrMode"] = "LogicTMR" THEN "FullModuleTMR"
                                 ELSE c["tmrMode"]
               /\ d["preserveModulePorts"] = (c["preserveModulePorts"] \/ d["tmrMode"] = "None")
               /\ \A o \in Option \ {"tmrMode", "preserveModulePorts"} : d[o] = c[o]
<1> DEFINE d == CorrectMode(c, box)
<1>1. DOMAIN c = Option
  BY DEF IsFullCfg, IsConfig
<1>2. /\ DOMAIN d = Option
      /\ d["tmrMode"] = IF box /\ c["tmrMode"] = "LogicTMR" THEN "FullModuleTMR" ELSE c["tmrMode"]
      /\ \A o \in Option \ {"tmrMode"} : d[o] = c[o]
  BY <1>1, OptionValues DEF CorrectMode
<1>3. d["preserveModulePorts"] = c["preserveModulePorts"]
  BY <1>2, OptionValues
<1> HIDE DEF d
<1>4. /\ CorrectPorts(d)["preserveModulePorts"] = (d["preserveModulePorts"] \/ d["tmrMode"] = "None")
      /\ \A o \in Option \ {"preserveModulePorts"} : CorrectPorts(d)[o] = d[o]
  BY <1>2, OptionValues DEF CorrectPorts
<1>5. CorrectPorts(d)["tmrMode"] = d["tmrMode"]
  BY <1>4, OptionValues
<1>6. Override(c, box) = CorrectPorts(d)
  BY DEF Override, d
<1> QED
  BY <1>2, <1>3, <1>4, <1>5, <1>6

(* The options that decide whether a configuration is acceptable.          *)
LEMMA AcceptableOptions ==
    {"insertVoterBeforeFf", "logicPath1Suffix", "logicPath2Suffix", "logicPath3Suffix",
     "tmrVoter", "tmrVoterModule"} \subseteq Option \ {"tmrMode", "preserveModulePorts"}
BY DEF Option, Flag, Text

(* A correction makes an acceptable configuration valid for the module it  *)
(* is made for, and keeps it valid for every other module.                 *)
LEMMA OverrideValid ==
    ASSUME NEW c, IsFullCfg(c), NEW box \in BOOLEAN
    PROVE  /\ Acceptable(c) => Valid(Override(c, box), box)
           /\ \A b \in BOOLEAN : Valid(c, b) => Valid(Override(c, box), b)
<1> DEFINE d == Override(c, box)
<1>1. Acceptable(c) => Acceptable(d)
  BY OverrideFacts, AcceptableOptions DEF Acceptable, UniqueSuffixes
<1>2. /\ d["tmrMode"] = IF box /\ c["tmrMode"] = "LogicTMR" THEN "FullModuleTMR" ELSE c["tmrMode"]
      /\ d["preserveModulePorts"] = (c["preserveModulePorts"] \/ d["tmrMode"] = "None")
  BY OverrideFacts
<1> HIDE DEF d
<1>3. Acceptable(c) => Valid(d, box)
  BY <1>1, <1>2 DEF Valid
<1>4. \A b \in BOOLEAN : Valid(c, b) => Valid(d, b)
  BY <1>1, <1>2 DEF Valid
<1> QED
  BY <1>3, <1>4 DEF d

(* Correcting the global configuration does not change what templates get. *)
LEMMA ExemptKept ==
    ASSUME NEW g, IsFullCfg(g), NEW box \in BOOLEAN
    PROVE  ExemptOf(Override(g, box)) = ExemptOf(g)
<1> DEFINE h == Override(g, box)
<1>1. IsFullCfg(h)
  BY OverrideType
<1>2. \A o \in Option \ {"tmrMode", "preserveModulePorts"} : h[o] = g[o]
  BY OverrideFacts
<1> HIDE DEF h
<1>3. \A o \in Option : ExemptOf(h)[o] = ExemptOf(g)[o]
  BY <1>1, <1>2, OptionValues DEF ExemptOf, IsFullCfg, IsConfig
<1> QED
  BY <1>1, <1>3, ExemptFacts DEF IsFullCfg, h

-----------------------------------------------------------------------------
(* The global configuration is the documented one.                         *)

(* The operators of the documentation's module are those of this one.      *)
LEMMA SameGlobal ==
    ASSUME NEW i
    PROVE  Documented!Global(i) = Over(ParseConfig(Contents(i.file).global), DefaultConfig)
<1>1. \A raw : Documented!Understood(raw) = Understood(raw)
  BY DEF Documented!Understood, Understood, Documented!TmrMode, TmrMode,
         Documented!TmrVoter, TmrVoter
<1>2. \A raw : Documented!ParseConfig(raw) = ParseConfig(raw)
  BY <1>1 DEF Documented!ParseConfig, ParseConfig
<1>3. \A f : Documented!Contents(f) = Contents(f)
  BY DEF Documented!Contents, Contents, Documented!NoPart, NoPart
<1>4. \A f, g : Documented!Over(f, g) = Over(f, g)
  BY DEF Documented!Over, Over
<1>5. Documented!DefaultConfig = DefaultConfig
  <2>1. Documented!Flag = Flag /\ Documented!Text = Text
    BY DEF Documented!Flag, Flag, Documented!Text, Text
  <2> QED
    BY <1>4, <2>1 DEF Documented!DefaultConfig, DefaultConfig
<1> QED
  BY <1>2, <1>3, <1>4, <1>5 DEF Documented!Global

(* Assembling a single part lays it over the configuration.                *)
LEMMA AssembledOnce ==
    ASSUME NEW p, IsPart(p), NEW def, IsConfig(def)
    PROVE  AssembleConfig(<<p>>, def) = Over(p, def)
<1> DEFINE setting(o) == {k \in DOMAIN <<p>> : o \in DOMAIN (<<p>>)[k]}
<1>1. \A o : setting(o) = IF o \in DOMAIN p THEN {1} ELSE {}
  OBVIOUS
<1>2. Max({1}) = 1
  <2>1. Max({1}) \in {1}
    BY MaxExists, 1 \in Nat, {1} \in SUBSET (1..1), {1} # {}
  <2> QED
    BY <2>1
<1>3. DOMAIN p \cup DOMAIN def = Option
  BY DEF IsPart, IsConfigPart, IsConfig
<1>4. ASSUME NEW o \in Option
      PROVE  AssembleConfig(<<p>>, def)[o] = IF o \in DOMAIN p THEN p[o] ELSE def[o]
  <2>1. AssembleConfig(<<p>>, def)[o] =
          IF setting(o) = {} THEN def[o] ELSE (<<p>>)[Max(setting(o))][o]
    BY DEF AssembleConfig
  <2> HIDE DEF setting
  <2> QED
    BY <1>1, <1>2, <2>1
<1> QED
  BY <1>3, <1>4 DEF AssembleConfig, Over

-----------------------------------------------------------------------------
(* The steps that the invariant is about.                                  *)

(* The file is read: its global section becomes the global configuration.  *)
LEMMA InvReadFile == ConfigManagerInv /\ ReadFile => ConfigManagerInv'
<1> SUFFICES ASSUME ConfigManagerInv, ReadFile PROVE ConfigManagerInv'
  OBVIOUS
<1>1. TypeInv'
  BY TypeReadFile DEF ConfigManagerInv
<1>2. globalCfg' = Over(globalPart', DefaultConfig)
  <2>1. IsPart(globalPart') /\ IsConfig(DefaultConfig)
    BY <1>1, Defaults DEF TypeInv, IsFullCfg
  <2> QED
    BY <2>1, AssembledOnce DEF ReadFile
<1>3. globalCfg' = Documented!Global(input)
  BY <1>2, SameGlobal DEF ReadFile
<1>4. Documented!Global(input)' = Documented!Global(input)
  BY SameGlobal DEF ReadFile
<1>5. pc' = "annotate"
  BY DEF ReadFile
<1> QED
  BY <1>1, <1>3, <1>4, <1>5 DEF ConfigManagerInv, EntriesInv, TemplatesInv, ValidInv, GlobalInv

(* The documented global configuration is a matter of the input.           *)
LEMMA GlobalKept ==
    ASSUME UNCHANGED input
    PROVE  Documented!Global(input)' = Documented!Global(input)
BY SameGlobal

(* The configurations are assembled.                                       *)
LEMMA InvAssemble == ConfigManagerInv /\ Assemble => ConfigManagerInv'
<1> SUFFICES ASSUME ConfigManagerInv, Assemble PROVE ConfigManagerInv'
  OBVIOUS
<1>1. TypeInv'
  BY TypeAssemble DEF ConfigManagerInv
<1>2. EntriesInv' /\ TemplatesInv' /\ ValidInv'
  BY DEF Assemble, EntriesInv, TemplatesInv, ValidInv
<1>3. GlobalInv'
  BY GlobalKept DEF Assemble, ConfigManagerInv, GlobalInv
<1> QED
  BY <1>1, <1>2, <1>3 DEF ConfigManagerInv

(* A module that has been met, or that gets the exempt configuration, is   *)
(* served after a template has been inserted.                              *)
LEMMA InvLoadVoter ==
    ASSUME ConfigManagerInv, pc = "voters", NEW n \in pending, LoadVoter(n)
    PROVE  ConfigManagerInv'
<1> DEFINE c == finalModuleCfgs[n]
           t == VoterId(c)
<1>1. TypeInv'
  BY TypeLoadVoter DEF ConfigManagerInv
<1>2. /\ DOMAIN finalModuleCfgs' = {t} \cup DOMAIN finalModuleCfgs
      /\ finalModuleCfgs'[t] = Exempt
      /\ \A m \in DOMAIN finalModuleCfgs \ {t} : finalModuleCfgs'[m] = finalModuleCfgs[m]
  BY DEF LoadVoter, Over
<1>3. Exempt' = Exempt /\ Exempt["tmrMode"] = "None"
  BY ExemptFacts DEF LoadVoter, Exempt, ExemptOf, ConfigManagerInv, TypeInv
<1>4. EntriesInv'
  <2>1. DOMAIN design \subseteq DOMAIN design' /\ t \in DOMAIN design'
    BY LoadedModules DEF LoadVoter, VoterLoadable, ConfigManagerInv
  <2>2. pending' \subseteq DOMAIN finalModuleCfgs'
    BY <1>2 DEF LoadVoter, ConfigManagerInv, EntriesInv
  <2> QED
    BY <1>2, <2>1, <2>2 DEF LoadVoter, ConfigManagerInv, EntriesInv
<1>5. ASSUME NEW m \in DOMAIN finalModuleCfgs' \ pending' PROVE Served(m)'
  <2>1. CASE m = t
    BY <1>2, <1>3, <2>1 DEF Served
  <2>2. CASE m # t /\ m = n
    <3>1. finalModuleCfgs'[m] = c /\ VoterId(finalModuleCfgs'[m]) = t
      BY <1>2, <2>2
    <3> QED
      BY <1>2, <1>3, <3>1 DEF Served
  <2>3. CASE m # t /\ m # n
    <3>1. m \in DOMAIN finalModuleCfgs \ pending /\ finalModuleCfgs'[m] = finalModuleCfgs[m]
      BY <1>2, <2>3 DEF LoadVoter
    <3>2. Served(m)
      BY <3>1 DEF ConfigManagerInv, TemplatesInv
    <3>3. VoterId(finalModuleCfgs'[m]) = VoterId(finalModuleCfgs[m]) /\ Custom(m)' = Custom(m)
      BY <3>1 DEF Custom
    <3> HIDE DEF t
    <3>4. \A x \in DOMAIN finalModuleCfgs :
            finalModuleCfgs[x] = Exempt => finalModuleCfgs'[x] = Exempt
      BY <1>2
    <3>5. CASE Custom(m)' /\ finalModuleCfgs'[m]["tmrMode"] # "None"
      BY <1>2, <1>3, <3>1, <3>2, <3>3, <3>4, <3>5 DEF Served
    <3> QED
      BY <3>5 DEF Served
  <2> QED
    BY <2>1, <2>2, <2>3
<1>6. pc' = pc /\ globalCfg' = globalCfg /\ input' = input
  BY DEF LoadVoter
<1>7. TemplatesInv' /\ ValidInv'
  BY <1>5, <1>6 DEF TemplatesInv, ValidInv
<1>8. GlobalInv'
  BY <1>6, GlobalKept DEF GlobalInv, ConfigManagerInv
<1> QED
  BY <1>1, <1>4, <1>7, <1>8 DEF ConfigManagerInv

(* The exempt configuration needs no correction.                           *)
LEMMA ExemptIsCorrect ==
    ASSUME NEW g, IsFullCfg(g), NEW box \in BOOLEAN
    PROVE  Override(ExemptOf(g), box) = ExemptOf(g)
<1> DEFINE e == ExemptOf(g)
<1>1. IsFullCfg(e) /\ e["tmrMode"] = "None" /\ e["preserveModulePorts"] = TRUE
  BY ExemptFacts
<1> HIDE DEF e
<1>2. \A o \in Option : Override(e, box)[o] = e[o]
  <2> DEFINE d == Override(e, box)
  <2>1. /\ d["tmrMode"] = "None"
        /\ d["preserveModulePorts"] = (TRUE \/ d["tmrMode"] = "None")
        /\ \A o \in Option \ {"tmrMode", "preserveModulePorts"} : d[o] = e[o]
    BY <1>1, OverrideFacts
  <2> HIDE DEF d
  <2>2. d["preserveModulePorts"] = TRUE
    BY <2>1
  <2> QED
    BY <1>1, <2>1, <2>2 DEF d
<1>3. IsFullCfg(Override(e, box))
  BY <1>1, OverrideType
<1>4. Override(e, box) = e
  BY <1>1, <1>2, <1>3 DEF IsFullCfg
<1> QED
  BY <1>4 DEF e

(* A correction changes neither the voter nor whether a module is          *)
(* expanded at all.                                                        *)
LEMMA CorrectionKeepsVoter ==
    ASSUME NEW c, IsFullCfg(c), NEW box \in BOOLEAN
    PROVE  /\ Override(c, box)["tmrVoter"] = c["tmrVoter"]
           /\ VoterId(Override(c, box)) = VoterId(c)
           /\ Override(c, box)["tmrMode"] = "None" <=> c["tmrMode"] = "None"
BY OverrideFacts, AcceptableOptions DEF VoterId

(* A configuration is accepted and corrected.                              *)
LEMMA InvAcceptConfig ==
    ASSUME ConfigManagerInv, pc = "validate", NEW n \in pending, AcceptConfig(n)
    PROVE  ConfigManagerInv'
<1> DEFINE c == GetConfig(n)
           box == IsBlackBox(design[n])
           d == Override(c, box)
<1>1. TypeInv'
  BY TypeAcceptConfig DEF ConfigManagerInv
<1>2. IsFullCfg(c) /\ box \in BOOLEAN /\ IsFullCfg(globalCfg)
  BY GetConfigType, BoxType DEF ConfigManagerInv, TypeInv, TypeOK
<1>3. /\ pc' = pc /\ pending' = pending \ {n} /\ design' = design /\ input' = input
      /\ Acceptable(c)
  BY DEF AcceptConfig
<1>4. /\ n \in DOMAIN finalModuleCfgs =>
           finalModuleCfgs' = [finalModuleCfgs EXCEPT ![n] = d] /\ globalCfg' = globalCfg
      /\ n \notin DOMAIN finalModuleCfgs => finalModuleCfgs' = finalModuleCfgs /\ globalCfg' = d
  BY DEF AcceptConfig
<1>5. DOMAIN finalModuleCfgs' = DOMAIN finalModuleCfgs
  BY <1>4
<1>6. EntriesInv'
  BY <1>3, <1>5 DEF ConfigManagerInv, EntriesInv
<1>7. Exempt' = Exempt
  <2>1. CASE n \in DOMAIN finalModuleCfgs
    BY <1>4, <2>1 DEF Exempt
  <2>2. CASE n \notin DOMAIN finalModuleCfgs
    <3>1. globalCfg' = Override(globalCfg, box)
      BY <1>4, <2>2 DEF GetConfig
    <3>2. ExemptOf(globalCfg') = ExemptOf(globalCfg)
      BY <1>2, <3>1, ExemptKept
    <3> QED
      BY <3>2 DEF Exempt, ExemptOf
  <2> QED
    BY <2>1, <2>2
<1>8. ASSUME NEW m \in DOMAIN finalModuleCfgs
      PROVE  /\ finalModuleCfgs[m] = Exempt => finalModuleCfgs'[m] = Exempt
             /\ finalModuleCfgs'[m]["tmrVoter"] = finalModuleCfgs[m]["tmrVoter"]
             /\ VoterId(finalModuleCfgs'[m]) = VoterId(finalModuleCfgs[m])
             /\ finalModuleCfgs'[m]["tmrMode"] = "None" <=> finalModuleCfgs[m]["tmrMode"] = "None"
  <2>1. CASE m = n
    <3>1. finalModuleCfgs'[m] = d /\ finalModuleCfgs[m] = c
      BY <1>4, <2>1 DEF GetConfig
    <3>2. c = Exempt => d = Exempt
      BY <1>2, ExemptIsCorrect DEF Exempt, ExemptOf
    <3> QED
      BY <1>2, <3>1, <3>2, CorrectionKeepsVoter
  <2>2. CASE m # n
    <3>1. finalModuleCfgs'[m] = finalModuleCfgs[m]
      BY <1>4, <2>2
    <3> QED
      BY <3>1
  <2> QED
    BY <2>1, <2>2
<1>9. TemplatesInv'
  <2> SUFFICES ASSUME NEW m \in DOMAIN finalModuleCfgs PROVE Served(m)'
    BY <1>3, <1>5 DEF TemplatesInv
  <2>1. Served(m)
    BY DEF ConfigManagerInv, TemplatesInv
  <2>2. CASE Custom(m)' /\ finalModuleCfgs'[m]["tmrMode"] # "None"
    <3>1. Custom(m) /\ finalModuleCfgs[m]["tmrMode"] # "None"
      BY <1>8, <2>2 DEF Custom
    <3>2. VoterId(finalModuleCfgs[m]) \in DOMAIN finalModuleCfgs
          /\ finalModuleCfgs[VoterId(finalModuleCfgs[m])] = Exempt
      BY <2>1, <3>1 DEF Served
    <3>3. VoterId(finalModuleCfgs'[m]) = VoterId(finalModuleCfgs[m])
      BY <1>8
    <3>4. finalModuleCfgs'[VoterId(finalModuleCfgs[m])] = Exempt
      BY <1>8, <3>2
    <3> QED
      BY <1>5, <1>7, <3>2, <3>3, <3>4 DEF Served
  <2> QED
    BY <2>2 DEF Served
<1>10. ValidInv'
  <2> SUFFICES ASSUME NEW m \in DOMAIN design \ (pending \ {n})
               PROVE  Valid(GetConfig(m), IsBlackBox(design[m]))'
    BY <1>3 DEF ValidInv
  <2>1. IsBlackBox(design[m]) \in BOOLEAN
    BY BoxType DEF ConfigManagerInv
  <2>2. CASE m = n
    <3>1. GetConfig(m)' = d
      BY <1>4, <1>5, <2>2 DEF GetConfig
    <3> QED
      BY <1>2, <1>3, <2>2, <3>1, OverrideValid
  <2>3. CASE m # n
    <3>1. Valid(GetConfig(m), IsBlackBox(design[m]))
      BY <2>3 DEF ConfigManagerInv, ValidInv
    <3>2. GetConfig(m)' = GetConfig(m) \/ (GetConfig(m) = c /\ GetConfig(m)' = d)
      BY <1>4, <1>5, <2>3 DEF GetConfig
    <3> QED
      BY <1>2, <1>3, <2>1, <3>1, <3>2, OverrideValid
  <2> QED
    BY <2>2, <2>3
<1>11. GlobalInv'
  <2>1. n \in DOMAIN design
    BY DEF ConfigManagerInv, TypeInv, TypeOK
  <2> QED
    BY <1>3, <1>4, <1>5, <2>1, GlobalKept DEF ConfigManagerInv, GlobalInv
<1> QED
  BY <1>1, <1>6, <1>9, <1>10, <1>11 DEF ConfigManagerInv

(* Every step.                                                             *)
LEMMA InvNext == ConfigManagerInv /\ [Next]_vars => ConfigManagerInv'
<1> SUFFICES ASSUME ConfigManagerInv, [Next]_vars PROVE ConfigManagerInv'
  OBVIOUS
<1>1. TypeInv'
  BY TypeNext DEF ConfigManagerInv
<1>2. CASE UNCHANGED vars
  <2>1. /\ UNCHANGED <<input, pc, design, globalCfg, finalModuleCfgs, pending>>
        /\ GlobalInv'
    BY <1>2, GlobalKept DEF vars, ConfigManagerInv, GlobalInv
  <2> QED
    BY <1>1, <2>1 DEF ConfigManagerInv, EntriesInv, TemplatesInv, ValidInv, Served, Custom,
                      Exempt, GetConfig
<1>3. CASE Abort
  BY <1>1, <1>3 DEF Abort, ConfigManagerInv, EntriesInv, TemplatesInv, ValidInv, GlobalInv
<1>4. CASE RefuseFile
  BY <1>3, <1>4 DEF RefuseFile
<1>5. CASE ReadFile
  BY <1>5, InvReadFile
<1>6. CASE ReadAttributes
  BY <1>1, <1>6, GlobalKept
     DEF ReadAttributes, ConfigManagerInv, EntriesInv, TemplatesInv, ValidInv, GlobalInv
<1>7. CASE Assemble
  BY <1>7, InvAssemble
<1>8. CASE VisitVoter
  <2>1. PICK n \in pending : SkipDefaultVoter(n) \/ RejectVoter(n) \/ LoadVoter(n)
    BY <1>8 DEF VisitVoter
  <2>2. CASE SkipDefaultVoter(n)
    <3>1. /\ UNCHANGED <<input, pc, design, globalCfg, finalModuleCfgs>>
          /\ pending' = pending \ {n} /\ ~Custom(n) /\ pc = "voters"
      BY <1>8, <2>2 DEF SkipDefaultVoter, VisitVoter
    <3>2. \A m : Served(m)' = Served(m)
      BY <3>1 DEF Served, Custom, Exempt
    <3>3. TemplatesInv'
      BY <3>1, <3>2 DEF ConfigManagerInv, TemplatesInv, Served
    <3>4. EntriesInv' /\ ValidInv' /\ GlobalInv'
      BY <3>1, GlobalKept DEF ConfigManagerInv, EntriesInv, ValidInv, GlobalInv
    <3> QED
      BY <1>1, <3>3, <3>4 DEF ConfigManagerInv
  <2>3. CASE RejectVoter(n)
    BY <1>3, <2>3 DEF RejectVoter
  <2>4. CASE LoadVoter(n)
    BY <1>8, <2>4, InvLoadVoter DEF VisitVoter
  <2> QED
    BY <2>1, <2>2, <2>3, <2>4
<1>9. CASE StartValidation
  <2>1. /\ UNCHANGED <<input, design, globalCfg, finalModuleCfgs>>
        /\ pc = "voters" /\ pc' = "validate" /\ pending = {} /\ pending' = DOMAIN design
    BY <1>9 DEF StartValidation
  <2>2. \A m : Served(m)' = Served(m)
    BY <2>1 DEF Served, Custom, Exempt
  <2> QED
    BY <1>1, <2>1, <2>2, GlobalKept
       DEF ConfigManagerInv, EntriesInv, TemplatesInv, ValidInv, GlobalInv
<1>10. CASE Validate
  <2>1. PICK n \in pending : RejectConfig(n) \/ AcceptConfig(n)
    BY <1>10 DEF Validate
  <2>2. CASE RejectConfig(n)
    BY <1>3, <2>2 DEF RejectConfig
  <2>3. CASE AcceptConfig(n)
    BY <1>10, <2>3, InvAcceptConfig DEF Validate
  <2> QED
    BY <2>1, <2>2, <2>3
<1>11. CASE Finish
  <2>1. /\ UNCHANGED <<input, design, globalCfg, finalModuleCfgs, pending>>
        /\ pc = "validate" /\ pc' = "done" /\ pending = {}
    BY <1>11 DEF Finish
  <2>2. \A m : Served(m)' = Served(m) /\ GetConfig(m)' = GetConfig(m)
    BY <2>1 DEF Served, Custom, Exempt, GetConfig
  <2> QED
    BY <1>1, <2>1, <2>2, GlobalKept
       DEF ConfigManagerInv, EntriesInv, TemplatesInv, ValidInv, GlobalInv
<1>12. CASE Terminated
  BY <1>2, <1>12 DEF Terminated
<1> QED
  BY <1>2, <1>4, <1>5, <1>6, <1>7, <1>8, <1>9, <1>10, <1>11, <1>12 DEF Next

(* The invariant holds throughout.                                         *)
LEMMA InvHolds == Spec => []ConfigManagerInv
<1>1. Init => ConfigManagerInv
  BY TypeInit DEF Init, ConfigManagerInv, EntriesInv, TemplatesInv, ValidInv, GlobalInv
<1> QED
  BY <1>1, InvNext, PTL DEF Spec

-----------------------------------------------------------------------------
(* What the constructor leaves for the passes.                             *)

(* However many modules share a configuration that validateCfg corrects,   *)
(* all modules end with a valid one.                                       *)
THEOREM ValidatedHolds == Spec => []Validated
<1>1. ConfigManagerInv => Validated
  BY DEF ConfigManagerInv, ValidInv, Validated
<1> QED
  BY <1>1, InvHolds, PTL

(* Whatever the order in which loadCustomVoters visits the modules, and    *)
(* although it inserts entries while it visits them, a module that will be *)
(* expanded with a custom voter finds its template, which is exempt.       *)
THEOREM TemplatesExemptHolds == Spec => []TemplatesExempt
<1>1. ConfigManagerInv => TemplatesExempt
  BY DEF ConfigManagerInv, EntriesInv, TemplatesInv, Served, TemplatesExempt
<1> QED
  BY <1>1, InvHolds, PTL

(* What generated modules are given is the global section of the file.     *)
THEOREM GlobalConfigKeptHolds == Spec => []GlobalConfigKept
<1>1. ConfigManagerInv => GlobalConfigKept
  BY DEF ConfigManagerInv, GlobalInv, GlobalConfigKept
<1> QED
  BY <1>1, InvHolds, PTL
=============================================================================
