------------------------ MODULE ConfigManagerRefinement ------------------------
(***************************************************************************)
(* The constructor of ConfigManager implements the documented precedence:  *)
(* in whatever order it visits modules, loads voters and corrects          *)
(* configurations, its answer is one the documentation allows.             *)
(***************************************************************************)
EXTENDS ConfigManagerProofs, SequenceTheorems

-----------------------------------------------------------------------------
(* The operators of the documentation's module are those of this one.      *)

(* Names of options and groups.                                            *)
LEMMA SameNames ==
    /\ Documented!Option = Option /\ Documented!NoPart = NoPart
    /\ Documented!BlackBoxGroup = BlackBoxGroup
    /\ Documented!DefaultGroups = DefaultGroups
    /\ Documented!Flag = Flag
<1>1. Documented!Flag = Flag /\ Documented!Text = Text
  BY DEF Documented!Flag, Flag, Documented!Text, Text
<1>2. Documented!BlackBoxGroup = BlackBoxGroup /\ Documented!CdcGroup = CdcGroup
  BY DEF Documented!BlackBoxGroup, BlackBoxGroup, Documented!CdcGroup, CdcGroup
<1> QED
  BY <1>1, <1>2 DEF Documented!Option, Option, Documented!NoPart, NoPart,
                    Documented!DefaultGroups, DefaultGroups

(* What is read from a scope and from attributes.                          *)
LEMMA SameReading ==
    /\ \A f, g : Documented!Over(f, g) = Over(f, g)
    /\ \A raw : Documented!ParseConfig(raw) = ParseConfig(raw)
    /\ \A raw : Documented!ParseModuleAnnotations(raw) = ParseModuleAnnotations(raw)
    /\ \A f : Documented!Contents(f) = Contents(f)
    /\ \A f : Documented!Refused(f) <=> Refused(f)
    /\ \A es, n : Documented!Listed(es, n) = Listed(es, n)
<1>1. \A f, g : Documented!Over(f, g) = Over(f, g)
  BY DEF Documented!Over, Over
<1>2. \A raw : Documented!Understood(raw) = Understood(raw)
  BY DEF Documented!Understood, Understood, Documented!TmrMode, TmrMode,
         Documented!TmrVoter, TmrVoter
<1>3. \A raw : Documented!ParseConfig(raw) = ParseConfig(raw)
  BY <1>2 DEF Documented!ParseConfig, ParseConfig
<1>4. \A raw : Documented!ParseModuleAnnotations(raw) = ParseModuleAnnotations(raw)
  BY <1>2, SameNames DEF Documented!ParseModuleAnnotations, ParseModuleAnnotations
<1>5. \A f : Documented!Contents(f) = Contents(f)
  BY SameNames DEF Documented!Contents, Contents
<1>6. \A f : Documented!Refused(f) <=> Refused(f)
  BY DEF Documented!Refused, Refused
<1>7. \A es, n : Documented!Listed(es, n) = Listed(es, n)
  BY DEF Documented!Listed, Listed
<1> QED
  BY <1>1, <1>3, <1>4, <1>5, <1>6, <1>7

(* What decides about modules and voters.                                  *)
LEMMA SameDecisions ==
    /\ \A m : Documented!IsBlackBox(m) <=> IsBlackBox(m)
    /\ \A n : Documented!BaseName(n) = BaseName(n)
    /\ \A c : Documented!Acceptable(c) <=> Acceptable(c)
    /\ \A c : Documented!VoterId(c) = VoterId(c)
    /\ \A m, c : Documented!FitsVoter(m, c) <=> FitsVoter(m, c)
<1>1. \A m : Documented!IsBlackBox(m) <=> IsBlackBox(m)
  BY DEF Documented!IsBlackBox, IsBlackBox
<1>2. \A n : Documented!BaseName(n) = BaseName(n)
  BY DEF Documented!BaseName, BaseName
<1>3. \A c : Documented!Acceptable(c) <=> Acceptable(c)
  BY DEF Documented!Acceptable, Acceptable, Documented!UniqueSuffixes, UniqueSuffixes
<1>4. \A c : Documented!VoterId(c) = VoterId(c)
  BY DEF Documented!VoterId, VoterId
<1>5. \A m, c : Documented!FitsVoter(m, c) <=> FitsVoter(m, c)
  BY DEF Documented!FitsVoter, FitsVoter
<1> QED
  BY <1>1, <1>2, <1>3, <1>4, <1>5

(* The type of the input.                                                  *)
LEMMA SameInputType ==
    ASSUME NEW i
    PROVE  Documented!InputType(i) <=> InputType(i)
<1>1. Documented!Option = Option /\ Documented!Flag = Flag
  BY SameNames
<1>2. Documented!Name = Name
  BY DEF Documented!Name, Name
<1>3. \A raw : Documented!IsScope(raw) <=> IsScope(raw)
  BY <1>1 DEF Documented!IsScope, IsScope
<1>4. \A raw : Documented!IsAttributes(raw) <=> IsAttributes(raw)
  BY <1>1 DEF Documented!IsAttributes, IsAttributes
<1>5. \A m : Documented!IsModule(m) <=> IsModule(m)
  BY <1>2, <1>4 DEF Documented!IsModule, IsModule
<1>6. \A ms : Documented!IsModules(ms) <=> IsModules(ms)
  BY <1>2, <1>5 DEF Documented!IsModules, IsModules
<1>7. \A es : Documented!IsEntries(es) <=> IsEntries(es)
  BY <1>2, <1>3 DEF Documented!IsEntries, IsEntries
<1>8. \A f : Documented!IsFile(f) <=> IsFile(f)
  BY <1>3, <1>7 DEF Documented!IsFile, IsFile
<1> QED
  BY <1>6, <1>8 DEF Documented!InputType, InputType

-----------------------------------------------------------------------------
(* Assembling sequences of parts.                                          *)

(* The positions of the parts that set an option, and the last of them.    *)
Setting(parts, o) == {k \in DOMAIN parts : o \in DOMAIN parts[k]}

(* Positions in a sequence, the last of which is the greatest.             *)
LEMMA SettingFacts ==
    ASSUME NEW parts \in Seq(ConfigPart), NEW o
    PROVE  /\ Setting(parts, o) \in SUBSET (1..Len(parts)) /\ Len(parts) \in Nat
           /\ Setting(parts, o) # {} =>
                /\ Max(Setting(parts, o)) \in Setting(parts, o)
                /\ \A k \in Setting(parts, o) : Max(Setting(parts, o)) >= k
<1>1. DOMAIN parts = 1..Len(parts) /\ Len(parts) \in Nat
  OBVIOUS
<1>2. Setting(parts, o) \in SUBSET (1..Len(parts))
  BY <1>1 DEF Setting
<1> QED
  BY <1>1, <1>2, MaxExists

(* What a configuration assembled from parts gives an option.              *)
LEMMA AssembledOption ==
    ASSUME NEW parts, NEW d, NEW o \in Option
    PROVE  AssembleConfig(parts, d)[o] =
             IF Setting(parts, o) = {} THEN d[o] ELSE parts[Max(Setting(parts, o))][o]
BY DEF AssembleConfig, Setting

(* Configurations are equal if they give every option the same value.      *)
LEMMA SameConfig ==
    ASSUME NEW c, IsFullCfg(c), NEW d, IsFullCfg(d), \A o \in Option : c[o] = d[o]
    PROVE  c = d
BY DEF IsFullCfg

(* Assembling one sequence of parts after another.                         *)
LEMMA AssembledInTurn ==
    ASSUME NEW s \in Seq(ConfigPart), NEW t \in Seq(ConfigPart), NEW d, IsFullCfg(d)
    PROVE  /\ IsFullCfg(AssembleConfig(s \o t, d))
           /\ AssembleConfig(s \o t, d) = AssembleConfig(t, AssembleConfig(s, d))
<1>1. s \o t \in Seq(ConfigPart)
  OBVIOUS
<1>2. IsFullCfg(AssembleConfig(s, d)) /\ IsFullCfg(AssembleConfig(s \o t, d))
  BY <1>1, Assembled DEF IsFullCfg
<1>3. IsFullCfg(AssembleConfig(t, AssembleConfig(s, d)))
  BY <1>2, Assembled DEF IsFullCfg
<1>4. /\ Len(s) \in Nat /\ Len(t) \in Nat /\ Len(s \o t) = Len(s) + Len(t)
      /\ DOMAIN s = 1..Len(s) /\ DOMAIN t = 1..Len(t) /\ DOMAIN (s \o t) = 1..(Len(s) + Len(t))
      /\ \A k \in 1..(Len(s) + Len(t)) : (s \o t)[k] = IF k =< Len(s) THEN s[k] ELSE t[k - Len(s)]
  OBVIOUS
<1>5. ASSUME NEW o \in Option
      PROVE  AssembleConfig(s \o t, d)[o] = AssembleConfig(t, AssembleConfig(s, d))[o]
  <2> DEFINE S == Setting(s, o)
             T == Setting(t, o)
             U == Setting(s \o t, o)
  <2>1. \A k \in 1..Len(s) : k \in U <=> k \in S
    BY <1>4 DEF Setting
  <2>2. \A k \in 1..Len(t) : k + Len(s) \in U <=> k \in T
    <3> SUFFICES ASSUME NEW k \in 1..Len(t) PROVE k + Len(s) \in U <=> k \in T
      OBVIOUS
    <3>1. k + Len(s) \in 1..(Len(s) + Len(t)) /\ ~(k + Len(s) =< Len(s)) /\ k + Len(s) - Len(s) = k
      BY <1>4
    <3>2. (s \o t)[k + Len(s)] = t[k]
      BY <1>4, <3>1
    <3> QED
      BY <1>4, <3>1, <3>2 DEF Setting
  <2>3. \A k \in U : k \in 1..Len(s) \/ (k - Len(s) \in 1..Len(t) /\ (k - Len(s)) + Len(s) = k)
    <3>1. U \in SUBSET (1..(Len(s) + Len(t)))
      BY <1>4 DEF Setting
    <3> QED
      BY <1>4, <3>1
  <2>4. S \in SUBSET (1..Len(s)) /\ T \in SUBSET (1..Len(t)) /\ U \in SUBSET (1..(Len(s) + Len(t)))
    BY <1>4 DEF Setting
  <2>5. /\ S # {} => Max(S) \in S /\ \A k \in S : Max(S) >= k
        /\ T # {} => Max(T) \in T /\ \A k \in T : Max(T) >= k
        /\ U # {} => Max(U) \in U /\ \A k \in U : Max(U) >= k
    BY <1>1, SettingFacts
  <2>6. /\ AssembleConfig(s \o t, d)[o] = IF U = {} THEN d[o] ELSE (s \o t)[Max(U)][o]
        /\ AssembleConfig(s, d)[o] = IF S = {} THEN d[o] ELSE s[Max(S)][o]
        /\ AssembleConfig(t, AssembleConfig(s, d))[o] =
             IF T = {} THEN AssembleConfig(s, d)[o] ELSE t[Max(T)][o]
    BY AssembledOption
  <2> HIDE DEF S, T, U
  <2>7. CASE T # {}
    <3>1. Max(T) \in 1..Len(t) /\ Max(T) + Len(s) \in U
      BY <2>2, <2>4, <2>5, <2>7
    <3>2. U # {} /\ Max(U) >= Max(T) + Len(s) /\ Max(U) \in U
      BY <2>5, <3>1
    <3>3. Max(U) \in 1..(Len(s) + Len(t))
      BY <2>4, <3>2
    <3>4. Max(U) \notin 1..Len(s)
      BY <1>4, <3>1, <3>2, <3>3
    <3>5. Max(U) - Len(s) \in 1..Len(t) /\ (Max(U) - Len(s)) + Len(s) = Max(U)
      BY <2>3, <3>2, <3>4
    <3>6. Max(U) - Len(s) \in T
      BY <2>2, <3>2, <3>5
    <3>7. Max(T) >= Max(U) - Len(s)
      BY <2>5, <2>7, <3>6
    <3>8. Max(U) = Max(T) + Len(s)
      BY <1>4, <3>1, <3>2, <3>3, <3>7
    <3>9. (s \o t)[Max(U)] = t[Max(T)]
      <4>1. ~(Max(U) =< Len(s)) /\ Max(U) - Len(s) = Max(T)
        BY <1>4, <3>1, <3>8
      <4> QED
        BY <1>4, <3>3, <4>1
    <3> QED
      BY <2>6, <2>7, <3>2, <3>9
  <2>8. CASE T = {} /\ S # {}
    <3>1. Max(S) \in 1..Len(s) /\ Max(S) \in U
      BY <2>1, <2>4, <2>5, <2>8
    <3>2. U # {} /\ Max(U) >= Max(S) /\ Max(U) \in U
      BY <2>5, <3>1
    <3>3. Max(U) \in 1..Len(s)
      BY <2>2, <2>3, <2>8, <3>2
    <3>4. Max(U) \in S
      BY <2>1, <3>2, <3>3
    <3>5. Max(S) >= Max(U)
      BY <2>5, <2>8, <3>4
    <3>6. Max(U) = Max(S)
      BY <1>4, <3>1, <3>2, <3>3, <3>5
    <3>7. (s \o t)[Max(U)] = s[Max(S)]
      <4>1. Max(U) \in 1..(Len(s) + Len(t)) /\ Max(U) =< Len(s)
        BY <1>4, <3>3
      <4> QED
        BY <1>4, <3>6, <4>1
    <3> QED
      BY <2>6, <2>8, <3>2, <3>7
  <2>9. CASE T = {} /\ S = {}
    <3>1. U = {}
      BY <2>1, <2>2, <2>3, <2>9
    <3> QED
      BY <2>6, <2>9, <3>1
  <2> QED
    BY <2>7, <2>8, <2>9
<1> QED
  BY <1>2, <1>3, <1>5, SameConfig

(* Assembling the same parts twice is assembling them once.                *)
LEMMA AssembledTwice ==
    ASSUME NEW s \in Seq(ConfigPart), NEW d, IsFullCfg(d)
    PROVE  AssembleConfig(s, AssembleConfig(s, d)) = AssembleConfig(s, d)
<1>1. IsFullCfg(AssembleConfig(s, d))
  BY Assembled DEF IsFullCfg
<1>2. IsFullCfg(AssembleConfig(s, AssembleConfig(s, d)))
  BY <1>1, Assembled DEF IsFullCfg
<1>3. \A o \in Option : AssembleConfig(s, AssembleConfig(s, d))[o] = AssembleConfig(s, d)[o]
  BY AssembledOption
<1> QED
  BY <1>1, <1>2, <1>3, SameConfig

(* A part alone, after others, and over what it was laid over before.      *)
LEMMA AssembledLast ==
    ASSUME NEW s \in Seq(ConfigPart), NEW p, IsPart(p), NEW d, IsFullCfg(d)
    PROVE  /\ AssembleConfig(s \o <<p>>, d) = Over(p, AssembleConfig(s, d))
           /\ IsFullCfg(AssembleConfig(s \o <<p>>, d))
<1>1. <<p>> \in Seq(ConfigPart)
  BY PartSet
<1>2. IsFullCfg(AssembleConfig(s, d))
  BY Assembled DEF IsFullCfg
<1>3. AssembleConfig(<<p>>, AssembleConfig(s, d)) = Over(p, AssembleConfig(s, d))
  BY <1>2, AssembledOnce DEF IsFullCfg
<1> QED
  BY <1>1, <1>3, AssembledInTurn

(* A part laid over a configuration.                                       *)
LEMMA PartOver ==
    ASSUME NEW p, IsPart(p), NEW d, IsFullCfg(d)
    PROVE  IsFullCfg(Over(p, d)) /\ Over(p, Over(p, d)) = Over(p, d)
<1>1. DOMAIN p \subseteq Option /\ DOMAIN d = Option
  BY DEF IsPart, IsConfigPart, IsFullCfg, IsConfig
<1>2. IsFullCfg(Over(p, d))
  BY <1>1 DEF Over, IsPart, IsConfigPart, IsFullCfg, IsConfig
<1>3. DOMAIN Over(p, d) = Option
  BY <1>2 DEF IsFullCfg, IsConfig
<1> QED
  BY <1>1, <1>2, <1>3 DEF Over

(* Nothing laid over a configuration.                                      *)
LEMMA NothingOver ==
    ASSUME NEW d, IsFullCfg(d)
    PROVE  Over(NoPart, d) = d
BY DEF Over, NoPart, IsFullCfg, IsConfig

-----------------------------------------------------------------------------
(* Groups.                                                                 *)

(* The parts of the groups of a list.                                      *)
PartsOf(i, groups) == [k \in DOMAIN groups |-> Documented!GroupScope(i, groups[k])]

(* The layer of a list of groups, laid over d.                             *)
Grouped(i, groups, d) == AssembleConfig(PartsOf(i, groups), d)

(* What a group says, whether the file has it or not.                      *)
LEMMA GroupScopeIs ==
    ASSUME NEW i, NEW g
    PROVE  LET f == Contents(i.file)
               cfg == Over([x \in DOMAIN f.group |-> ParseConfig(f.group[x])], DefaultGroups)
           IN  Documented!GroupScope(i, g) = IF g \in DOMAIN cfg THEN cfg[g] ELSE NoPart
<1> DEFINE f == Contents(i.file)
           read == [x \in DOMAIN f.group |-> ParseConfig(f.group[x])]
           cfg == Over(read, DefaultGroups)
<1>1. Documented!GroupScope(i, g) =
        CASE g \in DOMAIN f.group -> ParseConfig(f.group[g])
          [] g \in DOMAIN DefaultGroups \ DOMAIN f.group -> DefaultGroups[g]
          [] OTHER -> NoPart
  BY SameNames, SameReading DEF Documented!GroupScope
<1>2. DOMAIN read = DOMAIN f.group /\ \A x \in DOMAIN f.group : read[x] = ParseConfig(f.group[x])
  OBVIOUS
<1> HIDE DEF read
<1>3. /\ DOMAIN cfg = DOMAIN read \cup DOMAIN DefaultGroups
      /\ \A x \in DOMAIN read : cfg[x] = read[x]
      /\ \A x \in DOMAIN DefaultGroups \ DOMAIN read : cfg[x] = DefaultGroups[x]
  BY OverFacts
<1> HIDE DEF cfg, f
<1>4. Documented!GroupScope(i, g) = IF g \in DOMAIN cfg THEN cfg[g] ELSE NoPart
  <2>1. CASE g \in DOMAIN f.group
    BY <1>1, <1>2, <1>3, <2>1
  <2>2. CASE g \in DOMAIN DefaultGroups \ DOMAIN f.group
    BY <1>1, <1>2, <1>3, <2>2
  <2>3. CASE g \notin DOMAIN DefaultGroups \cup DOMAIN f.group
    BY <1>1, <1>2, <1>3, <2>3
  <2> QED
    BY <2>1, <2>2, <2>3
<1> QED
  BY <1>4 DEF cfg, read, f

(* It is a partial configuration.                                          *)
LEMMA GroupScopeType ==
    ASSUME NEW i, InputType(i), NEW g
    PROVE  IsPart(Documented!GroupScope(i, g))
<1>1. \A x \in DOMAIN Contents(i.file).group : IsPart(ParseConfig(Contents(i.file).group[x]))
  BY FileContents, ParsedScope DEF InputType
<1>2. \A x \in DOMAIN DefaultGroups : IsPart(DefaultGroups[x])
  BY Defaults
<1>3. IsPart(NoPart)
  BY Defaults
<1> QED
  BY <1>1, <1>2, <1>3, GroupScopeIs DEF Over

(* The parts of a list are a sequence, and lists join as sequences do.     *)
LEMMA GroupPartsFacts ==
    ASSUME NEW i, InputType(i), NEW s \in Seq(String), NEW t \in Seq(String)
    PROVE  /\ PartsOf(i, s) \in Seq(ConfigPart)
           /\ PartsOf(i, s \o t) = PartsOf(i, s) \o PartsOf(i, t)
<1>1. \A g : Documented!GroupScope(i, g) \in ConfigPart
  BY GroupScopeType, PartSet
<1>2. ASSUME NEW u \in Seq(String)
      PROVE  /\ PartsOf(i, u) \in Seq(ConfigPart) /\ Len(PartsOf(i, u)) = Len(u)
             /\ \A k \in 1..Len(u) : PartsOf(i, u)[k] = Documented!GroupScope(i, u[k])
  <2>1. DOMAIN u = 1..Len(u) /\ Len(u) \in Nat
    OBVIOUS
  <2>2. PartsOf(i, u) \in [1..Len(u) -> ConfigPart]
    BY <1>1, <2>1 DEF PartsOf
  <2>3. \A k \in 1..Len(u) : PartsOf(i, u)[k] = Documented!GroupScope(i, u[k])
    BY <2>1 DEF PartsOf
  <2> QED
    BY <2>1, <2>2, <2>3
<1> DEFINE a == PartsOf(i, s)
           b == PartsOf(i, t)
           c == PartsOf(i, s \o t)
<1>3. s \o t \in Seq(String) /\ Len(s \o t) = Len(s) + Len(t) /\ Len(s) \in Nat /\ Len(t) \in Nat
      /\ \A k \in 1..(Len(s) + Len(t)) : (s \o t)[k] = IF k =< Len(s) THEN s[k] ELSE t[k - Len(s)]
  OBVIOUS
<1>4. /\ a \in Seq(ConfigPart) /\ Len(a) = Len(s)
      /\ b \in Seq(ConfigPart) /\ Len(b) = Len(t)
      /\ c \in Seq(ConfigPart) /\ Len(c) = Len(s) + Len(t)
      /\ \A k \in 1..Len(s) : a[k] = Documented!GroupScope(i, s[k])
      /\ \A k \in 1..Len(t) : b[k] = Documented!GroupScope(i, t[k])
      /\ \A k \in 1..(Len(s) + Len(t)) : c[k] = Documented!GroupScope(i, (s \o t)[k])
  BY <1>2, <1>3
<1> HIDE DEF a, b, c
<1>5. a \o b \in Seq(ConfigPart) /\ Len(a \o b) = Len(s) + Len(t)
      /\ \A k \in 1..(Len(s) + Len(t)) : (a \o b)[k] = IF k =< Len(s) THEN a[k] ELSE b[k - Len(s)]
  <2>1. /\ a \o b \in Seq(ConfigPart) /\ Len(a \o b) = Len(a) + Len(b)
        /\ \A k \in 1..(Len(a) + Len(b)) :
             (a \o b)[k] = IF k =< Len(a) THEN a[k] ELSE b[k - Len(a)]
    <3>1. a \in Seq(ConfigPart) /\ b \in Seq(ConfigPart)
      BY <1>4
    <3> QED
      BY <3>1
  <2> QED
    BY <1>4, <2>1
<1>6. ASSUME NEW k \in 1..(Len(s) + Len(t)) PROVE c[k] = (a \o b)[k]
  <2>1. CASE k =< Len(s)
    <3>1. k \in 1..Len(s)
      BY <1>3, <2>1
    <3> QED
      BY <1>3, <1>4, <1>5, <2>1, <3>1
  <2>2. CASE ~(k =< Len(s))
    <3>1. k - Len(s) \in 1..Len(t)
      BY <1>3, <2>2
    <3>2. c[k] = Documented!GroupScope(i, t[k - Len(s)])
      BY <1>3, <1>4, <2>2
    <3>3. (a \o b)[k] = b[k - Len(s)]
      BY <1>5, <2>2
    <3> QED
      BY <1>4, <3>1, <3>2, <3>3
  <2> QED
    BY <2>1, <2>2
<1>7. c = a \o b
  BY <1>4, <1>5, <1>6, SeqEqual
<1> QED
  BY <1>4, <1>7 DEF a, b, c

(* Lists of groups, one after another and twice.                           *)
LEMMA GroupedInTurn ==
    ASSUME NEW i, InputType(i), NEW s \in Seq(String), NEW t \in Seq(String),
           NEW d, IsFullCfg(d)
    PROVE  /\ IsFullCfg(Grouped(i, s, d))
           /\ Grouped(i, s \o t, d) = Grouped(i, t, Grouped(i, s, d))
           /\ Grouped(i, s, Grouped(i, s, d)) = Grouped(i, s, d)
<1>1. /\ PartsOf(i, s) \in Seq(ConfigPart) /\ PartsOf(i, t) \in Seq(ConfigPart)
      /\ PartsOf(i, s \o t) = PartsOf(i, s) \o PartsOf(i, t)
  BY GroupPartsFacts
<1>2. IsFullCfg(Grouped(i, s, d))
  BY <1>1, Assembled DEF Grouped, IsFullCfg
<1>3. Grouped(i, s \o t, d) = Grouped(i, t, Grouped(i, s, d))
  BY <1>1, AssembledInTurn DEF Grouped
<1>4. Grouped(i, s, Grouped(i, s, d)) = Grouped(i, s, d)
  BY <1>1, AssembledTwice DEF Grouped
<1> QED
  BY <1>2, <1>3, <1>4

(* The documented layer of a list of groups.                               *)
LEMMA GroupLayer ==
    ASSUME NEW i, InputType(i), NEW groups \in Seq(String), NEW d, IsFullCfg(d)
    PROVE  Over(Documented!GroupPart(i, groups), d) = Grouped(i, groups, d)
<1> DEFINE parts == PartsOf(i, groups)
           S(o) == Setting(parts, o)
           p == [o \in {x \in Option : S(x) # {}} |->
                   Documented!GroupScope(i, groups[Max(S(o))])[o]]
<1>1. \A o : S(o) = {k \in DOMAIN groups : o \in DOMAIN Documented!GroupScope(i, groups[k])}
  BY DEF Setting, PartsOf
<1>2. Documented!GroupPart(i, groups) = p
  <2>1. \A T : Documented!Max(T) = Max(T)
    BY DEF Documented!Max, Max
  <2>2. Documented!GroupPart(i, groups) =
          [o \in {x \in Option :
                    {k \in DOMAIN groups : x \in DOMAIN Documented!GroupScope(i, groups[k])} # {}}
             |-> Documented!GroupScope(i, groups[Max(
                    {k \in DOMAIN groups : o \in DOMAIN Documented!GroupScope(i, groups[k])})])[o]]
    BY <2>1, SameNames DEF Documented!GroupPart
  <2> QED
    BY <1>1, <2>2
<1>3. \A o : S(o) # {} => Max(S(o)) \in S(o)
  BY GroupPartsFacts, SettingFacts
<1>4. \A o : S(o) # {} => parts[Max(S(o))] = Documented!GroupScope(i, groups[Max(S(o))])
  BY <1>1, <1>3 DEF PartsOf
<1>5. DOMAIN d = Option
  BY DEF IsFullCfg, IsConfig
<1>6. DOMAIN p \subseteq Option
  OBVIOUS
<1>7. \A o \in Option :
        Over(p, d)[o] = IF S(o) # {} THEN Documented!GroupScope(i, groups[Max(S(o))])[o] ELSE d[o]
  BY <1>5 DEF Over
<1>8. \A o \in Option :
        AssembleConfig(parts, d)[o] = IF S(o) = {} THEN d[o] ELSE parts[Max(S(o))][o]
  BY AssembledOption
<1>9. \A o \in Option : Over(p, d)[o] = Grouped(i, groups, d)[o]
  BY <1>4, <1>7, <1>8 DEF Grouped
<1>10. Over(p, d) = [o \in Option |-> Over(p, d)[o]]
  BY <1>5, <1>6 DEF Over
<1> HIDE DEF p, S, parts
<1>11. Grouped(i, groups, d) = [o \in Option |-> Grouped(i, groups, d)[o]]
  BY DEF Grouped, AssembleConfig
<1> QED
  BY <1>2, <1>9, <1>10, <1>11

-----------------------------------------------------------------------------
(* The lists of groups of a module, as the code and as the documentation   *)
(* put them together.                                                      *)

(* Lists of groups are sequences of strings.                               *)
LEMMA ListTypes ==
    ASSUME NEW i, InputType(i), NEW n
    PROVE  /\ FileGroups(i, n) \in Seq(String)
           /\ n \in DOMAIN i.modules =>
                i.modules[n].groups \in Seq(String) /\ IsAttributes(i.modules[n].attrs)
           /\ \A m : BlackBoxGroupOf(m) \in Seq(String)
           /\ <<BlackBoxGroup>> \in Seq(String) /\ <<>> \in Seq(String)
<1>1. \A es : IsEntries(es) => Listed(es, n) \in Seq(String)
  BY DEF Listed, IsEntries
<1>2. Listed(Contents(i.file).module, n) \in Seq(String)
      /\ Listed(Contents(i.file).specific, n) \in Seq(String)
  BY <1>1, FileContents DEF InputType
<1>3. FileGroups(i, n) \in Seq(String)
  BY <1>2 DEF FileGroups
<1>4. BlackBoxGroup \in String
  BY StringAssumption
<1>5. \A b \in String : <<b>> \in Seq(String) /\ <<>> \in Seq(String)
  OBVIOUS
<1>6. \A m : BlackBoxGroupOf(m) \in Seq(String)
  BY <1>4, <1>5 DEF BlackBoxGroupOf
<1>7. n \in DOMAIN i.modules =>
        i.modules[n].groups \in Seq(String) /\ IsAttributes(i.modules[n].attrs)
  BY DEF InputType, IsModules, IsModule
<1> QED
  BY <1>3, <1>4, <1>5, <1>6, <1>7

(* A black box belongs to its group once, whatever makes it one.           *)
LEMMA BoxGroups ==
    ASSUME NEW i, InputType(i), NEW m, NEW d, IsFullCfg(d)
    PROVE  Grouped(i, BlackBoxGroupOf(m), d) =
             Grouped(i, IF IsBlackBox(m) THEN <<BlackBoxGroup>> ELSE <<>>, d)
<1> DEFINE B == <<BlackBoxGroup>>
<1>1. B \in Seq(String) /\ <<>> \in Seq(String)
  BY ListTypes
<1>2. B \o B \in Seq(String) /\ B \o <<>> = B /\ <<>> \o B = B /\ <<>> \o <<>> = <<>>
  BY <1>1
<1> HIDE DEF B
<1>3. Grouped(i, B \o B, d) = Grouped(i, B, d)
  <2>1. Grouped(i, B \o B, d) = Grouped(i, B, Grouped(i, B, d))
    BY <1>1, GroupedInTurn
  <2>2. Grouped(i, B, Grouped(i, B, d)) = Grouped(i, B, d)
    BY <1>1, GroupedInTurn
  <2> QED
    BY <2>1, <2>2
<1>4. BlackBoxGroupOf(m) = (IF m.mems \/ m.procs THEN B ELSE <<>>) \o (IF m.bb THEN B ELSE <<>>)
  BY DEF BlackBoxGroupOf, B
<1>5. CASE m.bb /\ (m.mems \/ m.procs)
  BY <1>3, <1>4, <1>5 DEF IsBlackBox, B
<1>6. CASE m.bb /\ ~(m.mems \/ m.procs)
  BY <1>2, <1>4, <1>6 DEF IsBlackBox, B
<1>7. CASE ~m.bb /\ (m.mems \/ m.procs)
  BY <1>2, <1>4, <1>7 DEF IsBlackBox, B
<1>8. CASE ~m.bb /\ ~(m.mems \/ m.procs)
  BY <1>2, <1>4, <1>8 DEF IsBlackBox, B
<1> QED
  BY <1>5, <1>6, <1>7, <1>8

(* The list of the code and that of the documentation say the same.        *)
LEMMA SameGroups ==
    ASSUME NEW i, InputType(i), NEW n, NEW d, IsFullCfg(d)
    PROVE  /\ GroupList(i, n) \in Seq(String) /\ Documented!GroupsOf(i, n) \in Seq(String)
           /\ Grouped(i, GroupList(i, n), d) = Grouped(i, Documented!GroupsOf(i, n), d)
<1> DEFINE F == FileGroups(i, n)
           g == i.modules[n].groups
           C == BlackBoxGroupOf(i.modules[n])
           D == IF IsBlackBox(i.modules[n]) THEN <<BlackBoxGroup>> ELSE <<>>
<1>1. F \in Seq(String)
  BY ListTypes
<1>2. Documented!GroupsOf(i, n) = F \o (IF n \in DOMAIN i.modules THEN g \o D ELSE <<>>)
  BY SameNames, SameReading, SameDecisions DEF Documented!GroupsOf, FileGroups
<1>3. CASE n \in DOMAIN i.modules
  <2>1. g \in Seq(String) /\ C \in Seq(String) /\ D \in Seq(String)
    BY <1>3, ListTypes
  <2>2. GroupList(i, n) = (F \o g) \o C /\ Documented!GroupsOf(i, n) = F \o (g \o D)
    BY <1>2, <1>3 DEF GroupList
  <2>3. IsFullCfg(Grouped(i, F, d))
    BY <1>1, GroupedInTurn
  <2>4. IsFullCfg(Grouped(i, g, Grouped(i, F, d)))
    BY <2>1, <2>3, GroupedInTurn
  <2>5. Grouped(i, C, Grouped(i, g, Grouped(i, F, d))) = Grouped(i, D, Grouped(i, g, Grouped(i, F, d)))
    BY <2>4, BoxGroups
  <2> HIDE DEF F, g, C, D
  <2>6. F \o g \in Seq(String) /\ g \o D \in Seq(String)
        /\ (F \o g) \o C \in Seq(String) /\ F \o (g \o D) \in Seq(String)
    BY <1>1, <2>1
  <2> DEFINE fg == F \o g
             gd == g \o D
  <2>0. fg \in Seq(String) /\ gd \in Seq(String)
    BY <2>6
  <2> HIDE DEF fg, gd
  <2>7. Grouped(i, fg \o C, d) = Grouped(i, C, Grouped(i, fg, d))
    BY <2>0, <2>1, GroupedInTurn
  <2>8. Grouped(i, F \o g, d) = Grouped(i, g, Grouped(i, F, d))
    BY <1>1, <2>1, GroupedInTurn
  <2>9. Grouped(i, F \o gd, d) = Grouped(i, gd, Grouped(i, F, d))
    BY <1>1, <2>0, GroupedInTurn
  <2>10. Grouped(i, g \o D, Grouped(i, F, d)) = Grouped(i, D, Grouped(i, g, Grouped(i, F, d)))
    BY <2>1, <2>3, GroupedInTurn
  <2> QED
    BY <2>2, <2>5, <2>6, <2>7, <2>8, <2>9, <2>10 DEF fg, gd
<1>4. CASE n \notin DOMAIN i.modules
  <2>1. Documented!GroupsOf(i, n) = F \o <<>> /\ GroupList(i, n) = F
    BY <1>2, <1>4 DEF GroupList
  <2>2. F \o <<>> = F
    BY <1>1
  <2> QED
    BY <1>1, <2>1, <2>2
<1> QED
  BY <1>3, <1>4

-----------------------------------------------------------------------------
(* The cascade.                                                            *)

(* The layers above the groups, and the global configuration.              *)
Upper(i, n, d) ==
    LET f == Contents(i.file)
        Entry(es, x) == IF x \in DOMAIN es THEN ParseConfig(es[x].part) ELSE NoPart
        m == i.modules[n]
    IN  Over(IF m.proper THEN Entry(f.specific, n) ELSE NoPart,
        Over(ParseModuleAnnotations(m.attrs),
        Over(Entry(f.module, IF m.proper THEN BaseName(n) ELSE n), d)))

GlobalOf(i) == Over(ParseConfig(Contents(i.file).global), DefaultConfig)

(* It is a configuration.                                                  *)
LEMMA GlobalType ==
    ASSUME NEW i, InputType(i)
    PROVE  IsFullCfg(GlobalOf(i)) /\ IsPart(ParseConfig(Contents(i.file).global))
<1>1. IsPart(ParseConfig(Contents(i.file).global))
  BY FileContents, ParsedScope DEF InputType
<1> QED
  BY <1>1, Defaults, PartOver DEF GlobalOf

(* The groups of a unique copy, and those of its base name.                *)
GroupLists(i, n, d) ==
    IF i.modules[n].proper THEN Grouped(i, GroupList(i, n), Grouped(i, GroupList(i, BaseName(n)), d))
    ELSE Grouped(i, GroupList(i, n), d)

(* That a name without a '$' is its own base name does not matter.         *)
LEMMA LayersOfGroups ==
    ASSUME NEW i, InputType(i), NEW n \in DOMAIN i.modules, NEW d, IsFullCfg(d)
    PROVE  /\ Over(Documented!GroupPart(i, Documented!Groups(i, n)), d) = GroupLists(i, n, d)
           /\ IsFullCfg(GroupLists(i, n, d))
<1> DEFINE own == Documented!GroupsOf(i, n)
           base == Documented!GroupsOf(i, BaseName(n))
           mark == i.modules[n].proper
<1>1. n \in Name /\ Len(n) \in Nat /\ Len(n) > 0
  <2>1. n \in Name
    BY DEF InputType, IsModules
  <2> QED
    BY <2>1 DEF Name
<1>2. ~(Len(n) > 1) => BaseName(n) = n
  <2>1. ~(Len(n) > 1) => Len(n) = 1
    <3>1. \A k \in Nat : (k > 0 /\ ~(k > 1)) => k = 1
      OBVIOUS
    <3> QED
      BY <1>1, <3>1
  <2>2. Len(n) = 1 => <<n[1]>> = n
    BY <1>1 DEF Name
  <2> QED
    BY <2>1, <2>2 DEF BaseName
<1>3. Documented!Groups(i, n) = IF mark /\ Len(n) > 1 THEN base \o own ELSE own
  BY SameDecisions DEF Documented!Groups
<1>4. own \in Seq(String) /\ base \in Seq(String)
      /\ GroupList(i, n) \in Seq(String) /\ GroupList(i, BaseName(n)) \in Seq(String)
  BY SameGroups
<1>5. \A c : IsFullCfg(c) =>
        /\ Grouped(i, GroupList(i, n), c) = Grouped(i, own, c)
        /\ Grouped(i, GroupList(i, BaseName(n)), c) = Grouped(i, base, c)
        /\ IsFullCfg(Grouped(i, own, c)) /\ IsFullCfg(Grouped(i, base, c))
  BY <1>4, SameGroups, GroupedInTurn
<1> HIDE DEF own, base, mark
<1>6. base \o own \in Seq(String) /\ Documented!Groups(i, n) \in Seq(String)
  BY <1>3, <1>4
<1>7. Over(Documented!GroupPart(i, Documented!Groups(i, n)), d) = Grouped(i, Documented!Groups(i, n), d)
  BY <1>6, GroupLayer
<1>8. Grouped(i, base \o own, d) = Grouped(i, own, Grouped(i, base, d))
  BY <1>4, GroupedInTurn
<1>9. ~(Len(n) > 1) => Grouped(i, own, Grouped(i, base, d)) = Grouped(i, own, d)
  <2>1. Grouped(i, own, Grouped(i, own, d)) = Grouped(i, own, d)
    BY <1>4, GroupedInTurn
  <2>2. ~(Len(n) > 1) => base = own
    BY <1>2 DEF base, own
  <2> QED
    BY <2>1, <2>2
<1>10. CASE mark
  <2>1. GroupLists(i, n, d) = Grouped(i, own, Grouped(i, base, d))
    BY <1>5, <1>10 DEF GroupLists, mark
  <2> QED
    BY <1>3, <1>5, <1>7, <1>8, <1>9, <1>10, <2>1
<1>11. CASE ~mark
  BY <1>3, <1>5, <1>7, <1>11 DEF GroupLists, mark
<1> QED
  BY <1>10, <1>11

(* The documented cascade, in the terms of the code.                       *)
LEMMA CascadeIs ==
    ASSUME NEW i, InputType(i), NEW n \in DOMAIN i.modules
    PROVE  /\ Documented!Cascade(i, n) = Upper(i, n, GroupLists(i, n, GlobalOf(i)))
           /\ IsFullCfg(Documented!Cascade(i, n))
<1> DEFINE d == GroupLists(i, n, GlobalOf(i))
           f == Contents(i.file)
           m == i.modules[n]
           Entry(es, x) == IF x \in DOMAIN es THEN ParseConfig(es[x].part) ELSE NoPart
           S == IF m.proper THEN Entry(f.specific, n) ELSE NoPart
           A == ParseModuleAnnotations(m.attrs)
           M == Entry(f.module, IF m.proper THEN BaseName(n) ELSE n)
           G == Over(Documented!GroupPart(i, Documented!Groups(i, n)), GlobalOf(i))
<1>1. Documented!Global(i) = GlobalOf(i)
  BY SameGlobal DEF GlobalOf
<1>2. \A es, x : Documented!Scope(es, x) = Entry(es, x)
  BY SameNames, SameReading DEF Documented!Scope
<1>3. Documented!SpecificPart(i, n) = S
  BY <1>2, SameNames, SameReading DEF Documented!SpecificPart
<1>4. Documented!ModulePart(i, n) = M
  BY <1>2, SameReading, SameDecisions DEF Documented!ModulePart
<1>5. Documented!ParseModuleAnnotations(m.attrs) = A
  BY SameReading
<1>6. G = d /\ IsFullCfg(d)
  BY LayersOfGroups, GlobalType
<1>7. IsPart(S) /\ IsPart(A) /\ IsPart(M)
  <2>1. \A es, x : IsEntries(es) => IsPart(Entry(es, x))
    BY ParsedScope, Defaults DEF IsEntries
  <2>2. IsEntries(f.module) /\ IsEntries(f.specific)
    BY FileContents DEF InputType
  <2>3. IsPart(A)
    BY ListTypes, ParsedAttributes
  <2>4. IsPart(NoPart)
    BY Defaults
  <2> HIDE DEF Entry, A, f, m
  <2> QED
    BY <2>1, <2>2, <2>3, <2>4
<1>8. Upper(i, n, d) = Over(S, Over(A, Over(M, d)))
  BY DEF Upper
<1> HIDE DEF S, A, M, G, d, m, f
<1>9. Documented!Cascade(i, n) = Over(S, Over(A, Over(M, G)))
  BY <1>1, <1>3, <1>4, <1>5, SameReading DEF Documented!Cascade, m, G
<1>10. IsFullCfg(Over(M, d))
  BY <1>6, <1>7, PartOver
<1>11. IsFullCfg(Over(A, Over(M, d)))
  BY <1>7, <1>10, PartOver
<1>12. IsFullCfg(Over(S, Over(A, Over(M, d))))
  BY <1>7, <1>11, PartOver
<1> QED
  BY <1>6, <1>8, <1>9, <1>12 DEF d

(* The layers that the constructor assembles for a module are those of the *)
(* documented precedence.                                                  *)
LEMMA AssembledCascade ==
    ASSUME ConfigManagerInv, SourcesInv, DesignInv, pc = "assemble", NEW n \in DOMAIN design
    PROVE  AssembleConfig(CfgParts(n), globalCfg) = Documented!Cascade(input, n)
<1> DEFINE f == Contents(input.file)
           m == design[n]
           Entry(es, x) == IF x \in DOMAIN es THEN ParseConfig(es[x].part) ELSE NoPart
           g == <<globalPart>>
           P(x) == PartsOf(input, GroupList(input, x))
           M(x) == Entry(f.module, x)
           A == ParseModuleAnnotations(m.attrs)
           S == Entry(f.specific, n)
<1>1. /\ InputType(input) /\ design = input.modules /\ n \in DOMAIN input.modules
      /\ m = input.modules[n]
  BY DEF ConfigManagerInv, TypeInv, TypeOK, DesignInv
<1>2. /\ globalPart = ParseConfig(f.global)
      /\ groupCfg = Over([x \in DOMAIN f.group |-> ParseConfig(f.group[x])], DefaultGroups)
      /\ moduleCfgs = Parts(f.module) /\ specificModuleCfgs = Parts(f.specific)
      /\ groupAssignments = [x \in Scopes(f) \cup DOMAIN design |-> GroupList(input, x)]
      /\ moduleAttrCfgs = [x \in DOMAIN design |-> ParseModuleAnnotations(design[x].attrs)]
  BY DEF SourcesInv
<1>3. globalCfg = GlobalOf(input) /\ IsFullCfg(globalCfg) /\ IsPart(globalPart)
      /\ globalCfg = Over(globalPart, DefaultConfig)
  BY <1>1, <1>2, SameGlobal, GlobalType DEF GlobalOf, ConfigManagerInv, GlobalInv
<1>4. \A x : Assigned(x) = GroupList(input, x)
  <2> SUFFICES ASSUME NEW x, x \notin Scopes(f) \cup DOMAIN design
               PROVE  <<>> = GroupList(input, x)
    BY <1>2 DEF Assigned
  <2>1. Listed(f.module, x) = <<>> /\ Listed(f.specific, x) = <<>>
    BY DEF Scopes, Listed
  <2>2. GroupList(input, x) = <<>> \o <<>>
    BY <1>1, <2>1 DEF GroupList, FileGroups
  <2> QED
    BY <2>2
<1>5. \A x : GroupParts(x) = P(x)
  <2>1. \A y : (IF y \in DOMAIN groupCfg THEN groupCfg[y] ELSE NoPart)
                 = Documented!GroupScope(input, y)
    BY <1>2, GroupScopeIs
  <2> QED
    BY <1>4, <2>1 DEF GroupParts, PartsOf
<1>6. /\ \A x : Present(moduleCfgs, x) = <<M(x)>>
      /\ Present(specificModuleCfgs, n) = <<S>>
      /\ Present(moduleAttrCfgs, n) = <<A>>
  BY <1>2 DEF Present, Parts
<1>7. /\ \A x : IsPart(M(x))
      /\ IsPart(S) /\ IsPart(A)
  <2>1. \A es, x : IsEntries(es) => IsPart(Entry(es, x))
    BY ParsedScope, Defaults DEF IsEntries
  <2>2. IsEntries(f.module) /\ IsEntries(f.specific)
    BY <1>1, FileContents DEF InputType
  <2>3. IsPart(A)
    BY <1>1, ListTypes, ParsedAttributes
  <2> QED
    BY <2>1, <2>2, <2>3
<1>8. Documented!Cascade(input, n) = Upper(input, n, GroupLists(input, n, globalCfg))
  BY <1>1, <1>3, CascadeIs
<1>9. /\ m.proper => Documented!Cascade(input, n) =
                       Over(S, Over(A, Over(M(BaseName(n)),
                         Grouped(input, GroupList(input, n),
                           Grouped(input, GroupList(input, BaseName(n)), globalCfg)))))
      /\ ~m.proper => Documented!Cascade(input, n) =
                        Over(NoPart, Over(A, Over(M(n), Grouped(input, GroupList(input, n), globalCfg))))
  BY <1>1, <1>8 DEF Upper, GroupLists
<1>10. \A x : P(x) \in Seq(ConfigPart)
  BY <1>1, <1>3, SameGroups, GroupPartsFacts
<1>11. g \in Seq(ConfigPart) /\ AssembleConfig(g, globalCfg) = globalCfg
  <2>1. AssembleConfig(<<globalPart>>, globalCfg) = Over(globalPart, globalCfg)
    BY <1>3, AssembledOnce DEF IsFullCfg
  <2>2. Over(globalPart, Over(globalPart, DefaultConfig)) = Over(globalPart, DefaultConfig)
    BY <1>3, PartOver, Defaults
  <2> QED
    BY <1>3, <2>1, <2>2, PartSet
<1>12. \A x : /\ g \o P(x) \in Seq(ConfigPart)
              /\ AssembleConfig(g \o P(x), globalCfg) = Grouped(input, GroupList(input, x), globalCfg)
  <2> SUFFICES ASSUME NEW x
               PROVE  /\ g \o P(x) \in Seq(ConfigPart)
                      /\ AssembleConfig(g \o P(x), globalCfg) = AssembleConfig(P(x), globalCfg)
    BY DEF Grouped
  <2> DEFINE p == P(x)
  <2>1. p \in Seq(ConfigPart)
    BY <1>10
  <2> HIDE DEF g, p
  <2>2. AssembleConfig(g \o p, globalCfg) = AssembleConfig(p, AssembleConfig(g, globalCfg))
    BY <1>3, <1>11, <2>1, AssembledInTurn
  <2>3. g \o p \in Seq(ConfigPart)
    BY <1>11, <2>1
  <2> QED
    BY <1>11, <2>2, <2>3 DEF p
<1>13. CASE m.proper
  <2> DEFINE b == BaseName(n)
             s2 == (g \o P(b)) \o P(n)
             s3 == s2 \o <<M(b)>>
             s4 == s3 \o <<A>>
  <2>1. CfgParts(n) = s4 \o <<S>>
    BY <1>5, <1>6, <1>13 DEF CfgParts, MarkedParts
  <2>2. g \o P(b) \in Seq(ConfigPart) /\ P(n) \in Seq(ConfigPart)
    BY <1>10, <1>12
  <2>3. s2 \in Seq(ConfigPart)
    BY <2>2
  <2>4. AssembleConfig(s2, globalCfg) =
          Grouped(input, GroupList(input, n), Grouped(input, GroupList(input, b), globalCfg))
    <3> DEFINE q == g \o P(b)
               r == P(n)
    <3>1. q \in Seq(ConfigPart) /\ r \in Seq(ConfigPart)
      BY <2>2
    <3>2. AssembleConfig(q, globalCfg) = Grouped(input, GroupList(input, b), globalCfg)
      BY <1>12
    <3> HIDE DEF q, r, b
    <3>3. AssembleConfig(q \o r, globalCfg) = AssembleConfig(r, AssembleConfig(q, globalCfg))
      BY <1>3, <3>1, AssembledInTurn
    <3> QED
      BY <3>2, <3>3 DEF Grouped, q, r
  <2>5. <<M(b)>> \in Seq(ConfigPart) /\ <<A>> \in Seq(ConfigPart)
    BY <1>7, PartSet
  <2> HIDE DEF s2, M, A, S, P, g, b
  <2>6. s3 \in Seq(ConfigPart) /\ AssembleConfig(s3, globalCfg) = Over(M(b), AssembleConfig(s2, globalCfg))
    BY <1>3, <1>7, <2>3, <2>5, AssembledLast
  <2> HIDE DEF s3
  <2>7. s4 \in Seq(ConfigPart) /\ AssembleConfig(s4, globalCfg) = Over(A, AssembleConfig(s3, globalCfg))
    BY <1>3, <1>7, <2>5, <2>6, AssembledLast
  <2> HIDE DEF s4
  <2>8. AssembleConfig(s4 \o <<S>>, globalCfg) = Over(S, AssembleConfig(s4, globalCfg))
    BY <1>3, <1>7, <2>7, AssembledLast
  <2> QED
    BY <1>9, <1>13, <2>1, <2>4, <2>6, <2>7, <2>8 DEF b
<1>14. CASE ~m.proper
  <2> DEFINE s2 == g \o P(n)
             s3 == s2 \o <<M(n)>>
  <2>1. CfgParts(n) = s3 \o <<A>>
    BY <1>5, <1>6, <1>14 DEF CfgParts, UnmarkedParts
  <2>2. s2 \in Seq(ConfigPart)
    BY <1>12
  <2>3. AssembleConfig(s2, globalCfg) = Grouped(input, GroupList(input, n), globalCfg)
    BY <1>12
  <2>4. <<M(n)>> \in Seq(ConfigPart)
    BY <1>7, PartSet
  <2> HIDE DEF s2, M, A, S, P, g
  <2>5. s3 \in Seq(ConfigPart) /\ AssembleConfig(s3, globalCfg) = Over(M(n), AssembleConfig(s2, globalCfg))
    BY <1>3, <1>7, <2>2, <2>4, AssembledLast
  <2> HIDE DEF s3
  <2>6. /\ AssembleConfig(s3 \o <<A>>, globalCfg) = Over(A, AssembleConfig(s3, globalCfg))
        /\ IsFullCfg(AssembleConfig(s3 \o <<A>>, globalCfg))
    BY <1>3, <1>7, <2>5, AssembledLast
  <2>7. Over(NoPart, AssembleConfig(s3 \o <<A>>, globalCfg)) = AssembleConfig(s3 \o <<A>>, globalCfg)
    BY <2>6, NothingOver
  <2> QED
    BY <1>9, <1>14, <2>1, <2>3, <2>5, <2>6, <2>7
<1> QED
  BY <1>13, <1>14 DEF ConfigManagerInv, TypeInv, TypeOK, IsModules, IsModule

-----------------------------------------------------------------------------
(* Versions of a module: proc takes its processes away and nothing else.   *)

(* A module is a version of itself, after proc, too, and one that has no   *)
(* processes any more is a version of whatever it was one of.              *)
LEMMA VersionFacts ==
    ASSUME NEW d, IsModule(d)
    PROVE  /\ IsVersion(d, d)
           /\ \A m : IsVersion(m, d) =>
                /\ IsVersion([m EXCEPT !.procs = FALSE], d)
                /\ m.bb = d.bb /\ m.inp = d.inp /\ m.out = d.out
<1>1. d = [x \in DOMAIN d |-> d[x]] /\ {"procs", "bb", "inp", "out"} \subseteq DOMAIN d
  BY DEF IsModule
<1>2. \A m : IsVersion(m, d) <=> m = [d EXCEPT !.procs = m.procs]
  BY DEF IsVersion, Documented!IsVersion
<1>3. IsVersion(d, d)
  BY <1>1, <1>2
<1>4. ASSUME NEW m, m = [d EXCEPT !.procs = m.procs]
      PROVE  /\ [m EXCEPT !.procs = FALSE] = [d EXCEPT !.procs = FALSE]
             /\ [m EXCEPT !.procs = FALSE].procs = FALSE
             /\ m.bb = d.bb /\ m.inp = d.inp /\ m.out = d.out
  <2> DEFINE v == m.procs
  <2>1. m = [d EXCEPT !.procs = v]
    BY <1>4
  <2> HIDE DEF v
  <2> QED
    BY <1>1, <2>1
<1>5. ASSUME NEW m, IsVersion(m, d)
      PROVE  /\ IsVersion([m EXCEPT !.procs = FALSE], d)
             /\ m.bb = d.bb /\ m.inp = d.inp /\ m.out = d.out
  <2>1. m = [d EXCEPT !.procs = m.procs]
    BY <1>2, <1>5
  <2>2. /\ [m EXCEPT !.procs = FALSE] = [d EXCEPT !.procs = FALSE]
        /\ [m EXCEPT !.procs = FALSE].procs = FALSE
        /\ m.bb = d.bb /\ m.inp = d.inp /\ m.out = d.out
    BY <1>4, <2>1
  <2> DEFINE k == [m EXCEPT !.procs = FALSE]
  <2>3. k = [d EXCEPT !.procs = k.procs]
    BY <2>2
  <2> HIDE DEF k
  <2>4. IsVersion(k, d)
    BY <1>2, <2>3
  <2> QED
    BY <2>2, <2>4 DEF k
<1> QED
  BY <1>3, <1>5

(* Whether a module fits as a voter does not depend on its processes.      *)
LEMMA VersionFits ==
    ASSUME NEW d, IsModule(d), NEW m, IsVersion(m, d), NEW c
    PROVE  FitsVoter(m, c) <=> FitsVoter(d, c)
BY VersionFacts DEF FitsVoter

-----------------------------------------------------------------------------
(* Voters.                                                                 *)

(* The options that decide which voter a configuration gets.               *)
SameVoter(c, v) ==
    \A o \in {"tmrVoterFile", "tmrVoterModule", "tmrVoterClockPortName", "tmrVoterResetPortName"} :
        c[o] = v[o]

(* The documented terms about voters, in those of the code.                *)
LEMMA VotersAre ==
    ASSUME NEW i
    PROVE  /\ \A n : n \in Documented!CustomModules(i) <=>
                       n \in DOMAIN i.modules /\ Documented!Cascade(i, n)["tmrVoter"] = "Custom"
           /\ \A n \in Documented!CustomModules(i) :
                Documented!Cascade(i, n) \in Documented!VoterConfigs(i)
           /\ Documented!CustomModules(i) # {} /\ Documented!Global(i)["tmrVoter"] = "Custom" =>
                Documented!Global(i) \in Documented!VoterConfigs(i)
           /\ \A c \in Documented!VoterConfigs(i) : Documented!CustomModules(i) # {}
           /\ Documented!MayBeTemplate(i) = {VoterId(c) : c \in Documented!VoterConfigs(i)}
           /\ \A f : f \in Documented!VoterFiles(i) <=>
                       f \in DOMAIN i.library
                         /\ \E c \in Documented!VoterConfigs(i) : f = c["tmrVoterFile"]
<1>1. \A n : n \in Documented!CustomModules(i) <=>
               n \in DOMAIN i.modules /\ Documented!Cascade(i, n)["tmrVoter"] = "Custom"
  BY DEF Documented!CustomModules
<1>2. /\ \A n \in Documented!CustomModules(i) :
           Documented!Cascade(i, n) \in Documented!VoterConfigs(i)
      /\ Documented!CustomModules(i) # {} /\ Documented!Global(i)["tmrVoter"] = "Custom" =>
           Documented!Global(i) \in Documented!VoterConfigs(i)
      /\ \A c \in Documented!VoterConfigs(i) : Documented!CustomModules(i) # {}
  BY DEF Documented!VoterConfigs
<1>3. Documented!MayBeTemplate(i) = {VoterId(c) : c \in Documented!VoterConfigs(i)}
  BY SameDecisions DEF Documented!MayBeTemplate
<1>4. \A f : f \in Documented!VoterFiles(i) <=>
               f \in DOMAIN i.library
                 /\ \E c \in Documented!VoterConfigs(i) : f = c["tmrVoterFile"]
  BY DEF Documented!VoterFiles
<1> QED
  BY <1>1, <1>2, <1>3, <1>4

(* The configuration of a template has the voter of the global one, and is *)
(* as acceptable.                                                          *)
LEMMA TemplateIs ==
    ASSUME NEW i, InputType(i)
    PROVE  LET t == Documented!TemplateConfig(i)
               g == Documented!Global(i)
           IN  /\ t = ExemptOf(g) /\ IsFullCfg(t) /\ IsFullCfg(g)
               /\ t["tmrVoter"] = g["tmrVoter"] /\ VoterId(t) = VoterId(g) /\ SameVoter(t, g)
               /\ Acceptable(t) <=> Acceptable(g)
<1> DEFINE t == Documented!TemplateConfig(i)
           g == Documented!Global(i)
<1>1. IsFullCfg(g)
  BY SameGlobal, GlobalType DEF GlobalOf
<1>2. t = ExemptOf(g)
  BY DEF Documented!TemplateConfig, ExemptOf
<1> HIDE DEF t, g
<1>3. IsFullCfg(t)
  BY <1>1, <1>2, ExemptFacts
<1>4. DOMAIN g = Option
  BY <1>1 DEF IsFullCfg, IsConfig
<1>5. \A o \in Option \ {"tmrMode", "preserveModulePorts", "insertVoterBeforeModules",
                         "insertVoterAfterModules"} : t[o] = g[o]
  BY <1>2, <1>4 DEF ExemptOf
<1>6. {"tmrVoter", "tmrVoterFile", "tmrVoterModule", "tmrVoterClockPortName",
       "tmrVoterResetPortName", "insertVoterBeforeFf", "logicPath1Suffix", "logicPath2Suffix",
       "logicPath3Suffix"} \subseteq
        Option \ {"tmrMode", "preserveModulePorts", "insertVoterBeforeModules",
                  "insertVoterAfterModules"}
  BY DEF Option, Flag, Text
<1>7. /\ t["tmrVoter"] = g["tmrVoter"] /\ VoterId(t) = VoterId(g) /\ SameVoter(t, g)
      /\ Acceptable(t) <=> Acceptable(g)
  BY <1>5, <1>6 DEF VoterId, SameVoter, Acceptable, UniqueSuffixes
<1> QED
  BY <1>1, <1>2, <1>3, <1>7 DEF t, g

(* In "voters", what templates get is the documented configuration.        *)
LEMMA ExemptIsTemplate ==
    ASSUME ConfigManagerInv, pc = "voters"
    PROVE  Exempt = Documented!TemplateConfig(input)
<1>1. InputType(input) /\ globalCfg = Documented!Global(input)
  BY DEF ConfigManagerInv, TypeInv, TypeOK, GlobalInv
<1>2. Documented!TemplateConfig(input) = ExemptOf(Documented!Global(input))
  BY <1>1, TemplateIs
<1> QED
  BY <1>1, <1>2 DEF Exempt, ExemptOf

(* A configuration that asks for a voter in the loop is one of those the   *)
(* documentation speaks of, or that of a template of one of them.          *)
LEMMA AskingEntry ==
    ASSUME ConfigManagerInv, AnswerInv, pc = "voters", NEW n \in pending, Custom(n)
    PROVE  \E v \in Documented!VoterConfigs(input) :
             SameVoter(finalModuleCfgs[n], v) /\ VoterId(finalModuleCfgs[n]) = VoterId(v)
<1>1. InputType(input) /\ n \in DOMAIN finalModuleCfgs
  BY DEF ConfigManagerInv, TypeInv, TypeOK, EntriesInv
<1>2. CASE IsCascade(n)
  <2>1. n \in DOMAIN input.modules /\ finalModuleCfgs[n] = Documented!Cascade(input, n)
    BY <1>2 DEF IsCascade, Cascade
  <2>2. Documented!Cascade(input, n) \in Documented!VoterConfigs(input)
    BY <2>1, VotersAre DEF Custom
  <2> QED
    BY <2>1, <2>2 DEF SameVoter
<1>3. CASE IsTemplate(n)
  <2>1. /\ finalModuleCfgs[n] = Documented!TemplateConfig(input)
        /\ n \in Documented!MayBeTemplate(input)
    BY <1>3 DEF IsTemplate
  <2>2. Documented!CustomModules(input) # {}
    BY <2>1, VotersAre
  <2>3. Documented!Global(input)["tmrVoter"] = "Custom"
    BY <1>1, <2>1, TemplateIs DEF Custom
  <2>4. Documented!Global(input) \in Documented!VoterConfigs(input)
    BY <2>2, <2>3, VotersAre
  <2> QED
    BY <1>1, <2>1, <2>4, TemplateIs
<1> QED
  BY <1>1, <1>2, <1>3 DEF AnswerInv, ConfigsInv

(* A sound voter can be loaded in whatever order files are read: no other  *)
(* voter file has a module of this one.                                    *)
LEMMA SoundIsLoadable ==
    ASSUME ConfigManagerInv, DesignInv, NEW v \in Documented!VoterConfigs(input),
           Documented!SoundVoter(input, v), NEW c, SameVoter(c, v), VoterId(c) = VoterId(v)
    PROVE  VoterLoadable(c)
<1> DEFINE file == v["tmrVoterFile"]
           lib == input.library[file]
           t == VoterId(v)
<1>1. /\ file # "" /\ v["tmrVoterModule"] # "" /\ file \in DOMAIN input.library
      /\ \A n \in DOMAIN lib \cap DOMAIN input.modules : input.modules[n].bb
      /\ \A f \in Documented!VoterFiles(input) \ {file} :
           DOMAIN input.library[f] \cap DOMAIN lib = {}
      /\ t \in DOMAIN lib /\ FitsVoter(lib[t], v)
  BY SameDecisions DEF Documented!SoundVoter
<1>2. c["tmrVoterFile"] = file /\ c["tmrVoterModule"] # "" /\ VoterId(c) = t
  BY <1>1 DEF SameVoter
<1>3. \A m : FitsVoter(m, v) => FitsVoter(m, c)
  <2>1. c["tmrVoterClockPortName"] = v["tmrVoterClockPortName"]
        /\ c["tmrVoterResetPortName"] = v["tmrVoterResetPortName"]
    BY DEF SameVoter
  <2> QED
    BY <2>1 DEF FitsVoter
<1>4. /\ IsModules(lib) /\ IsModules(design) /\ IsModules(input.modules)
      /\ \A f \in DOMAIN input.library : IsModules(input.library[f])
      /\ loadedFiles \subseteq DOMAIN input.library /\ InputType(input)
  BY <1>1 DEF ConfigManagerInv, TypeInv, TypeOK, InputType
<1>5. file \in Documented!VoterFiles(input)
  BY <1>1, VotersAre
<1>6. \A f \in loadedFiles : f # file => DOMAIN input.library[f] \cap DOMAIN lib = {}
  BY <1>1 DEF DesignInv
<1> HIDE DEF file, lib, t
<1>7. CASE file \in loadedFiles
  <2>1. AfterLoading(file) = design
    BY <1>7 DEF AfterLoading
  <2>2. t \in DOMAIN design
    BY <1>1, <1>7 DEF DesignInv, lib
  <2>3. \E f \in loadedFiles : t \in DOMAIN input.library[f] /\ IsVersion(design[t], input.library[f][t])
    <3>1. t \in DOMAIN input.library[file]
      BY <1>1 DEF lib
    <3> QED
      BY <1>7, <2>2, <3>1 DEF DesignInv
  <2>4. PICK f \in loadedFiles : t \in DOMAIN input.library[f] /\ IsVersion(design[t], input.library[f][t])
    BY <2>3
  <2>5. f = file
    BY <1>1, <1>6, <2>4
  <2>6. IsVersion(design[t], lib[t]) /\ IsModule(lib[t])
    BY <1>1, <1>4, <2>4, <2>5 DEF lib, IsModules
  <2>7. FitsVoter(design[t], v)
    BY <1>1, <2>6, VersionFits
  <2> QED
    BY <1>1, <1>2, <1>3, <1>7, <2>1, <2>2, <2>7 DEF VoterLoadable
<1>8. CASE file \notin loadedFiles
  <2>1. Readable(file)
    <3> SUFFICES ASSUME NEW n \in DOMAIN lib \cap DOMAIN design PROVE design[n].bb
      BY <1>1 DEF Readable, lib
    <3>1. \A f \in loadedFiles : n \notin DOMAIN input.library[f]
      BY <1>6, <1>8
    <3>2. n \in DOMAIN input.modules /\ IsVersion(design[n], input.modules[n])
      BY <3>1 DEF DesignInv
    <3>3. input.modules[n].bb /\ IsModule(input.modules[n])
      BY <1>1, <1>4, <3>2 DEF IsModules
    <3> QED
      BY <3>2, <3>3, VersionFacts
  <2> DEFINE ms == Over(lib, design)
  <2>2. AfterLoading(file) = AfterProc(ms)
    BY <1>8 DEF AfterLoading, lib
  <2>3. t \in DOMAIN ms /\ ms[t] = lib[t]
    <3>1. DOMAIN ms = DOMAIN lib \cup DOMAIN design
      BY OverFacts
    <3>2. \A x \in DOMAIN lib : ms[x] = lib[x]
      BY OverFacts
    <3> QED
      BY <1>1, <3>1, <3>2
  <2>4. IsModules(ms)
    BY <1>4, ModulesOver
  <2> HIDE DEF ms
  <2>5. t \in DOMAIN AfterProc(ms) /\ AfterProc(ms)[t].inp = lib[t].inp
        /\ AfterProc(ms)[t].out = lib[t].out
    BY <2>3, <2>4, ModulesAfterProc
  <2>6. FitsVoter(AfterProc(ms)[t], v)
    BY <1>1, <2>5 DEF FitsVoter
  <2> QED
    BY <1>1, <1>2, <1>3, <2>1, <2>2, <2>5, <2>6 DEF VoterLoadable
<1> QED
  BY <1>7, <1>8

(* A voter is refused only if the documentation allows it.                 *)
LEMMA RejectVoterReason ==
    ASSUME ConfigManagerInv, AnswerInv, pc = "voters", NEW n \in pending, RejectVoter(n)
    PROVE  Documented!MayReject(input)
<1>1. Custom(n) /\ ~VoterLoadable(finalModuleCfgs[n])
  BY DEF RejectVoter
<1>2. PICK v \in Documented!VoterConfigs(input) :
        SameVoter(finalModuleCfgs[n], v) /\ VoterId(finalModuleCfgs[n]) = VoterId(v)
  BY <1>1, AskingEntry
<1>3. ~Documented!SoundVoter(input, v)
  BY <1>1, <1>2, SoundIsLoadable DEF AnswerInv
<1> QED
  BY <1>3 DEF Documented!MayReject

(* Reading a voter file makes its modules versions of those of the file.   *)
LEMMA DesignLoaded ==
    ASSUME ConfigManagerInv, AnswerInv, pc = "voters", NEW n \in pending, LoadVoter(n)
    PROVE  DesignInv'
<1> DEFINE file == finalModuleCfgs[n]["tmrVoterFile"]
           lib == input.library[file]
           ms == Over(lib, design)
<1>1. /\ Custom(n) /\ VoterLoadable(finalModuleCfgs[n])
      /\ design' = AfterLoading(file) /\ loadedFiles' = loadedFiles \cup {file}
      /\ input' = input /\ pc' = "voters"
  BY DEF LoadVoter
<1>2. file \in loadedFiles \/ Readable(file)
  BY <1>1 DEF VoterLoadable
<1>3. /\ IsModules(design) /\ IsModules(input.modules)
      /\ \A f \in DOMAIN input.library : IsModules(input.library[f])
      /\ loadedFiles \subseteq DOMAIN input.library
  BY DEF ConfigManagerInv, TypeInv, TypeOK, InputType
<1>4. file \in DOMAIN input.library
  BY <1>2, <1>3 DEF Readable
<1>5. file \in Documented!VoterFiles(input)
  <2>1. PICK v \in Documented!VoterConfigs(input) : SameVoter(finalModuleCfgs[n], v)
    BY <1>1, AskingEntry
  <2>2. file = v["tmrVoterFile"]
    BY <2>1 DEF SameVoter
  <2> QED
    BY <1>4, <2>2, VotersAre
<1> HIDE DEF file
<1>6. loadedFiles' \subseteq Documented!VoterFiles(input)
  BY <1>1, <1>5 DEF AnswerInv, DesignInv
<1>7. CASE file \in loadedFiles
  <2>1. design' = design /\ loadedFiles' = loadedFiles
    BY <1>1, <1>7 DEF AfterLoading
  <2> QED
    BY <1>1, <1>6, <2>1 DEF AnswerInv, DesignInv
<1>8. CASE file \notin loadedFiles
  <2>1. design' = AfterProc(ms)
    BY <1>1, <1>8 DEF AfterLoading
  <2>2. IsModules(ms) /\ DOMAIN ms = DOMAIN lib \cup DOMAIN design
    BY <1>3, <1>4, ModulesOver, OverFacts
  <2>3. /\ DOMAIN design' = DOMAIN lib \cup DOMAIN design
        /\ \A x \in DOMAIN design' : design'[x] = [ms[x] EXCEPT !.procs = FALSE]
    BY <2>1, <2>2 DEF AfterProc
  <2>4. /\ \A x \in DOMAIN lib : ms[x] = lib[x]
        /\ \A x \in DOMAIN design \ DOMAIN lib : ms[x] = design[x]
    BY OverFacts
  <2> HIDE DEF ms, lib
  <2>5. ASSUME NEW d, IsModule(d), NEW m, IsVersion(m, d)
        PROVE  IsVersion([m EXCEPT !.procs = FALSE], d)
    BY <2>5, VersionFacts
  <2>6. ASSUME NEW x \in DOMAIN lib
        PROVE  IsVersion(design'[x], lib[x])
    <3>1. IsModule(lib[x])
      BY <1>3, <1>4 DEF lib, IsModules
    <3>2. design'[x] = [lib[x] EXCEPT !.procs = FALSE]
      BY <2>3, <2>4
    <3>3. IsVersion(lib[x], lib[x])
      BY <3>1, VersionFacts
    <3>4. IsVersion([lib[x] EXCEPT !.procs = FALSE], lib[x])
      BY <2>5, <3>1, <3>3
    <3> QED
      BY <3>2, <3>4
  <2>7. ASSUME NEW x \in DOMAIN design \ DOMAIN lib, NEW d, IsModule(d), IsVersion(design[x], d)
        PROVE  IsVersion(design'[x], d)
    <3>1. design'[x] = [design[x] EXCEPT !.procs = FALSE]
      BY <2>3, <2>4
    <3>2. IsVersion([design[x] EXCEPT !.procs = FALSE], d)
      BY <2>5, <2>7
    <3> QED
      BY <3>1, <3>2
  <2>8. ASSUME NEW x \in DOMAIN design'
        PROVE  \/ /\ x \in DOMAIN input.modules /\ IsVersion(design'[x], input.modules[x])
                  /\ \A f \in loadedFiles' : x \notin DOMAIN input.library[f]
               \/ \E f \in loadedFiles' :
                    x \in DOMAIN input.library[f] /\ IsVersion(design'[x], input.library[f][x])
    <3>1. CASE x \in DOMAIN lib
      BY <1>1, <2>6, <3>1 DEF lib
    <3>2. CASE x \notin DOMAIN lib
      <4>1. x \in DOMAIN design
        BY <2>3, <3>2
      <4>2. CASE /\ x \in DOMAIN input.modules /\ IsVersion(design[x], input.modules[x])
                 /\ \A f \in loadedFiles : x \notin DOMAIN input.library[f]
        <5>1. IsModule(input.modules[x])
          BY <1>3, <4>2 DEF IsModules
        <5>2. IsVersion(design'[x], input.modules[x])
          BY <2>7, <3>2, <4>1, <4>2, <5>1
        <5>3. \A f \in loadedFiles' : x \notin DOMAIN input.library[f]
          BY <1>1, <3>2, <4>2 DEF lib
        <5> QED
          BY <4>2, <5>2, <5>3
      <4>3. CASE \E f \in loadedFiles :
                   x \in DOMAIN input.library[f] /\ IsVersion(design[x], input.library[f][x])
        <5>1. PICK f \in loadedFiles :
                x \in DOMAIN input.library[f] /\ IsVersion(design[x], input.library[f][x])
          BY <4>3
        <5>2. IsModule(input.library[f][x])
          BY <1>3, <5>1 DEF IsModules
        <5>3. IsVersion(design'[x], input.library[f][x])
          BY <2>7, <3>2, <4>1, <5>1, <5>2
        <5> QED
          BY <1>1, <5>1, <5>3
      <4> QED
        BY <4>1, <4>2, <4>3 DEF AnswerInv, DesignInv
    <3> QED
      BY <3>1, <3>2
  <2>9. /\ DOMAIN input.modules \subseteq DOMAIN design'
        /\ \A f \in loadedFiles' : DOMAIN input.library[f] \subseteq DOMAIN design'
    BY <1>1, <2>3 DEF AnswerInv, DesignInv, lib
  <2> QED
    BY <1>1, <1>6, <2>8, <2>9 DEF DesignInv, IsVersion, Documented!IsVersion
<1> QED
  BY <1>7, <1>8

(* Every module of the design is a version of one of its definitions.      *)
LEMMA Origin ==
    ASSUME NEW i, InputType(i), NEW loaded, loaded \subseteq Documented!VoterFiles(i), NEW n, NEW m,
           \/ n \in DOMAIN i.modules /\ IsVersion(m, i.modules[n])
           \/ \E f \in loaded : n \in DOMAIN i.library[f] /\ IsVersion(m, i.library[f][n])
    PROVE  \E d \in Documented!Definitions(i, n) : IsVersion(m, d) /\ IsModule(d)
<1>1. CASE n \in DOMAIN i.modules /\ IsVersion(m, i.modules[n])
  <2>1. i.modules[n] \in Documented!Definitions(i, n)
    BY <1>1 DEF Documented!Definitions
  <2>2. IsModule(i.modules[n])
    BY <1>1 DEF InputType, IsModules
  <2> QED
    BY <1>1, <2>1, <2>2
<1>2. CASE \E f \in loaded : n \in DOMAIN i.library[f] /\ IsVersion(m, i.library[f][n])
  <2>1. PICK f \in loaded : n \in DOMAIN i.library[f] /\ IsVersion(m, i.library[f][n])
    BY <1>2
  <2>2. f \in Documented!VoterFiles(i) /\ f \in DOMAIN i.library
    BY VotersAre
  <2>3. i.library[f][n] \in Documented!Definitions(i, n)
    BY <2>1, <2>2 DEF Documented!Definitions
  <2>4. IsModule(i.library[f][n])
    BY <2>1, <2>2 DEF InputType, IsModules
  <2> QED
    BY <2>1, <2>3, <2>4
<1> QED
  BY <1>1, <1>2

-----------------------------------------------------------------------------
(* The invariant.                                                          *)

(* It holds of the design that is given.                                   *)
LEMMA AnswerInit == Init => AnswerInv
<1> SUFFICES ASSUME Init PROVE AnswerInv
  OBVIOUS
<1>1. InputType(input) /\ design = input.modules /\ loadedFiles = {} /\ pc = "read"
  BY InputsAssumption DEF Init
<1>2. \A n \in DOMAIN input.modules : IsVersion(input.modules[n], input.modules[n])
  BY <1>1, VersionFacts DEF InputType, IsModules
<1>3. DesignInv
  BY <1>1, <1>2 DEF DesignInv
<1> QED
  BY <1>1, <1>3 DEF AnswerInv, SourcesInv, ConfigsInv, SharedInv

(* The file is read.                                                       *)
LEMMA AnswerReadFile ==
    ASSUME ConfigManagerInv, AnswerInv, ReadFile
    PROVE  AnswerInv'
<1>1. /\ pc = "read" /\ pc' = "annotate" /\ ~Refused(input.file)
      /\ UNCHANGED <<input, design, loadedFiles>>
  BY DEF ReadFile
<1>2. DesignInv'
  BY <1>1 DEF AnswerInv, DesignInv, IsVersion, Documented!IsVersion
<1>3. SourcesInv'
  <2>1. groupAssignments' = [n \in Scopes(Contents(input.file)) |-> FileGroups(input, n)]
    BY DEF ReadFile, Scopes, FileGroups
  <2> QED
    BY <1>1, <2>1 DEF ReadFile, SourcesInv
<1> QED
  BY <1>1, <1>2, <1>3 DEF AnswerInv, ConfigsInv, SharedInv

(* The attributes join what the file says.                                 *)
LEMMA AnswerReadAttributes ==
    ASSUME ConfigManagerInv, AnswerInv, ReadAttributes
    PROVE  AnswerInv'
<1>1. /\ pc = "annotate" /\ pc' = "assemble"
      /\ UNCHANGED <<input, design, loadedFiles, globalPart, groupCfg, moduleCfgs,
                     specificModuleCfgs>>
  BY DEF ReadAttributes
<1>2. DesignInv'
  BY <1>1 DEF AnswerInv, DesignInv, IsVersion, Documented!IsVersion
<1>3. design = input.modules
  BY <1>1 DEF AnswerInv, DesignInv
<1>4. groupAssignments = [n \in Scopes(Contents(input.file)) |-> FileGroups(input, n)]
  BY <1>1 DEF AnswerInv, SourcesInv
<1>5. groupAssignments' = [n \in Scopes(Contents(input.file)) \cup DOMAIN design |-> GroupList(input, n)]
  <2> DEFINE T == Scopes(Contents(input.file))
  <2>1. \A n : Assigned(n) = FileGroups(input, n)
    <3> SUFFICES ASSUME NEW n, n \notin T PROVE <<>> = FileGroups(input, n)
      BY <1>4 DEF Assigned
    <3>1. Listed(Contents(input.file).module, n) = <<>> /\ Listed(Contents(input.file).specific, n) = <<>>
      BY DEF Scopes, Listed
    <3>2. FileGroups(input, n) = <<>> \o <<>>
      BY <3>1 DEF FileGroups
    <3> QED
      BY <3>2
  <2>2. DOMAIN groupAssignments = T
    BY <1>4
  <2> HIDE DEF T
  <2>3. groupAssignments' = [n \in T \cup DOMAIN design |->
                               IF n \in DOMAIN design THEN AnnotatedGroups(n) ELSE Assigned(n)]
    BY <2>2 DEF ReadAttributes
  <2>4. \A n : (IF n \in DOMAIN design THEN AnnotatedGroups(n) ELSE Assigned(n)) = GroupList(input, n)
    BY <1>3, <2>1 DEF AnnotatedGroups, GroupList
  <2> QED
    BY <2>3, <2>4 DEF T
<1>6. SourcesInv'
  BY <1>1, <1>5 DEF ReadAttributes, AnswerInv, SourcesInv
<1> QED
  BY <1>1, <1>2, <1>6 DEF AnswerInv, ConfigsInv, SharedInv

(* Every module of the design gets its cascade.                            *)
LEMMA AnswerAssemble ==
    ASSUME ConfigManagerInv, AnswerInv, Assemble
    PROVE  AnswerInv'
<1>1. /\ pc = "assemble" /\ pc' = "voters" /\ pending' = DOMAIN design
      /\ UNCHANGED <<input, design, loadedFiles, globalCfg>>
      /\ finalModuleCfgs' = [n \in DOMAIN design |-> AssembleConfig(CfgParts(n), globalCfg)]
  BY DEF Assemble
<1>2. DesignInv' /\ SourcesInv'
  BY <1>1 DEF AnswerInv, DesignInv, IsVersion, Documented!IsVersion, SourcesInv
<1>3. design = input.modules /\ globalCfg = Documented!Global(input)
  BY <1>1 DEF AnswerInv, DesignInv, ConfigManagerInv, GlobalInv
<1>4. \A n \in DOMAIN design : finalModuleCfgs'[n] = Documented!Cascade(input, n)
  BY <1>1, AssembledCascade DEF AnswerInv
<1>5. \A n \in DOMAIN finalModuleCfgs' : IsCascade(n)'
  BY <1>1, <1>3, <1>4 DEF IsCascade, Cascade
<1>6. \A n \in Asking' : n \in pending'
  BY <1>1, <1>3, VotersAre DEF Asking
<1>7. ConfigsInv'
  BY <1>1, <1>3, <1>5, <1>6 DEF ConfigsInv
<1>8. SharedInv'
  BY <1>1, <1>3 DEF SharedInv
<1> QED
  BY <1>2, <1>7, <1>8 DEF AnswerInv

(* A module that asks for a voter, and is none itself, gets the one it     *)
(* asks for.                                                               *)
LEMMA SuppliedByLoading ==
    ASSUME ConfigManagerInv, AnswerInv, pc = "voters", NEW n \in pending, LoadVoter(n), n \in Asking
    PROVE  LET t == VoterId(Documented!Cascade(input, n))
           IN  /\ t = VoterId(finalModuleCfgs[n]) /\ t \in DOMAIN design'
               /\ \E m \in Documented!Definitions(input, t) : FitsVoter(m, Documented!Cascade(input, n))
<1> DEFINE c == Documented!Cascade(input, n)
           t == VoterId(c)
<1>1. InputType(input) /\ n \in DOMAIN finalModuleCfgs
  BY DEF ConfigManagerInv, TypeInv, TypeOK, EntriesInv
<1>2. ~IsTemplate(n)
  BY DEF Asking, IsTemplate
<1>3. finalModuleCfgs[n] = c
  BY <1>1, <1>2 DEF AnswerInv, ConfigsInv, IsCascade, Cascade
<1> HIDE DEF c
<1>4. t \in DOMAIN design' /\ FitsVoter(design'[t], c)
  BY <1>3 DEF LoadVoter, VoterLoadable
<1>5. DesignInv'
  BY DesignLoaded
<1>6. /\ loadedFiles' \subseteq Documented!VoterFiles(input)
      /\ \/ t \in DOMAIN input.modules /\ IsVersion(design'[t], input.modules[t])
         \/ \E f \in loadedFiles' : t \in DOMAIN input.library[f]
                                    /\ IsVersion(design'[t], input.library[f][t])
  <2>1. input' = input
    BY DEF LoadVoter
  <2> QED
    BY <1>4, <1>5, <2>1 DEF DesignInv, IsVersion, Documented!IsVersion
<1> HIDE DEF t
<1>7. PICK d \in Documented!Definitions(input, t) : IsVersion(design'[t], d) /\ IsModule(d)
  BY <1>1, <1>6, Origin
<1>8. FitsVoter(d, c)
  BY <1>4, <1>7, VersionFits
<1> QED
  BY <1>3, <1>4, <1>7, <1>8 DEF t, c

(* A voter is loaded, and its template exempted.                           *)
LEMMA AnswerLoadVoter ==
    ASSUME ConfigManagerInv, AnswerInv, pc = "voters", NEW n \in pending, LoadVoter(n)
    PROVE  AnswerInv'
<1> DEFINE t == VoterId(finalModuleCfgs[n])
<1>1. /\ UNCHANGED <<input, pc, globalCfg>> /\ pending' = pending \ {n} /\ Custom(n)
      /\ finalModuleCfgs' = Over([x \in {t} |-> Exempt], finalModuleCfgs)
  BY DEF LoadVoter
<1>2. DesignInv'
  BY DesignLoaded
<1>3. SourcesInv' /\ SharedInv'
  BY <1>1 DEF AnswerInv, SourcesInv, SharedInv
<1>4. /\ DOMAIN finalModuleCfgs' = DOMAIN finalModuleCfgs \cup {t}
      /\ finalModuleCfgs'[t] = Documented!TemplateConfig(input)
      /\ \A x \in DOMAIN finalModuleCfgs : x # t => finalModuleCfgs'[x] = finalModuleCfgs[x]
  BY <1>1, ExemptIsTemplate DEF Over
<1>5. t \in Documented!MayBeTemplate(input)
  <2>1. \E v \in Documented!VoterConfigs(input) : t = VoterId(v)
    BY <1>1, AskingEntry
  <2> HIDE DEF t
  <2> QED
    BY <2>1, VotersAre
<1>6. DOMAIN design \subseteq DOMAIN design'
  BY LoadedModules DEF LoadVoter, VoterLoadable, ConfigManagerInv
<1>7. ConfigsInv /\ pc' = "voters"
  BY <1>1 DEF AnswerInv
<1> DEFINE u == t
<1>8. /\ DOMAIN finalModuleCfgs' = DOMAIN finalModuleCfgs \cup {u}
      /\ finalModuleCfgs'[u] = Documented!TemplateConfig(input)
      /\ \A x \in DOMAIN finalModuleCfgs : x # u => finalModuleCfgs'[x] = finalModuleCfgs[x]
      /\ u \in Documented!MayBeTemplate(input) /\ u = VoterId(finalModuleCfgs[n])
  BY <1>4, <1>5
<1> HIDE DEF u, t
<1>9. ASSUME NEW x \in DOMAIN finalModuleCfgs, IsTemplate(x)
      PROVE  IsTemplate(x)'
  <2>1. x \in Documented!MayBeTemplate(input) /\ finalModuleCfgs[x] = Documented!TemplateConfig(input)
    BY <1>9 DEF IsTemplate
  <2>2. finalModuleCfgs'[x] = Documented!TemplateConfig(input)
    BY <1>8, <2>1
  <2> QED
    BY <1>1, <2>1, <2>2 DEF IsTemplate
<1>10. ASSUME NEW x, x = u PROVE IsTemplate(x)'
  BY <1>1, <1>8, <1>10 DEF IsTemplate
<1>11. ASSUME NEW x \in DOMAIN finalModuleCfgs, x # u, IsCascade(x)
       PROVE  IsCascade(x)'
  <2>1. x \in DOMAIN input.modules /\ finalModuleCfgs[x] = Documented!Cascade(input, x)
    BY <1>7, <1>1, <1>11 DEF IsCascade, Cascade
  <2>2. finalModuleCfgs'[x] = Documented!Cascade(input, x)
    BY <1>8, <1>11, <2>1
  <2> QED
    BY <1>1, <1>7, <2>1, <2>2 DEF IsCascade, Cascade
<1>12. \A x \in DOMAIN finalModuleCfgs' : IsCascade(x)' \/ IsTemplate(x)'
  <2> SUFFICES ASSUME NEW x \in DOMAIN finalModuleCfgs' PROVE IsCascade(x)' \/ IsTemplate(x)'
    OBVIOUS
  <2>1. CASE x = u
    BY <1>10, <2>1
  <2>2. CASE x # u
    <3>1. x \in DOMAIN finalModuleCfgs
      BY <1>8, <2>2
    <3>2. IsCascade(x) \/ IsTemplate(x)
      BY <1>1, <1>7, <3>1 DEF ConfigsInv
    <3> QED
      BY <1>9, <1>11, <2>2, <3>1, <3>2
  <2> QED
    BY <2>1, <2>2
<1>13. \A x \in Asking \ (pending \ {n}) : Supplied(x)'
  <2> SUFFICES ASSUME NEW x \in Asking, x \notin pending \ {n} PROVE Supplied(x)'
    OBVIOUS
  <2>1. CASE x = n
    <3>1. n \in Asking
      BY <2>1
    <3>2. PICK v : v = VoterId(Documented!Cascade(input, n))
      OBVIOUS
    <3>3. v = u /\ v \in DOMAIN design'
          /\ \E m \in Documented!Definitions(input, v) : FitsVoter(m, Documented!Cascade(input, n))
      BY <1>8, <3>1, <3>2, SuppliedByLoading
    <3>4. v \in DOMAIN finalModuleCfgs' /\ IsTemplate(v)'
      BY <1>8, <1>10, <3>3
    <3> QED
      BY <1>1, <2>1, <3>2, <3>3, <3>4 DEF Supplied, Cascade
  <2>2. CASE x # n
    <3>1. Supplied(x)
      BY <1>1, <1>7, <2>2 DEF ConfigsInv
    <3>2. PICK v : v = VoterId(Documented!Cascade(input, x))
      OBVIOUS
    <3>3. /\ v \in DOMAIN finalModuleCfgs /\ IsTemplate(v) /\ v \in DOMAIN design
          /\ \E m \in Documented!Definitions(input, v) : FitsVoter(m, Documented!Cascade(input, x))
      BY <3>1, <3>2 DEF Supplied, Cascade
    <3>4. v \in DOMAIN finalModuleCfgs' /\ IsTemplate(v)'
      BY <1>8, <1>9, <3>3
    <3> QED
      BY <1>1, <1>6, <3>2, <3>3, <3>4 DEF Supplied, Cascade
  <2> QED
    BY <2>1, <2>2
<1>14. ConfigsInv'
  <2>1. DOMAIN input'.modules \subseteq DOMAIN finalModuleCfgs'
    BY <1>1, <1>7, <1>8 DEF ConfigsInv
  <2>2. Asking' = Asking
    BY <1>1 DEF Asking
  <2> QED
    BY <1>1, <1>7, <1>12, <1>13, <2>1, <2>2 DEF ConfigsInv
<1> QED
  BY <1>2, <1>3, <1>14 DEF AnswerInv

(* A module without a custom voter is passed over, and no such module is   *)
(* one that asks for a voter.                                              *)
LEMMA AnswerSkip ==
    ASSUME ConfigManagerInv, AnswerInv, pc = "voters", NEW n \in pending, SkipDefaultVoter(n)
    PROVE  AnswerInv'
<1>1. /\ UNCHANGED <<input, pc, design, loadedFiles, globalCfg, finalModuleCfgs>>
      /\ pending' = pending \ {n} /\ ~Custom(n)
  BY DEF SkipDefaultVoter
<1>2. DesignInv' /\ SourcesInv' /\ SharedInv'
  BY <1>1 DEF AnswerInv, DesignInv, IsVersion, Documented!IsVersion, SourcesInv, SharedInv
<1>3. \A x : IsCascade(x) => IsCascade(x)'
  BY <1>1 DEF IsCascade, Cascade
<1>4. \A x : (IsTemplate(x) <=> IsTemplate(x)') /\ (Supplied(x) <=> Supplied(x)')
  BY <1>1 DEF IsTemplate, Supplied, Cascade
<1>5. n \notin Asking
  <2> SUFFICES ASSUME n \in Asking PROVE FALSE
    OBVIOUS
  <2>1. n \in DOMAIN finalModuleCfgs /\ ~IsTemplate(n)
    BY DEF ConfigManagerInv, EntriesInv, Asking, IsTemplate
  <2>2. finalModuleCfgs[n] = Documented!Cascade(input, n)
    BY <2>1 DEF AnswerInv, ConfigsInv, IsCascade, Cascade
  <2> QED
    BY <1>1, <2>2, VotersAre DEF Asking, Custom
<1>6. Asking' = Asking
  BY <1>1 DEF Asking
<1>7. ConfigsInv'
  BY <1>1, <1>3, <1>4, <1>5, <1>6 DEF AnswerInv, ConfigsInv
<1> QED
  BY <1>2, <1>7 DEF AnswerInv

(* Validation starts with every module ahead of it.                        *)
LEMMA AnswerStartValidation ==
    ASSUME ConfigManagerInv, AnswerInv, StartValidation
    PROVE  AnswerInv'
<1>1. /\ UNCHANGED <<input, design, loadedFiles, globalCfg, finalModuleCfgs>>
      /\ pc = "voters" /\ pc' = "validate" /\ pending = {} /\ pending' = DOMAIN design
  BY DEF StartValidation
<1>2. DesignInv' /\ SourcesInv' /\ SharedInv'
  BY <1>1 DEF AnswerInv, DesignInv, IsVersion, Documented!IsVersion, SourcesInv, SharedInv
<1>3. \A x \in DOMAIN finalModuleCfgs : IsCascade(x) => IsCascade(x)'
  BY <1>1 DEF IsCascade, Cascade, ConfigManagerInv, EntriesInv
<1>4. \A x : (IsTemplate(x) <=> IsTemplate(x)') /\ (Supplied(x) <=> Supplied(x)')
  BY <1>1 DEF IsTemplate, Supplied, Cascade
<1>5. Asking' = Asking
  BY <1>1 DEF Asking
<1>6. ConfigsInv'
  BY <1>1, <1>3, <1>4, <1>5 DEF AnswerInv, ConfigsInv
<1> QED
  BY <1>2, <1>6 DEF AnswerInv

(* A configuration is corrected: the entry of its module, or the one that  *)
(* modules without an entry share.                                         *)
LEMMA AnswerAcceptConfig ==
    ASSUME ConfigManagerInv, AnswerInv, pc = "validate", NEW n \in pending, AcceptConfig(n)
    PROVE  AnswerInv'
<1> DEFINE box == IsBlackBox(design[n])
           c == GetConfig(n)
<1>1. /\ UNCHANGED <<input, pc, design, loadedFiles>> /\ pending' = pending \ {n}
      /\ n \in DOMAIN finalModuleCfgs =>
           finalModuleCfgs' = [finalModuleCfgs EXCEPT ![n] = Override(c, box)] /\ globalCfg' = globalCfg
      /\ n \notin DOMAIN finalModuleCfgs =>
           finalModuleCfgs' = finalModuleCfgs /\ globalCfg' = Override(c, box)
  BY DEF AcceptConfig
<1>2. /\ box \in BOOLEAN /\ IsFullCfg(c) /\ n \in DOMAIN design /\ InputType(input)
  <2>1. n \in DOMAIN design /\ TypeInv
    BY DEF ConfigManagerInv, TypeInv, TypeOK
  <2> QED
    BY <2>1, BoxType, GetConfigType DEF TypeInv, TypeOK
<1>3. /\ n \in DOMAIN finalModuleCfgs => c = finalModuleCfgs[n]
      /\ n \notin DOMAIN finalModuleCfgs => c = globalCfg
  BY DEF GetConfig
<1> HIDE DEF c
<1>4. DesignInv' /\ SourcesInv'
  BY <1>1 DEF AnswerInv, DesignInv, IsVersion, Documented!IsVersion, SourcesInv
<1>5. SharedInv'
  <2>1. \A o \in Option \ {"tmrMode", "preserveModulePorts"} : Override(c, box)[o] = c[o]
    BY <1>2, OverrideFacts
  <2> HIDE DEF box
  <2> QED
    BY <1>1, <1>3, <2>1 DEF AnswerInv, SharedInv
<1>6. /\ DOMAIN finalModuleCfgs' = DOMAIN finalModuleCfgs
      /\ \A x \in DOMAIN finalModuleCfgs : x # n => finalModuleCfgs'[x] = finalModuleCfgs[x]
  BY <1>1
<1>7. ASSUME NEW x \in DOMAIN finalModuleCfgs, IsTemplate(x) PROVE IsTemplate(x)'
  <2>1. x \in Documented!MayBeTemplate(input) /\ finalModuleCfgs[x] = Documented!TemplateConfig(input)
    BY <1>7 DEF IsTemplate
  <2>2. finalModuleCfgs'[x] = Documented!TemplateConfig(input)
    <3>1. CASE x # n
      BY <1>6, <2>1, <3>1
    <3>2. CASE x = n
      <4>1. c = Documented!TemplateConfig(input)
        BY <1>3, <2>1, <3>2
      <4>2. c = ExemptOf(Documented!Global(input)) /\ IsFullCfg(Documented!Global(input))
        BY <1>2, <4>1, TemplateIs
      <4>3. Override(c, box) = c
        BY <1>2, <4>2, ExemptIsCorrect
      <4> HIDE DEF box
      <4> QED
        BY <1>1, <3>2, <4>1, <4>3
    <3> QED
      BY <3>1, <3>2
  <2> QED
    BY <1>1, <2>1, <2>2 DEF IsTemplate
<1>8. ASSUME NEW x \in DOMAIN finalModuleCfgs, IsCascade(x) PROVE IsCascade(x)'
  <2>1. /\ x \in DOMAIN input.modules
        /\ finalModuleCfgs[x] = IF x \in pending THEN Documented!Cascade(input, x)
                                ELSE Override(Documented!Cascade(input, x), IsBlackBox(design[x]))
    BY <1>8 DEF IsCascade, Cascade
  <2>2. CASE x # n
    <3>1. finalModuleCfgs'[x] = finalModuleCfgs[x] /\ (x \in pending' <=> x \in pending)
      BY <1>1, <1>6, <2>2
    <3> QED
      BY <1>1, <2>1, <3>1 DEF IsCascade, Cascade
  <2>3. CASE x = n
    <3>1. c = Documented!Cascade(input, n)
      BY <1>3, <2>1, <2>3
    <3>2. finalModuleCfgs'[n] = Override(c, box) /\ n \notin pending'
      BY <1>1, <2>3
    <3> QED
      BY <1>1, <2>1, <2>3, <3>1, <3>2 DEF IsCascade, Cascade
  <2> QED
    BY <2>2, <2>3
<1>9. ASSUME NEW x, Supplied(x) PROVE Supplied(x)'
  <2>1. PICK v : v = VoterId(Documented!Cascade(input, x))
    OBVIOUS
  <2>2. /\ v \in DOMAIN finalModuleCfgs /\ IsTemplate(v) /\ v \in DOMAIN design
        /\ \E m \in Documented!Definitions(input, v) : FitsVoter(m, Documented!Cascade(input, x))
    BY <1>9, <2>1 DEF Supplied, Cascade
  <2>3. v \in DOMAIN finalModuleCfgs' /\ IsTemplate(v)'
    BY <1>6, <1>7, <2>2
  <2> QED
    BY <1>1, <2>1, <2>2, <2>3 DEF Supplied, Cascade
<1>10. Asking' = Asking
  BY <1>1 DEF Asking
<1>11. ConfigsInv'
  BY <1>1, <1>6, <1>7, <1>8, <1>9, <1>10 DEF AnswerInv, ConfigsInv
<1> QED
  BY <1>4, <1>5, <1>11 DEF AnswerInv

(* The constructor ends, is aborted, or does nothing.                      *)
LEMMA AnswerIdle ==
    ASSUME ConfigManagerInv, AnswerInv, Finish \/ Abort \/ UNCHANGED vars
    PROVE  AnswerInv'
<1>1. UNCHANGED <<input, design, sources, loadedFiles, globalCfg, finalModuleCfgs, pending>>
  BY DEF Finish, Abort, vars
<1>2. pc' = pc \/ pc' = "aborted" \/ (pc = "validate" /\ pc' = "done")
  BY DEF Finish, Abort, vars
<1>3. UNCHANGED <<globalPart, groupCfg, moduleCfgs, specificModuleCfgs, moduleAttrCfgs,
                  groupAssignments>>
  BY <1>1 DEF sources
<1>4. DesignInv'
  BY <1>1, <1>2 DEF AnswerInv, DesignInv, IsVersion, Documented!IsVersion
<1>5. SourcesInv'
  BY <1>1, <1>2, <1>3 DEF AnswerInv, SourcesInv
<1>6. SharedInv'
  BY <1>1, <1>2 DEF AnswerInv, SharedInv
<1>7. \A x : /\ IsTemplate(x) <=> IsTemplate(x)'
             /\ Supplied(x) <=> Supplied(x)'
  BY <1>1 DEF IsTemplate, Supplied, Cascade
<1>8. \A x : pc' \in {"voters", "validate", "done"} /\ IsCascade(x) => IsCascade(x)'
  BY <1>1, <1>2 DEF IsCascade, Cascade
<1>9. Asking' = Asking
  BY <1>1 DEF Asking
<1>10. ConfigsInv'
  BY <1>1, <1>2, <1>7, <1>8, <1>9 DEF AnswerInv, ConfigsInv
<1> QED
  BY <1>4, <1>5, <1>6, <1>10 DEF AnswerInv

(* Every step.                                                             *)
LEMMA AnswerNext ==
    ASSUME ConfigManagerInv, AnswerInv, [Next]_vars
    PROVE  AnswerInv'
<1>1. CASE UNCHANGED vars
  BY <1>1, AnswerIdle
<1>2. CASE RefuseFile
  BY <1>2, AnswerIdle DEF RefuseFile
<1>3. CASE ReadFile
  BY <1>3, AnswerReadFile
<1>4. CASE ReadAttributes
  BY <1>4, AnswerReadAttributes
<1>5. CASE Assemble
  BY <1>5, AnswerAssemble
<1>6. CASE VisitVoter
  <2>1. PICK n \in pending : SkipDefaultVoter(n) \/ RejectVoter(n) \/ LoadVoter(n)
    BY <1>6 DEF VisitVoter
  <2>2. pc = "voters"
    BY <1>6 DEF VisitVoter
  <2>3. CASE SkipDefaultVoter(n)
    BY <2>2, <2>3, AnswerSkip
  <2>4. CASE RejectVoter(n)
    BY <2>4, AnswerIdle DEF RejectVoter
  <2>5. CASE LoadVoter(n)
    BY <2>2, <2>5, AnswerLoadVoter
  <2> QED
    BY <2>1, <2>3, <2>4, <2>5
<1>7. CASE StartValidation
  BY <1>7, AnswerStartValidation
<1>8. CASE Validate
  <2>1. PICK n \in pending : RejectConfig(n) \/ AcceptConfig(n)
    BY <1>8 DEF Validate
  <2>2. CASE RejectConfig(n)
    BY <2>2, AnswerIdle DEF RejectConfig
  <2>3. CASE AcceptConfig(n)
    BY <1>8, <2>3, AnswerAcceptConfig DEF Validate
  <2> QED
    BY <2>1, <2>2, <2>3
<1>9. CASE Finish
  BY <1>9, AnswerIdle
<1>10. CASE Terminated
  BY <1>1, <1>10 DEF Terminated
<1> QED
  BY <1>1, <1>2, <1>3, <1>4, <1>5, <1>6, <1>7, <1>8, <1>9, <1>10 DEF Next

-----------------------------------------------------------------------------
(* The answer.                                                             *)

(* A configuration is refused only if the documentation allows it: it is a *)
(* cascade, that of a template, or the global one, which counts only where *)
(* a voter file brought a module without entry.                            *)
LEMMA RejectConfigReason ==
    ASSUME ConfigManagerInv, AnswerInv, pc = "validate", NEW n \in pending, RejectConfig(n)
    PROVE  Documented!MayReject(input)
<1> DEFINE g == Documented!Global(input)
<1>1. ~Acceptable(GetConfig(n)) /\ n \in DOMAIN design /\ InputType(input)
  BY DEF RejectConfig, ConfigManagerInv, TypeInv, TypeOK
<1>2. ASSUME Documented!CustomModules(input) # {}, ~Acceptable(g)
      PROVE  Documented!MayReject(input)
  BY <1>2, SameDecisions DEF Documented!MayReject
<1>3. CASE n \in DOMAIN finalModuleCfgs
  <2>1. ~Acceptable(finalModuleCfgs[n])
    BY <1>1, <1>3 DEF GetConfig
  <2>2. CASE IsCascade(n)
    <3>1. n \in DOMAIN input.modules /\ finalModuleCfgs[n] = Documented!Cascade(input, n)
      BY <2>2 DEF IsCascade, Cascade
    <3> QED
      BY <2>1, <3>1, SameDecisions DEF Documented!MayReject
  <2>3. CASE IsTemplate(n)
    <3>1. /\ finalModuleCfgs[n] = Documented!TemplateConfig(input)
          /\ n \in Documented!MayBeTemplate(input)
      BY <2>3 DEF IsTemplate
    <3>2. Documented!CustomModules(input) # {}
      BY <3>1, VotersAre
    <3>3. ~Acceptable(g)
      BY <1>1, <2>1, <3>1, TemplateIs
    <3> QED
      BY <1>2, <3>2, <3>3
  <2> QED
    BY <1>3, <2>2, <2>3 DEF AnswerInv, ConfigsInv
<1>4. CASE n \notin DOMAIN finalModuleCfgs
  <2>1. ~Acceptable(globalCfg)
    BY <1>1, <1>4 DEF GetConfig
  <2>2. \A o \in Option \ {"tmrMode", "preserveModulePorts"} : globalCfg[o] = g[o]
    BY DEF AnswerInv, SharedInv
  <2> HIDE DEF g
  <2>3. ~Acceptable(g)
    BY <2>1, <2>2, AcceptableOptions DEF Acceptable, UniqueSuffixes
  <2>4. n \notin DOMAIN input.modules
    BY <1>4 DEF AnswerInv, ConfigsInv
  <2>5. PICK f \in loadedFiles : n \in DOMAIN input.library[f]
    BY <1>1, <2>4 DEF AnswerInv, DesignInv
  <2>6. Documented!CustomModules(input) # {}
    BY <2>5, VotersAre DEF AnswerInv, DesignInv
  <2> QED
    BY <1>2, <2>3, <2>6
<1> QED
  BY <1>3, <1>4

(* Correcting a configuration does what is documented.                     *)
LEMMA CorrectedIs ==
    ASSUME NEW c, IsFullCfg(c), NEW box \in BOOLEAN
    PROVE  Override(c, box) = Documented!Corrected(c, box)
<1> DEFINE d == Override(c, box)
           e == Documented!Corrected(c, box)
           mode == Documented!Mode(c, box)
<1>1. DOMAIN c = Option
  BY DEF IsFullCfg, IsConfig
<1>2. e = [c EXCEPT !["tmrMode"] = mode,
                    !["preserveModulePorts"] = c["preserveModulePorts"] \/ mode = "None"]
  BY <1>1, OptionValues DEF Documented!Corrected
<1>3. mode = IF box /\ c["tmrMode"] = "LogicTMR" THEN "FullModuleTMR" ELSE c["tmrMode"]
  BY DEF Documented!Mode
<1>4. /\ d["tmrMode"] = mode
      /\ d["preserveModulePorts"] = (c["preserveModulePorts"] \/ mode = "None")
      /\ \A o \in Option \ {"tmrMode", "preserveModulePorts"} : d[o] = c[o]
  BY <1>3, OverrideFacts
<1>5. d = [o \in Option |-> d[o]]
  BY OverrideType DEF IsFullCfg
<1> HIDE DEF mode, d, e
<1>6. e = [o \in Option |-> e[o]]
  BY <1>1, <1>2
<1>7. \A o \in Option : d[o] = e[o]
  BY <1>1, <1>2, <1>4, OptionValues
<1> QED
  BY <1>5, <1>6, <1>7 DEF d, e

(* What a module has when the constructor ends is what it is promised.     *)
LEMMA DeliveredAtEnd ==
    ASSUME ConfigManagerInv, AnswerInv, pc = "validate", pending = {},
           NEW a, a.design = design,
           a.configs = [n \in DOMAIN input.modules |-> GetConfig(n)],
           NEW n \in DOMAIN input.modules
    PROVE  Documented!Delivered(input, a, n) /\ Documented!Acceptable(a.configs[n])
<1>1. /\ n \in DOMAIN finalModuleCfgs /\ n \in DOMAIN design /\ InputType(input)
      /\ a.configs[n] = GetConfig(n) /\ GetConfig(n) = finalModuleCfgs[n]
  BY DEF AnswerInv, ConfigsInv, DesignInv, ConfigManagerInv, TypeInv, TypeOK, GetConfig
<1>2. IsBlackBox(design[n]) \in BOOLEAN
  BY <1>1, BoxType DEF ConfigManagerInv
<1>3. Documented!Acceptable(a.configs[n])
  <2>1. Acceptable(GetConfig(n))
    BY <1>1 DEF ConfigManagerInv, ValidInv, Valid
  <2> QED
    BY <1>1, <2>1, SameDecisions
<1>4. ASSUME IsTemplate(n)
      PROVE  Documented!Delivered(input, a, n)
  BY <1>1, <1>4 DEF IsTemplate, Documented!Delivered
<1>5. CASE n \in Documented!Template(input)
  <2>1. PICK k \in Asking : n = VoterId(Documented!Cascade(input, k))
    BY <1>5, SameDecisions DEF Documented!Template, Asking
  <2>2. Supplied(k)
    BY DEF AnswerInv, ConfigsInv
  <2>3. IsTemplate(n)
    BY <2>1, <2>2 DEF Supplied, Cascade
  <2> QED
    BY <1>3, <1>4, <2>3
<1>6. CASE n \notin Documented!Template(input)
  <2>1. CASE IsCascade(n)
    <3>1. finalModuleCfgs[n] = Override(Documented!Cascade(input, n), IsBlackBox(design[n]))
      BY <2>1 DEF IsCascade, Cascade
    <3>2. IsFullCfg(Documented!Cascade(input, n))
      BY <1>1, CascadeIs
    <3> DEFINE box == IsBlackBox(design[n])
    <3>3. Documented!IsBlackBox(a.design[n]) = box
      BY <1>2, SameDecisions DEF Documented!IsBlackBox, IsBlackBox
    <3> HIDE DEF box
    <3>4. finalModuleCfgs[n] = Documented!Corrected(Documented!Cascade(input, n), box)
      BY <1>2, <3>1, <3>2, CorrectedIs DEF box
    <3> QED
      BY <1>1, <1>3, <1>6, <3>3, <3>4 DEF Documented!Delivered
  <2>2. CASE IsTemplate(n)
    BY <1>3, <1>4, <2>2
  <2> QED
    BY <1>1, <2>1, <2>2 DEF AnswerInv, ConfigsInv
<1> QED
  BY <1>5, <1>6

(* The constructor ends with an answer that is allowed.                    *)
LEMMA FinishAnswers ==
    ASSUME ConfigManagerInv, AnswerInv, pc = "validate", pending = {},
           NEW a, a.design = design,
           a.configs = [n \in DOMAIN input.modules |-> GetConfig(n)]
    PROVE  Documented!Answers(input, a)
<1>1. DOMAIN a.configs = DOMAIN input.modules /\ DOMAIN input.modules \subseteq DOMAIN a.design
  BY DEF AnswerInv, DesignInv
<1>2. ASSUME NEW n \in DOMAIN a.design
      PROVE  \E d \in Documented!Definitions(input, n) : Documented!IsVersion(a.design[n], d)
  <2>1. /\ InputType(input) /\ loadedFiles \subseteq Documented!VoterFiles(input)
        /\ \/ n \in DOMAIN input.modules /\ IsVersion(design[n], input.modules[n])
           \/ \E f \in loadedFiles : n \in DOMAIN input.library[f]
                                     /\ IsVersion(design[n], input.library[f][n])
    BY <1>2 DEF ConfigManagerInv, TypeInv, TypeOK, AnswerInv, DesignInv
  <2>2. \E d \in Documented!Definitions(input, n) : IsVersion(design[n], d)
    BY <2>1, Origin
  <2> QED
    BY <2>2 DEF IsVersion
<1>3. \A n \in DOMAIN input.modules :
        Documented!Delivered(input, a, n) /\ Documented!Acceptable(a.configs[n])
  BY DeliveredAtEnd
<1>4. ASSUME NEW n \in Documented!CustomModules(input) \ Documented!MayBeTemplate(input)
      PROVE  Documented!VoterAvailable(input, a, Documented!Cascade(input, n))
  <2>1. Supplied(n)
    BY <1>4 DEF AnswerInv, ConfigsInv, Asking
  <2>2. PICK t : t = VoterId(Documented!Cascade(input, n))
    OBVIOUS
  <2>3. /\ t \in DOMAIN a.design
        /\ \E m \in Documented!Definitions(input, t) : FitsVoter(m, Documented!Cascade(input, n))
    BY <2>1, <2>2 DEF Supplied, Cascade
  <2>4. Documented!VoterId(Documented!Cascade(input, n)) = t
    BY <2>2, SameDecisions
  <2> QED
    BY <2>3, <2>4, SameDecisions DEF Documented!VoterAvailable
<1> QED
  BY <1>1, <1>2, <1>3, <1>4 DEF Documented!Answers

(* Every step of the constructor is one of the documentation's, or none.   *)
LEMMA AnswerStep ==
    ASSUME ConfigManagerInv, AnswerInv, [Next]_vars
    PROVE  [Documented!Resolve \/ Documented!Reject]_<<input, Answer>>
<1>1. Documented!Nothing = Empty
  BY DEF Documented!Nothing, Empty
<1>2. input' = input
  BY DEF Next, vars, RefuseFile, ReadFile, ReadAttributes, Assemble, VisitVoter, SkipDefaultVoter,
         RejectVoter, LoadVoter, StartValidation, Validate, RejectConfig, AcceptConfig, Finish,
         Terminated, Abort
<1>3. ASSUME pc \notin {"done", "aborted"}
      PROVE  Answer = Documented!Open
  BY <1>1, <1>3 DEF Answer, Documented!Open
<1>4. ASSUME pc' \notin {"done", "aborted"}
      PROVE  Answer' = Documented!Open
  BY <1>1, <1>4 DEF Answer, Documented!Open
<1>5. ASSUME pc \notin {"done", "aborted"}, Abort, Documented!MayReject(input)
      PROVE  Documented!Reject
  <2>1. Answer' = Documented!Rejected
    BY <1>1, <1>5 DEF Abort, Answer, Documented!Rejected
  <2> QED
    BY <1>2, <1>3, <1>5, <2>1 DEF Documented!Reject
<1>6. ASSUME pc \notin {"done", "aborted"}, pc' \notin {"done", "aborted"}
      PROVE  UNCHANGED <<input, Answer>>
  BY <1>2, <1>3, <1>4, <1>6
<1>7. CASE UNCHANGED vars
  BY <1>7 DEF vars, Answer, GetConfig
<1>8. CASE RefuseFile
  <2>1. Documented!MayReject(input)
    BY <1>8, SameReading DEF RefuseFile, Documented!MayReject
  <2> QED
    BY <1>5, <1>8, <2>1 DEF RefuseFile
<1>9. CASE ReadFile \/ ReadAttributes \/ Assemble \/ StartValidation
  BY <1>6, <1>9 DEF ReadFile, ReadAttributes, Assemble, StartValidation
<1>10. CASE VisitVoter
  <2>1. PICK n \in pending : SkipDefaultVoter(n) \/ RejectVoter(n) \/ LoadVoter(n)
    BY <1>10 DEF VisitVoter
  <2>2. pc = "voters"
    BY <1>10 DEF VisitVoter
  <2>3. CASE SkipDefaultVoter(n) \/ LoadVoter(n)
    BY <1>6, <2>2, <2>3 DEF SkipDefaultVoter, LoadVoter
  <2>4. CASE RejectVoter(n)
    BY <1>5, <2>2, <2>4, RejectVoterReason DEF RejectVoter
  <2> QED
    BY <2>1, <2>3, <2>4
<1>11. CASE Validate
  <2>1. PICK n \in pending : RejectConfig(n) \/ AcceptConfig(n)
    BY <1>11 DEF Validate
  <2>2. pc = "validate"
    BY <1>11 DEF Validate
  <2>3. CASE AcceptConfig(n)
    BY <1>6, <2>2, <2>3 DEF AcceptConfig
  <2>4. CASE RejectConfig(n)
    BY <1>5, <2>2, <2>4, RejectConfigReason DEF RejectConfig
  <2> QED
    BY <2>1, <2>3, <2>4
<1>12. CASE Finish
  <2>1. /\ pc = "validate" /\ pending = {} /\ pc' = "done"
        /\ UNCHANGED <<input, design, globalCfg, finalModuleCfgs>>
    BY <1>12 DEF Finish
  <2>2. Answer' = [status |-> "resolved", design |-> design,
                   configs |-> [n \in DOMAIN input.modules |-> GetConfig(n)]]
    BY <2>1 DEF Answer, GetConfig
  <2>3. Documented!Answers(input, Answer')
    BY <2>1, <2>2, FinishAnswers
  <2>4. ~Documented!Refused(input.file)
    BY <2>1, SameReading DEF AnswerInv, SourcesInv
  <2>5. Answer' = [status |-> "resolved", design |-> Answer'.design, configs |-> Answer'.configs]
    BY <2>2
  <2> QED
    BY <1>2, <1>3, <2>1, <2>3, <2>4, <2>5 DEF Documented!Resolve
<1>13. CASE Terminated
  BY <1>7, <1>13 DEF Terminated
<1> QED
  BY <1>7, <1>8, <1>9, <1>10, <1>11, <1>12, <1>13 DEF Next

(* In whatever order the constructor visits modules, loads voters and      *)
(* corrects the configurations that modules share: every module ends with  *)
(* the configuration of the documented precedence, or the input is refused *)
(* for a documented reason.                                                *)
THEOREM ConfigurationAsDocumentedHolds == Spec => ConfigurationAsDocumented
<1>1. Init => ConfigManagerInv /\ AnswerInv
  BY TypeInit, AnswerInit DEF Init, ConfigManagerInv, EntriesInv, TemplatesInv, ValidInv, GlobalInv
<1>2. ConfigManagerInv /\ AnswerInv /\ [Next]_vars => (ConfigManagerInv /\ AnswerInv)'
  BY InvNext, AnswerNext
<1>3. Init => Documented!InputType(input) /\ Answer = Documented!Open
  BY InputsAssumption, SameInputType DEF Init, Answer, Documented!Open, Documented!Nothing, Empty
<1>4. ConfigManagerInv /\ AnswerInv /\ [Next]_vars
        => [Documented!Resolve \/ Documented!Reject]_<<input, Answer>>
  BY AnswerStep
<1> QED
  BY <1>1, <1>2, <1>3, <1>4, PTL
     DEF Spec, ConfigurationAsDocumented, Documented!ConfigurationSpec
===============================================================================
