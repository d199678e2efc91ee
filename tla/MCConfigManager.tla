--------------------------- MODULE MCConfigManager ---------------------------
(***************************************************************************)
(* Small designs for ConfigManager: a top module, a child with names of    *)
(* every shape, and Verilog files with voters.                             *)
(***************************************************************************)
EXTENDS ConfigManagerProperties

Strings == STRING

Top   == <<"top">>
Sub   == <<"sub">>
SubU  == <<"sub", "top.u">>          \* \sub$top.u, a unique copy of sub
ParamSub == <<"", "paramod", "sub">> \* $paramod$sub

Set(o, v) == [p \in {o} |-> v]

Plain == [proper |-> FALSE, bb |-> FALSE, mems |-> FALSE, procs |-> FALSE, inp |-> {}, out |-> {},
          attrs |-> NoPart, groups |-> <<>>, uses |-> {}]
Child == [Plain EXCEPT !.proper = TRUE]
TopOf(n) == [Plain EXCEPT !.uses = {n}]

NoFile == [readable |-> TRUE, known |-> TRUE, global |-> NoPart, group |-> NoPart,
           module |-> NoPart, specific |-> NoPart]

Entry(groups, part) == [groups |-> groups, part |-> part]
Input(modules, file, library) == [modules |-> modules, file |-> file, library |-> library]
Two(n, m) == Over(Set(n, m), Set(Top, TopOf(n)))

-----------------------------------------------------------------------------
(* Precedence: every layer of a set sets two options, each layer to values *)
(* of its own where the option has enough of them.                         *)
Layer == {"global", "base", "own", "attributed", "module", "attr", "specific"}

LayerMode(l) == IF l \in {"global", "own", "attr"} THEN "FullModuleTMR" ELSE "None"

Part(layers, l) ==
    IF l \notin layers THEN NoPart
    ELSE IF l \in {"base", "module"} THEN Set("errorPortName", l)
    ELSE Over(Set("errorPortName", l), Set("tmrMode", LayerMode(l)))

GroupsIn(layers, l) == IF l \in layers THEN <<l, "missing">> ELSE <<>>

LayeredFile(layers, n) ==
    [NoFile EXCEPT
       !.global = Part(layers, "global"),
       !.group = [g \in {"base", "own", "attributed"} |-> Part({g}, g)],
       !.module = Over(Set(Sub, Entry(GroupsIn(layers, "base"), Part(layers, "module"))),
                       IF n = ParamSub THEN NoPart
                       ELSE Set(n, Entry(GroupsIn(layers, "own"), Part(layers, "own")))),
       !.specific = IF n = SubU THEN Set(n, Entry(<<>>, Part(layers, "specific"))) ELSE NoPart]

Layered(m, layers) ==
    [m EXCEPT !.attrs = Part(layers, "attr"), !.groups = GroupsIn(layers, "attributed")]

Precedence ==
    {Input(Two(n, Layered(m, s)), LayeredFile(s, n), NoPart)
       : n \in {Sub, SubU, ParamSub}, m \in {Plain, Child}, s \in SUBSET Layer}

(* Black boxes of every kind, alone and as the base of a copy, against the *)
(* modes the file and the attributes ask for.                              *)
Kinds == {[bb |-> b, mems |-> m, procs |-> p] : b \in BOOLEAN, m \in BOOLEAN, p \in BOOLEAN}
Kind(m, k) == [m EXCEPT !.bb = k.bb, !.mems = k.mems, !.procs = k.procs]

BoxFile(global, boxGroup, entry) ==
    [NoFile EXCEPT !.global = global,
                   !.group = Over(boxGroup, Set("frozen", Set("tmrMode", "None"))),
                   !.module = Set(Sub, Entry(<<"cdc_module", "frozen">>, entry))]

BoxGroups == {NoPart, Set("black_box_module", Set("errorPortName", "err"))}

Boxes ==
    {Input(Over(Two(SubU, Kind(Child, k)), Set(Sub, Kind(Plain, b))), f, NoPart)
       : k \in Kinds, b \in {[bb |-> FALSE, mems |-> FALSE, procs |-> FALSE],
                             [bb |-> TRUE, mems |-> FALSE, procs |-> FALSE]},
         f \in {NoFile} \cup {BoxFile(g, b2, e) : g \in {NoPart, Set("tmrMode", "None")},
                                                  b2 \in BoxGroups,
                                                  e \in {NoPart, Set("tmrMode", "LogicTMR")}}}

-----------------------------------------------------------------------------
(* Voters: a sound one, one without an error port, one that is a black box *)
(* and one with a helper module.                                           *)
VoterModule == [Plain EXCEPT !.inp = {"a", "b", "c", "clk"}, !.out = {"y", "err"}]
Mute        == [VoterModule EXCEPT !.out = {"y"}]
Clocked     == [VoterModule EXCEPT !.procs = TRUE]
Helped      == [VoterModule EXCEPT !.uses = {<<"helper">>}]

Voters ==
    Over(Set("v1.v", Set(<<"v1">>, Clocked)),
    Over(Set("v2.v", Set(<<"v2">>, VoterModule)),
    Over(Set("both.v", Over(Set(<<"v1">>, VoterModule), Set(<<"v2">>, VoterModule))),
         Set("mute.v", Set(<<"v1">>, Mute)))))

VoterFile(file, module, clock) ==
    Over(Set("tmrVoter", "Custom"), Over(Set("tmrVoterFile", file),
    Over(Set("tmrVoterModule", module), Set("tmrVoterClockPortName", clock))))

VoterParts ==
    {VoterFile(f, m, c) : f \in {"v1.v", "both.v", "mute.v", "gone.v"}, m \in {"v1", "v2"},
                          c \in {"", "clk"}}
      \cup {VoterFile("", "v1", ""), VoterFile("v2.v", "", ""), VoterFile("v2.v", "v2", "clk2"), NoPart}

(* The global section and the entry of a module ask for voters; v1 may be  *)
(* declared in the design, too, and ask for one itself; the child may have *)
(* a process.                                                              *)
DesignVoters == {NoPart} \cup
    {Set(<<"v1">>, [VoterModule EXCEPT !.bb = b, !.attrs = a])
       : b \in BOOLEAN, a \in {NoPart, VoterFile("v2.v", "v2", "")}}

Customs ==
    {Input(Over(Two(SubU, [Child EXCEPT !.procs = p]), d),
           [NoFile EXCEPT !.global = g,
                          !.module = Set(Sub, Entry(<<>>, Over(Set("tmrMode", "LogicTMR"), e)))],
           Voters)
       : p \in BOOLEAN, d \in DesignVoters, e \in VoterParts,
         g \in {NoPart, VoterFile("v2.v", "v2", ""), VoterFile("v1.v", "v1", "clk")}}

(* A voter that brings helpers: a module with a memory among them, which   *)
(* shares the global configuration with the others.                        *)
Helpers(ms) ==
    Over(Set(<<"v1">>, Helped), Over(Set(<<"helper">>, Plain), ms))

HelperLibraries ==
    {Set("v1.v", Helpers(NoPart)), Set("v1.v", Helpers(Set(<<"ram">>, [Plain EXCEPT !.mems = TRUE])))}

WithHelpers(globals) ==
    {Input(Two(SubU, Child), [NoFile EXCEPT !.global = Over(g, VoterFile("v1.v", "v1", ""))], l)
       : g \in globals, l \in HelperLibraries}

Globals == {NoPart} \cup {Set("tmrMode", m) : m \in TmrMode}

(* Files that end the pass or are ignored, values that mean nothing.       *)
Suffixes(a, b) == Over(Set("logicPath1Suffix", a), Set("logicPath2Suffix", b))

Mistakes ==
    {Input(Two(SubU, [Child EXCEPT !.attrs = a]),
           [NoFile EXCEPT !.readable = r, !.known = k, !.global = g,
                          !.specific = s], NoPart)
       : r \in BOOLEAN, k \in BOOLEAN,
         a \in {NoPart, Set("tmrMode", "logic"), Set("preserveModulePorts", "true"),
                Set("preserveModulePorts", "1"), Suffixes("_b", "_a"), Suffixes("_b", "_b")},
         g \in {NoPart, Set("insertVoterBeforeFf", TRUE), Set("tmrVoter", "custom")},
         s \in {NoPart, Set(SubU, Entry(<<>>, Set("insertVoterBeforeFf", FALSE))),
                Set(Sub, Entry(<<>>, NoPart))}}

AllInputs == Precedence \cup Boxes \cup Customs \cup WithHelpers(Globals) \cup Mistakes

HelperInputs == WithHelpers({NoPart})
=============================================================================
