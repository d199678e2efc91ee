----------------------------- MODULE MCTmrxPass -----------------------------
(***************************************************************************)
(* Small designs for TmrxPass: a top T, a middle module M and a leaf L,    *)
(* every mode, port and renaming option for each of them.                  *)
(***************************************************************************)
EXTENDS TmrxPassInvariant

MCLevel == [u \in User |-> CASE u = "T" -> 2 [] u = "M" -> 1 [] u = "L" -> 0]

Ff(q)      == <<q, BuiltinFf>>
Sub(i, u)  == <<i, <<u>>>>

Chain   == [T |-> {Ff("q"), Sub("m", "M")},
            M |-> {Ff("q"), Sub("l", "L")}, L |-> {Ff("q")}]
Diamond == [T |-> {Ff("q"), Sub("m", "M"), Sub("l", "L")},
            M |-> {Ff("q"), Sub("l", "L")}, L |-> {Ff("q")}]
Twins   == [T |-> {Sub("m", "M")},
            M |-> {Ff("q"), Sub("l1", "L"), Sub("l2", "L")}, L |-> {Ff("q")}]
BoxLeaf == [Diamond EXCEPT !.L = {}]

Cfg(m, p, r) == [mode |-> m, preserve |-> p, prevent |-> r, ffVoter |-> TRUE,
                 ffCells |-> {LibraryFf}, excludedFf |-> {}]
NoFfList(cfg) == [cfg EXCEPT !.ffCells = {}]

SubConfigs == {c \in {Cfg(m, p, r) : m \in Mode, p \in BOOLEAN, r \in BOOLEAN} :
                 Validated(c, FALSE)}
TopConfigs == {c \in SubConfigs : ~c.prevent}
BoxConfigs == {c \in TopConfigs : Validated(c, TRUE)}
Configs(tops, mids, leaves) ==
    {[n \in UserName |-> CASE n = <<"T">> -> t [] n = <<"M">> -> m [] n = <<"L">> -> l]
        : t \in tops, m \in mids, l \in leaves}

Input(cells, bb, cfg, global, mapped, markSel, tmrxSel) ==
    [cells |-> cells, bb |-> bb, cfg |-> cfg, global |-> global, mapped |-> mapped,
     markSel |-> markSel, tmrxSel |-> tmrxSel]

DefaultConfig == Cfg("Logic", FALSE, FALSE)
PreservingGlobal == Cfg("Logic", TRUE, FALSE)

(* Names as in the documentation, and names that come close to being read  *)
(* in two ways: one user's name continues another, one ends in a suffix,   *)
(* and suffixes begin alike.                                               *)
MCLetter == {"t", "m", "l", "a", "b", "c", "_", "tmrx", "impl", "worker"}
Plain ==
    [x \in User \cup Suffix |->
       CASE x = "T" -> <<"t">> [] x = "M" -> <<"m">> [] x = "L" -> <<"l">>
         [] x = "_a" -> <<"_", "a">> [] x = "_b" -> <<"_", "b">> [] x = "_c" -> <<"_", "c">>
         [] x = ImplSuffix -> <<"_", "tmrx", "_", "impl">>
         [] x = WorkerSuffix -> <<"_", "tmrx", "_", "worker">>]
Tricky ==
    [Plain EXCEPT !["M"] = <<"l", "_", "a", "l">>, !["T"] = <<"t", "_", "a">>,
                  !["_b"] = <<"b">>, !["_c"] = <<"_", "a", "c">>]
MCSpellings == {Plain, Tricky}

(* Both passes on the whole design, every configuration.                   *)
WholeDesign ==
    {Input(h, {}, cfg, DefaultConfig, TRUE, UserName, UserName)
       : h \in {Chain, Diamond, Twins},
         cfg \in Configs(TopConfigs, SubConfigs, SubConfigs)}

(* A blackbox leaf, and a global configuration that exempts from renaming. *)
Boxes ==
    {Input(BoxLeaf, {<<"L">>}, cfg, g, FALSE, UserName, UserName)
       : g \in {DefaultConfig, PreservingGlobal},
         cfg \in Configs(TopConfigs, TopConfigs, BoxConfigs)}
  \cup
    {Input(h, {}, cfg, PreservingGlobal, FALSE, UserName, UserName)
       : h \in {Chain, Diamond}, cfg \in Configs(TopConfigs, TopConfigs, TopConfigs)}

(* tmrx_mark on the modules with submodules, tmrx on any part of them.     *)
PartialSelections ==
    {Input(h, {}, cfg, DefaultConfig, TRUE, {<<"T">>, <<"M">>}, s)
       : h \in {Diamond}, s \in SUBSET UserName,
         cfg \in Configs(TopConfigs, TopConfigs, TopConfigs)}

(* Mapped flip-flops that only their source location tells, in modules that*)
(* are expanded in place.                                                  *)
PreservedRegisters ==
    {Input(Chain, {}, [n \in UserName |-> NoFfList(cfg[n])], DefaultConfig, TRUE,
           UserName, UserName)
       : cfg \in Configs({c \in TopConfigs : c.preserve}, {c \in TopConfigs : c.preserve},
                         {c \in TopConfigs : c.preserve})}

AllDesigns == WholeDesign \cup Boxes \cup PartialSelections \cup PreservedRegisters

(* A nested FullModuleTMR module under a port-preserving global default.   *)
NestedFull ==
    {Input(Chain, {}, cfg, PreservingGlobal, TRUE, UserName, UserName)
       : cfg \in Configs({Cfg("Logic", TRUE, FALSE)}, {Cfg("Full", TRUE, FALSE)},
                         {Cfg("Full", TRUE, FALSE), Cfg("None", TRUE, FALSE)})}

(* Flip-flops mapped between the passes, found only by source location.    *)
MappedRegisters ==
    {Input(Chain, {}, [n \in UserName |-> NoFfList(cfg[n])], DefaultConfig, TRUE,
           UserName, UserName)
       : cfg \in Configs(TopConfigs, TopConfigs, TopConfigs)}

(* The example of the documentation: one module selected for both passes.  *)
SelectOne ==
    {Input(Chain, {}, cfg, DefaultConfig, TRUE, {<<"M">>}, {<<"M">>})
       : cfg \in Configs({DefaultConfig}, {DefaultConfig}, TopConfigs)}

(* An original that is referenced only by another original.                *)
Originals ==
    {Input(Chain, {}, cfg, DefaultConfig, TRUE, UserName, UserName)
       : cfg \in Configs({DefaultConfig}, TopConfigs, TopConfigs)}
=============================================================================
