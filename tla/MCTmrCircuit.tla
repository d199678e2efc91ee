---------------------------- MODULE MCTmrCircuit ----------------------------
(***************************************************************************)
(* Small circuits for TmrCircuit.                                          *)
(***************************************************************************)
EXTENDS TmrCircuitMasking

T == <<"T">>
M == <<"M">>
clk == <<"clk_i">>

Module(wires, inp, out, cells, conns) ==
    [wires |-> wires \cup inp \cup out, inp |-> inp, out |-> out, clk |-> {}, rst |-> {},
     sink |-> {}, cells |-> cells, conns |-> conns]

(* An error sink, tied to 0 as in the repository's tests.                  *)
WithSink(m) ==
    [m EXCEPT !.wires = @ \cup {<<"err_o">>}, !.out = @ \cup {<<"err_o">>},
              !.sink = {<<"err_o">>}, !.conns = @ \cup {<<<<"err_o">>, Zero>>}]

Cell1(type, a, y)    == [type |-> type, conn |-> (<<"A">> :> a) @@ (<<"Y">> :> y)]
Cell2(type, a, b, y) == [type |-> type, conn |-> (<<"A">> :> a) @@ (<<"B">> :> b) @@ (<<"Y">> :> y)]
Ff(d, q) == [type |-> <<"ff">>, conn |-> (<<"C">> :> clk) @@ (<<"D">> :> d) @@ (<<"Q">> :> q)]
Sub(a, z) == [type |-> M, conn |-> (clk :> clk) @@ (<<"a">> :> a) @@ (<<"z">> :> z)]

(* M: z = r xor a; r' = a.                                                 *)
Delta == Module({<<"r">>}, {clk, <<"a">>}, {<<"z">>},
    (<<"r">> :> Ff(<<"a">>, <<"r">>)) @@ (<<"x">> :> Cell2(<<"xor">>, <<"r">>, <<"a">>, <<"z">>)),
    {})

(* T: q' = d xor q; u: M(q); y = z.                                        *)
Toggle == Module({<<"q">>, <<"n">>, <<"t">>}, {clk, <<"d">>}, {<<"y">>},
    (<<"q">> :> Ff(<<"n">>, <<"q">>)) @@ (<<"x">> :> Cell2(<<"xor">>, <<"d">>, <<"q">>, <<"n">>)) @@
    (<<"u">> :> Sub(<<"q">>, <<"t">>)),
    {<<<<"y">>, <<"t">>>>})

(* T: a wire from one instance of M straight to the next.                  *)
Chain == Module({<<"t">>}, {clk, <<"d">>}, {<<"y">>},
    (<<"u1">> :> Sub(<<"d">>, <<"t">>)) @@ (<<"u2">> :> Sub(<<"t">>, <<"y">>)), {})

(* Three levels: T inverts its input for M, which delays it for L.         *)
L == <<"L">>
Invert == Module({<<"n">>}, {clk, <<"d">>}, {<<"y">>},
    (<<"x">> :> Cell1(<<"not">>, <<"d">>, <<"n">>)) @@ (<<"u">> :> Sub(<<"n">>, <<"y">>)), {})
Delay == Module({<<"q">>}, {clk, <<"a">>}, {<<"z">>},
    (<<"q">> :> Ff(<<"a">>, <<"q">>)) @@ (<<"v">> :> [Sub(<<"q">>, <<"z">>) EXCEPT !.type = L]), {})

(* M with a reset: r' = a unless it is reset.  T passes its reset on.      *)
rst == <<"rst_ni">>
WithReset(ff) == [ff EXCEPT !.conn = (<<"R">> :> rst) @@ @]

ResetDelta == [Delta EXCEPT !.wires = @ \cup {rst}, !.inp = @ \cup {rst},
                            !.cells[<<"r">>] = WithReset(@)]
ResetToggle == [Toggle EXCEPT !.wires = @ \cup {rst}, !.inp = @ \cup {rst},
                              !.cells[<<"q">>] = WithReset(@), !.cells[<<"u">>] = WithReset(@),
                              !.cells[<<"u">>].conn = [p \in (DOMAIN @ \ {<<"R">>}) \cup {rst} |->
                                                          IF p = rst THEN rst ELSE @[p]]]

(* T puts out a gated clock, y = clk and d, that drives M.                 *)
Gate == Module({}, {clk, <<"d">>}, {<<"g">>, <<"y">>},
    (<<"x">> :> Cell2(<<"and">>, clk, <<"d">>, <<"g">>)) @@
    (<<"u">> :> [Sub(<<"d">>, <<"y">>) EXCEPT !.conn[clk] = <<"g">>]), {})
ClkAttribute(m) == [m EXCEPT !.clk = {clk}]

(* T: q' = not q, and q is also a clock output.                            *)
Divider == [Module({<<"q">>, <<"n">>}, {clk}, {<<"y">>},
    (<<"q">> :> Ff(<<"n">>, <<"q">>)) @@ (<<"x">> :> Cell1(<<"not">>, <<"q">>, <<"n">>)),
    {<<<<"y">>, <<"q">>>>}) EXCEPT !.clk = {<<"y">>}]

-----------------------------------------------------------------------------
BaseCfg ==
    [mode |-> "Logic", preserve |-> FALSE, expandClock |-> FALSE, expandReset |-> FALSE,
     ffVoter |-> TRUE, before |-> FALSE, after |-> TRUE, voteClock |-> FALSE, voteReset |-> FALSE,
     safe |-> TRUE, auto |-> FALSE, clkNames |-> {clk}, rstNames |-> {rst},
     errorPort |-> NoWire, controls |-> [p \in {} |-> NoWire]]

Logic(p) == [BaseCfg EXCEPT !.preserve = p]
Full(p)  == [BaseCfg EXCEPT !.mode = "Full", !.preserve = p]
None     == [BaseCfg EXCEPT !.mode = "None", !.preserve = TRUE]

Modes == {None, Logic(TRUE), Logic(FALSE), Full(TRUE), Full(FALSE)}

Unsafe(cfg)    == [cfg EXCEPT !.safe = FALSE]
WithAuto(cfg)  == [cfg EXCEPT !.auto = TRUE]
NoFfVoter(cfg) == [cfg EXCEPT !.ffVoter = FALSE]
Expanded(cfg)  == [cfg EXCEPT !.expandClock = TRUE, !.expandReset = TRUE]
VoteAll(cfg)   == [cfg EXCEPT !.before = TRUE, !.voteClock = TRUE, !.voteReset = TRUE]

Design(top, m, tc, mc) ==
    [top |-> T, mods |-> (T :> top) @@ (M :> m),
     cfgs |-> [of |-> (T :> tc) @@ (M :> mc), global |-> BaseCfg]]

Alone(top, tc) == [top |-> T, mods |-> (T :> top), cfgs |-> [of |-> (T :> tc), global |-> BaseCfg]]

Mixed == {Design(Toggle, Delta, tc, mc) : tc \in Modes, mc \in Modes}

Nested(top, m, l, tc, mc, lc) ==
    [top |-> T, mods |-> (T :> top) @@ (M :> m) @@ (L :> l),
     cfgs |-> [of |-> (T :> tc) @@ (M :> mc) @@ (L :> lc), global |-> BaseCfg]]

ThreeLevels ==
    {Nested(Invert, Delay, Delta, Logic(FALSE), mc, lc) :
       mc \in Modes, lc \in Modes \ {Logic(TRUE)}} \cup
    {Nested(Invert, Delay, Delta, Full(TRUE), mc, lc) :
       mc \in {Logic(FALSE), Full(FALSE)}, lc \in {None, Logic(FALSE)}} \cup
    {Nested(WithSink(Invert), WithSink(Delay), WithSink(Delta), Logic(FALSE), Logic(mp), Logic(lp)) :
       mp \in BOOLEAN, lp \in BOOLEAN}

(* With safe mode, whether a chain is accepted depends on the order of its *)
(* cells.                                                                  *)
Chains == {Design(Chain, Delta, Unsafe(tc), Unsafe(mc)) : tc \in Modes \ {None}, mc \in Modes}

(* Clock and reset networks, expanded or not.                              *)
Resets ==
    {Design(ResetToggle, ResetDelta, c[1], c[2]) :
       c \in {<<Expanded(Logic(FALSE)), Logic(FALSE)>>, <<Logic(FALSE), Expanded(Logic(FALSE))>>,
              <<Expanded(Logic(FALSE)), Expanded(Logic(FALSE))>>,
              <<Expanded(Full(FALSE)), Logic(TRUE)>>,
              <<Logic(FALSE), VoteAll(Expanded(Full(FALSE)))>>,
              <<Expanded(Logic(FALSE)), VoteAll(Full(FALSE))>>}}

Clocks ==
    {Design(Gate, m, tc, Expanded(Logic(FALSE))) :
       m \in {Delta, ClkAttribute(Delta)}, tc \in {Logic(TRUE), Logic(FALSE)}} \cup
    {Alone(Divider, tc) : tc \in {Full(FALSE), Full(TRUE), Expanded(Logic(FALSE))}}

Unvoted == {Design(Toggle, Delta, NoFfVoter(Logic(tp)), NoFfVoter(Logic(mp))) :
              tp \in BOOLEAN, mp \in BOOLEAN}

(* Error sinks in both modules, or an automatic error port at the top.     *)
Sinks ==
    {Design(WithSink(Toggle), WithSink(Delta), Logic(tp), Logic(mp)) :
       tp \in BOOLEAN, mp \in BOOLEAN} \cup
    {Design(WithSink(Toggle), WithSink(Delta), tc, mc) :
       tc \in {Logic(FALSE)}, mc \in {Full(TRUE), Full(FALSE)}} \cup
    {Design(WithSink(Toggle), Delta, tc, None) : tc \in {Full(TRUE), Full(FALSE)}} \cup
    {Design(Toggle, WithSink(Delta), WithAuto(Logic(TRUE)), Logic(FALSE)),
     Design(Toggle, Delta, WithAuto(Full(TRUE)), Logic(FALSE)),
     Design(Toggle, Delta, WithAuto(Logic(FALSE)), None)}

(* Custom voters with a clock and a reset: found by the names or, where    *)
(* these are expanded, by the attributes of the wires, or configured.      *)
Found(cfg) == [cfg EXCEPT !.controls = (VoterClock :> NoWire) @@ (VoterReset :> NoWire)]
Named(cfg) == [cfg EXCEPT !.controls = (VoterClock :> clk) @@ (VoterReset :> rst)]
Marked(m)  == [m EXCEPT !.clk = {clk}, !.rst = {rst}]

CustomVoters ==
    {Design(ResetToggle, ResetDelta, c[1], c[2]) :
       c \in {<<Found(Logic(FALSE)), Named(Full(FALSE))>>, <<Named(Logic(TRUE)), Found(Full(TRUE))>>}}
    \cup
    {Design(Marked(ResetToggle), Marked(ResetDelta), c[1], c[2]) :
       c \in {<<Found(Expanded(Logic(FALSE))), Found(Expanded(Full(FALSE)))>>,
              <<Found(Expanded(Logic(FALSE))), Found(Logic(FALSE))>>}}

Circuits == ThreeLevels \cup CustomVoters \cup Mixed \cup Chains \cup Resets \cup Clocks \cup Unvoted \cup Sinks

-----------------------------------------------------------------------------
(* Designs that disagree with the documentation.                           *)
AutoPorts    == {Design(Toggle, Delta, WithAuto(Logic(FALSE)), WithAuto(Logic(FALSE)))}
NestedErrors == {Design(WithSink(Toggle), WithSink(Delta), Full(TRUE), Logic(TRUE))}
ClockOutputs == {Alone(Divider, Logic(TRUE))}
CellOrders   == {Design(Chain, Delta, Logic(TRUE), Logic(TRUE))}
=============================================================================
