------------------------------- MODULE LogicTmr -------------------------------
(***************************************************************************)
(* tmrx_logic_expansion.cc: LogicTMR of one module.  `orig' is the module  *)
(* before the expansion (originalWires, originalCells, ...), `m' the       *)
(* module as it is being changed.  All modules of a design are marked and  *)
(* none is a blackbox, so the cells that count as logic are the primitives *)
(***************************************************************************)
EXTENDS TmrxUtils

IsLogicTreeCell(d, m, c) == m.cells[c].type \notin DOMAIN d

(* Mutant: a preserved interface keeps its outputs shared, too.            *)
KeepWholeInterface(m, w, cfg) ==
    \/ w \notin m.wires \/ IsErrorOut(m, w, cfg)
    \/ cfg.preserve /\ w \in m.inp \cup m.out
    \/ IsClkWire(m, w, cfg) /\ ~cfg.expandClock
    \/ IsRstWire(m, w, cfg) /\ ~cfg.expandReset

ShouldKeepWireShared(m, w, cfg) ==
    \/ w \notin m.wires                             \* a constant
    \/ IsErrorOut(m, w, cfg)
    \/ cfg.preserve /\ w \in m.inp
    \/ IsClkWire(m, w, cfg) /\ ~cfg.expandClock
    \/ IsRstWire(m, w, cfg) /\ ~cfg.expandReset

(* Where a wire of the original module goes on the path of a suffix.       *)
OnPath(orig, w, cfg, suffix) ==
    IF ShouldKeepWireShared(orig, w, cfg) THEN w ELSE Append(w, suffix)

-----------------------------------------------------------------------------
(* insertDuplicateLogic.                                                   *)
InsertDuplicateLogic(d, m, orig, suffix, cfg) ==
    LET To(w)   == OnPath(orig, w, cfg, suffix)
        Copy(S) == {To(w) : w \in S}
        logic   == {c \in DOMAIN orig.cells : IsLogicTreeCell(d, orig, c)}
        copies  == [k \in {Append(c, suffix) : c \in logic} |->
                      LET cell == orig.cells[Front(k)]
                      IN  [type |-> cell.type,
                           conn |-> Table([p \in DOMAIN cell.conn |-> To(cell.conn[p])])]]
    IN  [m EXCEPT !.wires = @ \cup Copy(orig.wires),
                  !.inp = @ \cup Copy(orig.inp), !.out = @ \cup Copy(orig.out),
                  !.clk = @ \cup Copy(orig.clk), !.rst = @ \cup Copy(orig.rst),
                  !.cells = copies @@ @,
                  !.conns = @ \cup {<<To(j[1]), To(j[2])>> : j \in orig.conns}]

-----------------------------------------------------------------------------
(* connectSubmodulePorts.                                                  *)

Exposed(m, w) == w \in m.inp \cup m.out

(* resolveChildPortNames: the ports of the effective module that stand for *)
(* a port of the original one; mixed or missing ports end the pass.        *)
SharedPort(eff, p) == Exposed(eff, p)
MixedPort(eff, p) ==
    LET exposed == {i \in 1..3 : Exposed(eff, Append(p, PathSuffix[i]))}
    IN  IF SharedPort(eff, p) THEN exposed # {} ELSE exposed # 1..3

(* deriveParentSignals: path A still has the original name at this point.  *)
(* Mutant: path C is wired to path B.                                      *)
ParentSignalsOffByOne(orig, w, cfg) ==
    <<w, OnPath(orig, w, cfg, PathSuffix[2]), OnPath(orig, w, cfg, PathSuffix[2])>>

ParentSignals(orig, w, cfg) ==
    <<w, OnPath(orig, w, cfg, PathSuffix[2]), OnPath(orig, w, cfg, PathSuffix[3])>>

ParentShared(s) == s[1] = s[2] /\ s[1] = s[3]

SetPorts(m, c, p, s) ==
    [m EXCEPT !.cells[c].conn =
        (Append(p, PathSuffix[1]) :> s[1]) @@ (Append(p, PathSuffix[2]) :> s[2]) @@
        (Append(p, PathSuffix[3]) :> s[3]) @@ @]

(* The result of connecting one more port: the module, the error signals   *)
(* so far, and whether the pass is still running.                          *)
State(m, errs) == [ok |-> TRUE, mod |-> m, errs |-> errs]
Failed(st)     == [st EXCEPT !.ok = FALSE]

(* Mutant: no error signal is collected.                                   *)
CollectNothing(st, m, site) == State(m, st.errs)

Collect(st, m, site) == State(m, st.errs \cup {VoterError(site)})

(* An input of the child: a port that is not triplicated gets the vote of  *)
(* three parent signals, a triplicated one gets one signal per path.       *)
ConnectInput(d, st, c, p, eff, s, cfg) ==
    LET site == c \o p
        v    == InsertVoter(d, st.mod, s, cfg, site)
    IN  CASE SharedPort(eff, p) /\ ParentShared(s) ->
               [st EXCEPT !.mod = SetPort(@, c, p, s[1])]
          [] SharedPort(eff, p) /\ ~ParentShared(s) ->
               IF v.ok THEN Collect(st, SetPort(v.mod, c, p, Voted(site)), site)
               ELSE Failed(st)
          [] ~SharedPort(eff, p) -> [st EXCEPT !.mod = SetPorts(@, c, p, s)]

(* An output of the child: a port that is not triplicated drives all paths *)
(* of the parent; three ports are voted if the parent has a single signal. *)
ConnectOutput(d, st, c, p, eff, s, cfg) ==
    LET site  == c \o p
        one   == <<"$out">> \o site
        three == [i \in 1..3 |-> Append(one, PathSuffix[i])]
        v     == InsertVoter(d, SetPorts(AddWires(st.mod, ToSet(three)), c, p, three),
                             three, cfg, site)
    IN  CASE SharedPort(eff, p) ->
               [st EXCEPT !.mod = Connect(SetPort(AddWires(@, {one}), c, p, one),
                                          {<<s[i], one>> : i \in 1..3})]
          [] ~SharedPort(eff, p) /\ ~ParentShared(s) ->
               [st EXCEPT !.mod = SetPorts(@, c, p, s)]
          [] ~SharedPort(eff, p) /\ ParentShared(s) ->
               IF v.ok THEN Collect(st, Connect(v.mod, {<<s[1], Voted(site)>>}), site)
               ELSE Failed(st)

(* The whole of connectSubmodulePorts for cell c of type `logical', which  *)
(* now instantiates the module `impl'.  Error ports of the child that the  *)
(* parent left open are collected.                                         *)
ConnectSubmodulePorts(d, st0, orig, c, logical, impl, childCfg, cfg) ==
    LET eff  == d[impl]
        conn == orig.cells[c].conn
        open == {p \in eff.inp \cup eff.out : p \notin DOMAIN conn /\ IsErrorOut(eff, p, childCfg)}
        childErr == [p \in open |-> <<"$child">> \o c \o p]
        opened == [AddWires(st0.mod, {childErr[p] : p \in open}) EXCEPT
                     !.cells[c] = [type |-> impl, conn |-> childErr]]
        Port(p, st) ==
            LET s == ParentSignals(orig, conn[p], cfg)
            IN  CASE ~st.ok \/ MixedPort(eff, p) \/ p \in d[logical].inp \cap d[logical].out ->
                       Failed(st)
                  [] OTHER ->
                       IF p \in d[logical].inp THEN ConnectInput(d, st, c, p, eff, s, cfg)
                       ELSE ConnectOutput(d, st, c, p, eff, s, cfg)
    IN  FoldSet(Port, State(opened, st0.errs \cup {childErr[p] : p \in open}), DOMAIN conn)

-----------------------------------------------------------------------------
(* renameWiresAndCells: the original wires and cells become path A.        *)
RenamePathA(d, m, orig, cfg) ==
    LET New(w) == IF w \in orig.wires THEN OnPath(orig, w, cfg, PathSuffix[1]) ELSE w
        renamed == RenameWires(m, New)
        logic == {c \in DOMAIN orig.cells : IsLogicTreeCell(d, orig, c)}
    IN  [renamed EXCEPT !.cells = Table(
            [c \in (DOMAIN @ \ logic) \cup {Append(k, PathSuffix[1]) : k \in logic} |->
               IF Len(c) > 1 /\ Front(c) \in logic /\ Last(c) = PathSuffix[1]
               THEN @[Front(c)] ELSE @[c]])]

(* insertVoterAfterFf: each copy of a flip-flop puts out an intermediate   *)
(* wire; a voter per path drives the wire the copy had before.             *)
FfCopies(ff) == [i \in 1..3 |-> Append(ff, PathSuffix[i])]

(* Mutant: the voter of a path reads the copy of that path only.           *)
VoterReadsPath(raw, i) == <<raw[i], raw[i], raw[i]>>

VoterReads(raw, i) == raw

InsertVoterAfterFf(d, st, ff, cfg) ==
    LET copy  == FfCopies(ff)
        raw   == [i \in 1..3 |-> <<"$ff">> \o copy[i]]
        was   == [i \in 1..3 |-> st.mod.cells[copy[i]].conn[<<"Q">>]]
        moved == FoldLeft(LAMBDA m, i : SetPort(m, copy[i], <<"Q">>, raw[i]),
                          AddWires(st.mod, ToSet(raw)), <<1, 2, 3>>)
        Vote(s, i) ==
            LET v == InsertVoter(d, s.mod, VoterReads(raw, i), cfg, copy[i])
            IN  IF s.ok /\ v.ok
                THEN Collect(s, Connect(v.mod, {<<was[i], Voted(copy[i])>>}), copy[i])
                ELSE Failed(s)
    IN  FoldLeft(Vote, [st EXCEPT !.mod = moved], <<1, 2, 3>>)

-----------------------------------------------------------------------------
(* The configurations: those of the user's modules, and the global one for *)
(* every module the passes create (ConfigManager::getConfig).              *)
ConfigOf(cfgs, n) == IF n \in DOMAIN cfgs.of THEN cfgs.of[n] ELSE cfgs.global

(* buildClkNet and buildRstNet: the clock (reset) ports of module m named  *)
(* n and the wires that are connected to those of its submodules.          *)
SpecialNet(d, m, n, cfgs, Is(_, _, _)) ==
    {w \in m.inp \cup m.out : Is(m, w, ConfigOf(cfgs, n))} \cup
    UNION {LET cell  == m.cells[c]
               child == d[cell.type]
           IN  {cell.conn[p] : p \in {q \in DOMAIN cell.conn \cap child.wires :
                                        Is(child, q, ConfigOf(cfgs, cell.type))}}
             : c \in {k \in DOMAIN m.cells : m.cells[k].type \in DOMAIN d}}

ClkNet(d, m, n, cfgs) == SpecialNet(d, m, n, cfgs, IsClkWire)
RstNet(d, m, n, cfgs) == SpecialNet(d, m, n, cfgs, IsRstWire)

(* insertOutputVoters, for one entry of outputMap: the three copies of an  *)
(* output port are voted into a port of the original name.                 *)
KeepsThreeOutputs(w, clkNet, rstNet, cfg) ==
    /\ ~cfg.preserve
    /\ \/ w \in clkNet /\ cfg.expandClock
       \/ w \in rstNet /\ cfg.expandReset
       \/ w \notin clkNet \cup rstNet

InsertOutputVoter(d, st, w, cfg, clkNet, rstNet) ==
    LET copy == [i \in 1..3 |-> Append(w, PathSuffix[i])]
        site == <<"$port">> \o w
        v    == InsertVoter(d, [st.mod EXCEPT !.out = @ \ ToSet(copy)], copy, cfg, site)
    IN  IF KeepsThreeOutputs(copy[1], clkNet, rstNet, cfg) THEN st
        ELSE IF st.ok /\ v.ok
        THEN LET named == RenameWires(v.mod, LAMBDA x : IF x = Voted(site) THEN w ELSE x)
             IN  Collect(st, [named EXCEPT !.out = @ \cup {w}], site)
        ELSE Failed(st)

-----------------------------------------------------------------------------
(* logicTmrExpansion up to the submodules: paths B and C.                  *)
Duplicated(d, orig, cfg) ==
    InsertDuplicateLogic(d, InsertDuplicateLogic(d, orig, orig, PathSuffix[2], cfg),
                         orig, PathSuffix[3], cfg)

(* logicTmrExpansion after the submodules; n is the name of the target.    *)
InsertFfVoters(d, st, orig, cfg) ==
    LET ffs == {c \in DOMAIN orig.cells : orig.cells[c].type = <<"ff">>}
    IN  IF cfg.ffVoter THEN FoldSet(LAMBDA c, s : InsertVoterAfterFf(d, s, c, cfg), st, ffs)
        ELSE st

InsertOutputVoters(d, st, orig, n, cfg, cfgs) ==
    LET outputs == {w \in orig.out : ~ShouldKeepWireShared(orig, w, cfg)}
        clkNet  == ClkNet(d, st.mod, n, cfgs)
        rstNet  == RstNet(d, st.mod, n, cfgs)
    IN  IF cfg.preserve \/ ~cfg.expandClock \/ ~cfg.expandReset
        THEN FoldSet(LAMBDA w, s : InsertOutputVoter(d, s, w, cfg, clkNet, rstNet), st, outputs)
        ELSE st

Finished(d, st, orig, n, cfg, cfgs) ==
    LET renamed == [st EXCEPT !.mod = RenamePathA(d, @, orig, cfg)]
        voted   == InsertFfVoters(d, renamed, orig, cfg)
    IN  SinkErrors(InsertOutputVoters(d, voted, orig, n, cfg, cfgs), cfg)
=============================================================================
