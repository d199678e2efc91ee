---------------------------- MODULE FullModuleTmr ----------------------------
(***************************************************************************)
(* tmrx_mod_expansion.cc, lines 77 to 230: the wrapper of FullModuleTMR.   *)
(* Its three instances are of the module that has become the template;     *)
(* what happens to the worker hierarchies afterwards is in TmrxPass.       *)
(***************************************************************************)
EXTENDS TmrxUtils

Worker(i) == <<"$worker", PathSuffix[i]>>

(* The clock and reset ports that are not expanded, and the error sinks.   *)
SharedSpecial(m, w, cfg) ==
    \/ IsClkWire(m, w, cfg) /\ ~cfg.expandClock
    \/ IsRstWire(m, w, cfg) /\ ~cfg.expandReset

IgnoreWire(m, w, cfg) == SharedSpecial(m, w, cfg) \/ IsErrorOut(m, w, cfg)

(* The port of the wrapper that a port of the module has on path i.        *)
WrapperPort(m, w, i, cfg) ==
    IF cfg.preserve \/ IgnoreWire(m, w, cfg) THEN w ELSE Append(w, PathSuffix[i])

(* The wire of the wrapper that instance i is connected by.                *)
Contact(w, i) == Append(<<"$con">> \o w, PathSuffix[i])

Wrapper(m, cfg) ==
    LET Copies(S) == {WrapperPort(m, w, i, cfg) : w \in S, i \in 1..3}
        ports == m.inp \cup m.out
    IN  [wires |-> Copies(ports) \cup {Contact(w, i) : w \in ports, i \in 1..3},
         inp |-> Copies(m.inp), out |-> Copies(m.out),
         clk |-> Copies(m.clk \cap ports), rst |-> Copies(m.rst \cap ports),
         sink |-> Copies(m.sink \cap ports),
         cells |-> [x \in {}|-> x], conns |-> {}]

(* Voters on clock and reset nets need an option of their own.             *)
MayVote(m, w, cfg) ==
    /\ ~SharedSpecial(m, w, cfg)
    /\ IsClkWire(m, w, cfg) => cfg.voteClock
    /\ IsRstWire(m, w, cfg) => cfg.voteReset

(* The outputs that three instances have to share: those of a preserved    *)
(* interface, and the clocks and resets that are not expanded.             *)
MergedOutput(m, w, cfg) ==
    /\ ~IsErrorOut(m, w, cfg)
    /\ ~(~cfg.preserve /\ IsClkWire(m, w, cfg) /\ cfg.expandClock)
    /\ ~(~cfg.preserve /\ IsRstWire(m, w, cfg) /\ cfg.expandReset)
    /\ cfg.preserve \/ IsClkWire(m, w, cfg) \/ IsRstWire(m, w, cfg)

(* Voters of a port, one per path; the result says which wires they drive. *)
Sites(kind, w) == [i \in 1..3 |-> Append(<<kind>> \o w, PathSuffix[i])]

VoteEach(d, st, ins, cfg, sites) ==
    LET Vote(s, i) ==
            LET v == InsertVoter(d, s.mod, ins, cfg, sites[i])
            IN  IF s.ok /\ v.ok
                THEN [s EXCEPT !.mod = v.mod, !.errs = @ \cup {VoterError(sites[i])}]
                ELSE [s EXCEPT !.ok = FALSE]
    IN  FoldLeft(Vote, st, <<1, 2, 3>>)

Outcome(sites) == [i \in 1..3 |-> Voted(sites[i])]

-----------------------------------------------------------------------------
(* The three instances of the template.  `inner' and `outer' are the wires *)
(* on both sides of the connection that is made in the end, per port.      *)
Instantiated(m, template, cfg) ==
    LET ports == m.inp \cup m.out
    IN  [ok |-> TRUE,
         mod |-> [Wrapper(m, cfg) EXCEPT !.cells =
                     [k \in {Worker(i) : i \in 1..3} |->
                        [type |-> template,
                         conn |-> [w \in ports |-> Append(<<"$con">> \o w, Last(k))]]]],
         errs |-> {Contact(w, i) : w \in {x \in ports : IsErrorOut(m, x, cfg)}, i \in 1..3},
         outer |-> Table([w \in ports |-> [i \in 1..3 |-> WrapperPort(m, w, i, cfg)]]),
         inner |-> Table([w \in ports |-> [i \in 1..3 |-> Contact(w, i)]])]

VoteInput(d, st, w, cfg) ==
    LET sites == Sites("$before", w)
    IN  [VoteEach(d, st, st.outer[w], cfg, sites) EXCEPT !.outer[w] = Outcome(sites)]

VoteOutput(d, st, w, cfg) ==
    LET sites == Sites("$after", w)
    IN  [VoteEach(d, st, st.inner[w], cfg, sites) EXCEPT !.inner[w] = Outcome(sites)]

MergeOutput(d, st, w, cfg) ==
    LET site == <<"$port">> \o w
        v    == InsertVoter(d, st.mod, st.inner[w], cfg, site)
    IN  IF st.ok /\ v.ok
        THEN [st EXCEPT !.mod = v.mod, !.errs = @ \cup {VoterError(site)},
                        !.inner[w] = [i \in 1..3 |-> Voted(site)]]
        ELSE [st EXCEPT !.ok = FALSE]

(* The stages of fullModuleTmrExpansion for module m.                      *)
VoteInputs(d, st, m, cfg) ==
    LET ports == {w \in m.inp : cfg.before /\ ~cfg.preserve /\ MayVote(m, w, cfg)}
    IN  FoldSet(LAMBDA w, s : VoteInput(d, s, w, cfg), st, ports)

VoteOutputs(d, st, m, cfg) ==
    LET ports == {w \in m.out : cfg.after /\ ~cfg.preserve /\ ~IsErrorOut(m, w, cfg) /\
                                MayVote(m, w, cfg)}
    IN  FoldSet(LAMBDA w, s : VoteOutput(d, s, w, cfg), st, ports)

MergeOutputs(d, st, m, cfg) ==
    FoldSet(LAMBDA w, s : MergeOutput(d, s, w, cfg), st, {w \in m.out : MergedOutput(m, w, cfg)})

LinkPorts(st, m, cfg) ==
    [st EXCEPT !.mod = Connect(@, {<<st.outer[w][i], st.inner[w][i]>> :
        w \in {x \in m.inp \cup m.out : ~IsErrorOut(m, x, cfg)}, i \in 1..3})]

(* The wrapper of module m, whose instances are of type `template'; d      *)
(* holds the template.                                                     *)
FullModuleTmrExpansion(d, m, template, cfg) ==
    LET inputs  == VoteInputs(d, Instantiated(m, template, cfg), m, cfg)
        outputs == VoteOutputs(d, inputs, m, cfg)
    IN  SinkErrors(LinkPorts(MergeOutputs(d, outputs, m, cfg), m, cfg), cfg)
=============================================================================
