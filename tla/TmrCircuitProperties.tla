------------------------ MODULE TmrCircuitProperties ------------------------
(***************************************************************************)
(* What the expanded circuit promises.                                     *)
(***************************************************************************)
EXTENDS TmrCircuit

Running == phase = "run"

Bits(S) == [S -> BOOLEAN]

TypeOK ==
    /\ choice \in Designs
    /\ phase \in {"process", "connect", "run", "aborted"}
    /\ todo \subseteq DOMAIN choice.mods
    /\ phase = "connect" => work.cells \subseteq DOMAIN work.orig.cells
    /\ regs \in Bits({c.id : c \in flat.ffs})
    /\ in \in Stimuli
    /\ float \in BOOLEAN
    /\ fault # NoFault => \E c \in flat.ffs \cup Gates(flat) : c.id = fault

(* The error sink of a FullModuleTMR wrapper: nothing drives the port that *)
(* connectErrorSignal replaces and still reads.                            *)
FullSinks ==
    {n \in DOMAIN choice.mods :
       Cfg(n).mode = "Full" /\ \E w \in choice.mods[n].out : IsErrorOut(choice.mods[n], w, Cfg(n))}

ReplacedSink(g, p) == g.type = <<"or">> /\ Last(p) = "_old" /\ g.in[p] \in flat.floating

(* Every net of the running circuit that is read has exactly one driver,   *)
(* and no gate reads its own output: duplicated cells never drive a wire   *)
(* that is kept shared, and no copy of a wire is left behind unconnected.  *)
(* The only net without a driver is the replaced error sink of a wrapper,  *)
(* one for each instance of a wrapper with a sink, read by its OR alone.   *)
DrivenOnce ==
    Running =>
        /\ flat.shorted = {}
        /\ flat.looped = {}
        /\ \A x \in flat.floating :
             \A c \in flat.ffs \cup Gates(flat) : \A p \in DOMAIN c.in :
                 c.in[p] = x => FullSinks # {} /\ ReplacedSink(c, p)
        /\ FullSinks = {} => flat.floating = {}

(* Safe mode: voter inputs that are not driven end the pass.  A design in  *)
(* which everything is connected is always expanded to the end.            *)
NeverAborts == phase # "aborted"

-----------------------------------------------------------------------------
(* The circuit as an observer sees it: the registers by the majority of    *)
(* their copies, an expanded output by the majority of its three ports.    *)
ObservedOutput(o) ==
    IF o \in DOMAIN flat.outputs THEN val[flat.outputs[o]]
    ELSE LET Port(i) == val[flat.outputs[Append(o, PathSuffix[i])]]
         IN  MajorityOf(Port(1), Port(2), Port(3))

ObservedRegs == IF Running THEN [r \in {c.id : c \in golden.ffs} |-> Consensus(r)] ELSE regs

Original == INSTANCE Circuit WITH net <- golden, regs <- ObservedRegs, in <- in,
    out <- IF Running THEN [o \in DOMAIN golden.outputs |-> ObservedOutput(o)]
           ELSE Outputs(golden, val)

(* Whatever cell of one path puts out a wrong value, and whenever: the     *)
(* expanded circuit behaves like the circuit the user wrote.               *)
BehavesAsOriginal == Original!CircuitSpec

(* The voters after the flip-flops bring a register that was hit back to   *)
(* the others: a tick without a fault leaves no copy of a register behind, *)
(* when every triplicated register is followed by voters, and clocked.     *)
EveryRegisterVoted ==
    \A n \in DOMAIN choice.mods :
        Cfg(n).mode = "None" \/ (Cfg(n).mode = "Logic" /\ Cfg(n).ffVoter)

EveryRegisterClocked == \A c \in flat.ffs : val[c.in[<<"C">>]]

Recovers ==
    Running /\ fault = NoFault /\ fault' = NoFault /\ EveryRegisterVoted /\ EveryRegisterClocked
        => Deviant' = {}

RegistersRecover == [][Recovers]_vars

-----------------------------------------------------------------------------
Voters == {g \in Gates(flat) : g.type = <<"voter">>}

(* The clock (reset) of module n is still known when the voters come: it   *)
(* is not expanded, or an attribute tells it whatever its copies are named.*)
KnownControl(n, p) ==
    LET m == choice.mods[n]
        Kept(expand, attr) == ~expand \/ (attr # {} /\ Cfg(n).controls[p] = NoWire)
    IN  \/ Cfg(n).preserve
        \/ p = VoterClock /\ Kept(Cfg(n).expandClock, m.clk)
        \/ p = VoterReset /\ Kept(Cfg(n).expandReset, m.rst)

ControlInput == (VoterClock :> <<"clk_i">>) @@ (VoterReset :> <<"rst_ni">>)

KnownControls ==
    {p \in DOMAIN ControlInput :
       \A n \in DOMAIN choice.mods : p \in DOMAIN Cfg(n).controls /\ KnownControl(n, p)}

(* Custom voters get the clock and the reset of the design: while no cell  *)
(* fails, these ports are connected and have the values of the inputs      *)
(* clk_i and rst_ni, where every module asks for them and still knows them.*)
VotersControlled ==
    Running /\ fault = NoFault =>
        \A p \in KnownControls, v \in Voters :
            p \in DOMAIN v.in /\ val[v.in[p]] = in[ControlInput[p]]

DisagreeingVoter ==
    \E g \in Voters : Disagree(val[g.in[<<"a">>]], val[g.in[<<"b">>]], val[g.in[<<"c">>]])

(* The error output of the top module, where it has one.                   *)
ErrorOutputs ==
    {o \in DOMAIN flat.outputs :
       o = AutoErrorPort \/ IsErrorOut(design[choice.top], o, Cfg(choice.top))}

(* The error output of the top module says exactly whether some voter of   *)
(* the hierarchy sees its inputs disagree: "a single top-level error port  *)
(* can capture voter disagreements from the entire design hierarchy"       *)
(* (error-detection.adoc, 90).                                             *)
ErrorsReachTop ==
    Running /\ DisagreeingVoter => \A o \in ErrorOutputs : val[flat.outputs[o]]

(* ... and it is low while all voters agree, provided that an undriven     *)
(* sink reads as 0.                                                        *)
ErrorOnlyOnDisagreement ==
    Running /\ ~float /\ (\E o \in ErrorOutputs : val[flat.outputs[o]]) => DisagreeingVoter
=============================================================================
