-------------------------- MODULE TmrCircuitMasking --------------------------
(***************************************************************************)
(* Why the expanded circuit masks a failing path and reports it, as checks *)
(* of its netlist alone.  For masking, both circuits are evaluated         *)
(* symbolically, the expanded one with nothing known of the cells that may *)
(* fail; for the error output, each net by the voters that raise it.  The  *)
(* clocks of custom voters are traced to the inputs in the same way.       *)
(***************************************************************************)
EXTENDS TmrCircuitProperties

Unknown == <<"unknown">>

Majority(s, t, u) == IF s = t \/ s = u THEN s ELSE IF t = u THEN t ELSE Unknown

(* The symbol of output p of a gate whose inputs have the symbols s: what  *)
(* two inputs of a voter agree on passes through it.                       *)
Symbol(type, p, s) ==
    IF type = <<"voter">> /\ p = <<"y">> THEN Majority(s[<<"a">>], s[<<"b">>], s[<<"c">>])
    ELSE IF \E q \in DOMAIN s : s[q] = Unknown THEN Unknown
    ELSE <<"gate", type, p, s>>

(* A register has the symbol of the register it is a copy of.              *)
Symbols(circ, broken) ==
    LET source == [x \in circ.nets |->
            IF x \in DOMAIN circ.registers
            THEN IF circ.registers[x] \in broken THEN Unknown
                 ELSE <<"register", Origin(circ.registers[x])>>
            ELSE IF x \in DOMAIN circ.inputs THEN <<"input", <<circ.inputs[x][1]>>>>
            ELSE IF x \in circ.zeros THEN <<"zero">>
            ELSE Unknown]
        Put(g, p, sym) ==
            IF g.id \in broken THEN Unknown
            ELSE Symbol(g.type, p, Table([q \in DOMAIN g.in |-> sym[g.in[q]]]))
    IN  Evaluated(circ, source, Put)

Cells(circ)     == circ.ffs \cup Gates(circ)
Ids(cells)      == {c.id : c \in cells}
OfPath(ids, p)  == {k \in ids : PathOf(k) = p}
Copies(circ, r) == {k \in Ids(circ.ffs) : Origin(k) = r}

(* Cells read nets of the circuit and belong to one path or none; `names'  *)
(* are the inputs with a value.                                            *)
WellFormed(circ, names) ==
    /\ circ.levels \in Seq(SUBSET Gates(circ))
    /\ \A c \in Cells(circ) :
         /\ c.id # NoFault /\ PathOf(c.id) \in PathSuffixes \cup {""}
         /\ \A q \in DOMAIN c.in : c.in[q] \in circ.nets
         /\ c.type = <<"voter">> => {<<"a">>, <<"b">>, <<"c">>} \subseteq DOMAIN c.in
    /\ \A c \in circ.ffs : <<"C">> \in DOMAIN c.in /\ c.out[<<"Q">>] \in circ.nets
    /\ \A x \in DOMAIN circ.registers : circ.registers[x] \in Ids(circ.ffs)
    /\ \A x \in DOMAIN circ.inputs : <<circ.inputs[x][1]>> \in names
    /\ \A o \in DOMAIN circ.outputs : circ.outputs[o] \in circ.nets

Comparable(circ, orig, names) ==
    /\ WellFormed(circ, names)
    /\ WellFormed(orig, names)
    /\ IsFiniteSet(circ.ffs)
    /\ \A c \in orig.ffs : Origin(c.id) = c.id /\ Copies(circ, c.id) # {}
    /\ \A c \in circ.ffs : Origin(c.id) \in Ids(orig.ffs)

(* A register of the expanded circuit reads (holds) what the register o of *)
(* the original reads (holds).                                             *)
SameInput(sym, c, given, o) ==
    /\ DOMAIN c.in = DOMAIN o.in
    /\ \A q \in DOMAIN c.in : sym[c.in[q]] = given[o.in[q]] /\ given[o.in[q]] # Unknown

SameHeld(sym, c, given, o) ==
    sym[c.out[<<"Q">>]] = given[o.out[<<"Q">>]] /\ given[o.out[<<"Q">>]] # Unknown

(* An output of the original is an output, or the majority of three.       *)
SameOutput(circ, sym, orig, given, o) ==
    /\ given[orig.outputs[o]] # Unknown
    /\ IF o \in DOMAIN circ.outputs THEN sym[circ.outputs[o]] = given[orig.outputs[o]]
       ELSE LET port == [i \in 1..3 |-> Append(o, PathSuffix[i])]
            IN  /\ \A i \in 1..3 : port[i] \in DOMAIN circ.outputs
                /\ Majority(sym[circ.outputs[port[1]]], sym[circ.outputs[port[2]]],
                            sym[circ.outputs[port[3]]]) = given[orig.outputs[o]]

(* Whatever the cells of path p put out, the other copies of a register -- *)
(* the most of them -- and the outputs are determined as in the original.  *)
MasksPath(circ, orig, p) ==
    LET given == Symbols(orig, {})
        sym   == Symbols(circ, OfPath(Ids(Cells(circ)), p))
    IN  /\ \A c \in circ.ffs, o \in orig.ffs :
             PathOf(c.id) # p /\ o.id = Origin(c.id) =>
                 SameInput(sym, c, given, o) /\ SameHeld(sym, c, given, o)
        /\ \A r \in Ids(orig.ffs) :
             2 * Cardinality(OfPath(Copies(circ, r), p)) < Cardinality(Copies(circ, r))
        /\ \A o \in DOMAIN orig.outputs : SameOutput(circ, sym, orig, given, o)

(* Whatever the registers of path p hold, all registers are loaded as in   *)
(* the original.                                                           *)
RestoresPath(circ, orig, p) ==
    LET given == Symbols(orig, {})
        sym   == Symbols(circ, OfPath(Ids(circ.ffs), p))
    IN  \A c \in circ.ffs, o \in orig.ffs : o.id = Origin(c.id) => SameInput(sym, c, given, o)

(* The netlist is checked when the circuit is powered on; it stays as it is *)
PoweredOn == Running /\ fault = NoFault /\ regs = ResetState(flat)

(* No single path matters: the netlist has a majority for everything that  *)
(* a path can get wrong (voters by insertVoterAfterFf, connectSubmodule-   *)
(* Ports and insertOutputVoters, and three instances of a wrapper).        *)
MasksEachPath ==
    PoweredOn => /\ Comparable(flat, golden, DOMAIN in)
                 /\ \A p \in PathSuffixes : MasksPath(flat, golden, p)

(* With voters after all flip-flops (insertVoterAfterFf), every copy of a  *)
(* register is loaded with a voted value.                                  *)
RestoresEachPath ==
    PoweredOn /\ EveryRegisterVoted => \A p \in PathSuffixes : RestoresPath(flat, golden, p)

-----------------------------------------------------------------------------
(* What may raise a net: voters, by the nets they compare, a net that      *)
(* nobody drives, or anything.  Gates on a path may fail, so only the ORs  *)
(* of connectErrorSignal, which are on none, pass on what they read.       *)
Undriven    == <<"undriven">>
Compared(v) == <<v.in[<<"a">>], v.in[<<"b">>], v.in[<<"c">>]>>

Causes(circ) ==
    LET source == [x \in circ.nets |->
            IF x \in DOMAIN circ.registers \cup DOMAIN circ.inputs THEN {Unknown}
            ELSE IF x \in circ.zeros THEN {} ELSE {Undriven}]
        Put(g, p, causes) ==
            IF g.type = <<"voter">> /\ p = <<"err">> THEN {Compared(g)}
            ELSE IF g.type = <<"or">> /\ PathOf(g.id) = ""
            THEN UNION {causes[g.in[q]] : q \in DOMAIN g.in}
            ELSE {Unknown}
    IN  Evaluated(circ, source, Put)

(* What a gate reads is not put out on its level or a later one.           *)
Written(level) == UNION {{g.out[p] : p \in DOMAIN g.out} : g \in level}

Settled(circ) ==
    \A k \in DOMAIN circ.levels : \A g \in circ.levels[k] :
        \A q \in DOMAIN g.in, j \in k..Len(circ.levels) : g.in[q] \notin Written(circ.levels[j])

(* The error output collects the error signals of exactly the voters       *)
(* there are (logicTmrExpansion and fullModuleTmrExpansion hand each of    *)
(* theirs, and the open error ports of submodules, to connectErrorSignal). *)
CollectsErrors(circ, port) ==
    Causes(circ)[circ.outputs[port]] \ {Undriven}
        = {Compared(v) : v \in {g \in Gates(circ) : g.type = <<"voter">>}}

ErrorsCollected ==
    PoweredOn => /\ WellFormed(flat, DOMAIN in)
                 /\ Settled(flat)
                 /\ \A o \in ErrorOutputs : CollectsErrors(flat, o)

(* Whatever the registers hold, the control ports of custom voters are fed *)
(* from the clock and reset inputs, where every module still knows them    *)
(* (insertVoter; clocks of submodules come through connectSubmodulePorts). *)
VotersWired ==
    PoweredOn =>
        LET sym == Symbols(flat, Ids(flat.ffs))
        IN  /\ WellFormed(flat, DOMAIN in)
            /\ \A p \in KnownControls, v \in Voters :
                 p \in DOMAIN v.in /\ sym[v.in[p]] = <<"input", ControlInput[p]>>
=============================================================================
