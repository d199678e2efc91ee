------------------------------- MODULE Netlist -------------------------------
(***************************************************************************)
(* RTLIL netlists of 1-bit wires, as far as the passes rely on them, and   *)
(* the value semantics of the flattened circuit.  A connection of RTLIL    *)
(* makes two wires one net, whatever its direction.                        *)
(*                                                                         *)
(* Wires, cells, ports, cell types and modules are named by sequences of   *)
(* strings, e.g. <<"q">> and <<"q", "_b">>.  A design is a function from   *)
(* module names to modules                                                 *)
(*    [wires, inp, out: sets of wires; clk, rst, sink: wires with those    *)
(*     attributes; cells: cell name -> [type, conn: port -> wire];         *)
(*     conns: set of pairs of wires]                                       *)
(* and the ports of a module are named by their wires.                     *)
(***************************************************************************)
EXTENDS Naturals, Sequences, FiniteSets, FiniteSetsExt, SequencesExt

PathSuffix   == <<"_a", "_b", "_c">>
PathSuffixes == {PathSuffix[i] : i \in 1..3}

Zero == <<"0">>     \* the constant 0, present in every module

-----------------------------------------------------------------------------
(* Primitive cells.                                                        *)

MajorityOf(a, b, c) == ((a /\ b) \/ (a /\ c)) \/ (b /\ c)
Disagree(a, b, c)   == (a # b) \/ (b # c)

(* The first output of a primitive cell carries its data.                  *)
DataOutput(type) ==
    CASE type = <<"ff">> -> <<"Q">> [] type = <<"voter">> -> <<"y">> [] OTHER -> <<"Y">>

PrimitiveOutputs(type) ==
    {DataOutput(type)} \cup (IF type = <<"voter">> THEN {<<"err">>} ELSE {})

(* The value of output `o' of a gate whose input ports have the values v.  *)
GateValue(type, o, v) ==
    CASE type = <<"not">> -> ~v[<<"A">>]
      [] type = <<"and">> -> \A p \in DOMAIN v : v[p]
      [] type = <<"or">>  -> \E p \in DOMAIN v : v[p]
      [] type = <<"xor">> -> v[<<"A">>] # v[<<"B">>]
      [] type = <<"voter">> /\ o = <<"y">> ->
           MajorityOf(v[<<"a">>], v[<<"b">>], v[<<"c">>])
      [] type = <<"voter">> /\ o = <<"err">> ->
           Disagree(v[<<"a">>], v[<<"b">>], v[<<"c">>])

(* A flip-flop without reset port is never reset; the reset is active low. *)
NextState(old, v) ==
    \/ ~v[<<"C">>] /\ old
    \/ v[<<"C">>] /\ v[<<"D">>] /\ (<<"R">> \in DOMAIN v => v[<<"R">>])

-----------------------------------------------------------------------------
OutputPorts(d, type) == IF type \in DOMAIN d THEN d[type].out ELSE PrimitiveOutputs(type)

Submodules(d, n) == {c \in DOMAIN d[n].cells : d[n].cells[c].type \in DOMAIN d}

(* The same function, tabulated by TLC where it is defined.                *)
Table(f) == CHOOSE g \in {f} : g = g

(* The nets of a set of joined wires: each wire |-> a representative.  The *)
(* reach of a wire is doubled until it is its whole net.                   *)
Nets(wires, joins) ==
    LET links  == joins \cup {<<j[2], j[1]>> : j \in joins}
        near   == Table([w \in wires |-> {w} \cup {j[2] : j \in {k \in links : k[1] = w}}])
        Double(reach, k) == Table([w \in wires |-> UNION {reach[x] : x \in reach[w]}])
        rounds == CHOOSE k \in 0..Cardinality(wires) : 2^k >= Cardinality(wires)
        nets   == FoldLeft(Double, near, [k \in 1..rounds |-> k])
    IN  Table([w \in wires |-> CHOOSE x \in nets[w] : TRUE])

ModuleWires(m) == m.wires \cup {Zero}
ModuleNets(m)  == Nets(ModuleWires(m), m.conns)

(* The instances below a module: pairs of an instance path and a module.   *)
Instances(d, top) ==
    LET below[n \in DOMAIN d] ==
            {<<<<>>, n>>} \cup
            UNION {{<<<<c>> \o e[1], e[2]>> : e \in below[d[n].cells[c].type]}
                     : c \in Submodules(d, n)}
    IN  below[top]

(* The gates by levels: a gate reads what registers, inputs and the levels *)
(* before it put out.  Gates on a combinational loop are on no level.      *)
LogicDepth == 12

Levels(gates, known) ==
    LET Reads(g)  == {g.in[p] : p \in DOMAIN g.in}
        Writes(g) == {g.out[p] : p \in DOMAIN g.out}
        Add(st, k) ==
            LET ready == {g \in st.left : Reads(g) \subseteq st.known}
            IN  [levels |-> Append(st.levels, ready), left |-> st.left \ ready,
                 known |-> st.known \cup UNION {Writes(g) : g \in ready}]
        all == FoldLeft(Add, [levels |-> <<>>, left |-> gates, known |-> known],
                        [k \in 1..LogicDepth |-> k])
    IN  SelectSeq(all.levels, LAMBDA level : level # {})

(* The circuit below module `top': cells are [id, type, in, out] with nets *)
(* for the ports, `shorted' the nets with several drivers, `floating' the  *)
(* nets that are read and have none.                                       *)
Flatten(d, top) ==
    LET inst  == Instances(d, top)
        wires == UNION {{<<e[1], w>> : w \in ModuleWires(d[e[2]])} : e \in inst}
        JoinsOf(e) ==
            LET m == d[e[2]]
            IN  {<<<<e[1], j[1]>>, <<e[1], j[2]>>>> : j \in m.conns} \cup
                UNION {{<<<<e[1], m.cells[c].conn[p]>>, <<Append(e[1], c), p>>>>
                          : p \in DOMAIN m.cells[c].conn} : c \in Submodules(d, e[2])}
        net == Nets(wires, UNION {JoinsOf(e) : e \in inst})
        FlatCell(e, c) ==
            LET cell == d[e[2]].cells[c]
                outs == PrimitiveOutputs(cell.type)
                Ports(P) == Table([p \in P |-> net[<<e[1], cell.conn[p]>>]])
            IN  [id |-> <<e[1], c>>, type |-> cell.type,
                 in |-> Ports(DOMAIN cell.conn \ outs), out |-> Ports(DOMAIN cell.conn \cap outs)]
        cells == UNION {{FlatCell(e, c) : c \in DOMAIN d[e[2]].cells \ Submodules(d, e[2])}
                          : e \in inst}
        gates == {c \in cells : c.type # <<"ff">>}
        Written(S) == UNION {{c.out[p] : p \in DOMAIN c.out} : c \in S}
        Read    == UNION {{c.in[p] : p \in DOMAIN c.in} : c \in cells}
        inputs  == [x \in {net[<<<<>>, w>>] : w \in d[top].inp} |->
                      CHOOSE w \in d[top].inp : net[<<<<>>, w>>] = x]
        outputs == [w \in d[top].out |-> net[<<<<>>, w>>]]
        zeros   == {net[<<e[1], Zero>>] : e \in inst}
        nets    == Written(cells) \cup Read \cup DOMAIN inputs \cup
                   {outputs[w] : w \in DOMAIN outputs}
        drivers == UNION {{<<c.out[p], c.id, p>> : p \in DOMAIN c.out} : c \in cells} \cup
                   {<<net[<<<<>>, w>>], <<<<>>, w>>, <<"port">>>> : w \in d[top].inp} \cup
                   {<<x, <<<<>>, Zero>>, <<"const">>>> : x \in zeros}
        driven  == {r[1] : r \in drivers}
        levels  == Levels(gates, nets \ Written(gates))
    IN  [ffs |-> cells \ gates, levels |-> levels, looped |-> gates \ UNION ToSet(levels),
         nets |-> nets, inputs |-> inputs, outputs |-> outputs, zeros |-> zeros,
         registers |-> [x \in Written(cells \ gates) |->
                          (CHOOSE c \in cells \ gates : x = c.out[<<"Q">>]).id],
         shorted  |-> {r[1] : r \in {r \in drivers : \E k \in drivers : k[1] = r[1] /\ k # r}},
         floating |-> nets \ driven]

Gates(flat) == UNION ToSet(flat.levels)

-----------------------------------------------------------------------------
(* One value per net: `source' for the nets no gate drives, and level by   *)
(* level what Put makes of output p of gate g and the values before it.    *)
Evaluated(flat, source, Put(_, _, _)) ==
    LET Step(val, level) ==
            LET written == UNION {{g.out[p] : p \in DOMAIN g.out} : g \in level}
            IN  Table([x \in written \cup DOMAIN val |->
                    IF x \notin written THEN val[x]
                    ELSE LET g == CHOOSE k \in level : \E p \in DOMAIN k.out : k.out[p] = x
                         IN  Put(g, CHOOSE p \in DOMAIN g.out : g.out[p] = x, val)])
        after[k \in 0..Len(flat.levels)] ==
            IF k = 0 THEN Table(source) ELSE Step(after[k - 1], flat.levels[k])
    IN  after[Len(flat.levels)]

(* The value of every net while the registers hold `regs' and the inputs   *)
(* `in', the cell `fault' (or none) puts out the wrong value, and nets     *)
(* nobody drives have the value `float'.                                   *)
Values(flat, regs, in, fault, float) ==
    LET source == [x \in flat.nets |->
            IF x \in DOMAIN flat.registers
            THEN regs[flat.registers[x]] # (flat.registers[x] = fault)
            ELSE IF x \in DOMAIN flat.inputs THEN in[<<flat.inputs[x][1]>>]
            ELSE IF x \in flat.zeros THEN FALSE
            ELSE float]
        Put(g, p, val) ==
            GateValue(g.type, p, [q \in DOMAIN g.in |-> val[g.in[q]]])
                # (g.id = fault /\ p = DataOutput(g.type))
    IN  Evaluated(flat, source, Put)

Outputs(flat, val) == [w \in DOMAIN flat.outputs |-> val[flat.outputs[w]]]

(* The registers after the clock ticks.                                    *)
Clocked(flat, val) ==
    [r \in {c.id : c \in flat.ffs} |->
       LET c == CHOOSE k \in flat.ffs : k.id = r
       IN  NextState(val[c.out[<<"Q">>]], [p \in DOMAIN c.in |-> val[c.in[p]]])]
=============================================================================
