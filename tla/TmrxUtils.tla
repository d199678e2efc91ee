------------------------------ MODULE TmrxUtils ------------------------------
(***************************************************************************)
(* tmrx_utils.cc: recognising clock, reset and error wires, inserting a    *)
(* voter into a module, and aggregating the error signals of a module.     *)
(*                                                                         *)
(* A configuration is a record                                             *)
(*   [mode, preserve, expandClock, expandReset, ffVoter, before, after,    *)
(*    voteClock, voteReset, safe, auto: the options of the same meaning;   *)
(*    clkNames, rstNames: sets of wires; errorPort: a wire or NoWire;      *)
(*    controls: the clock and reset port of the custom voter, where it has *)
(*    them |-> the wire configured for the port, or NoWire].               *)
(* An operation that may end the pass with log_error returns a record with *)
(* a field `ok'.  New wires get names that start with "$" (NEW_ID), made   *)
(* unique by the site where they are created.                              *)
(***************************************************************************)
EXTENDS Netlist

NoWire == <<>>
AutoErrorPort == <<"tmrx_err_o">>

IsClkWire(m, w, cfg) == w \in cfg.clkNames \/ w \in m.clk
IsRstWire(m, w, cfg) == w \in cfg.rstNames \/ w \in m.rst

IsErrorOut(m, w, cfg) == w \in m.sink \/ (cfg.errorPort # NoWire /\ w = cfg.errorPort)

-----------------------------------------------------------------------------
(* Operations of RTLIL::Module.                                            *)

AddWires(m, ws)      == [m EXCEPT !.wires = @ \cup ws]
Connect(m, pairs)    == [m EXCEPT !.conns = @ \cup pairs]
AddCell(m, c, cell)  == [m EXCEPT !.cells = (c :> cell) @@ @]
SetPort(m, c, p, w)  == [m EXCEPT !.cells[c].conn = (p :> w) @@ @]

(* Rename wires: cells and connections refer to the wire, not to its name. *)
RenameWires(m, New(_)) ==
    LET Renamed(ws) == {New(w) : w \in ws}
    IN  [m EXCEPT !.wires = Renamed(@), !.inp = Renamed(@), !.out = Renamed(@),
                  !.clk = Renamed(@), !.rst = Renamed(@), !.sink = Renamed(@),
                  !.conns = {<<New(j[1]), New(j[2])>> : j \in @},
                  !.cells = Table([c \in DOMAIN @ |->
                      [type |-> @[c].type,
                       conn |-> Table([p \in DOMAIN @[c].conn |-> New(@[c].conn[p])])]])]

-----------------------------------------------------------------------------
(* Mutant: the inputs of the module are not counted as drivers.            *)
UnconnectedInput(d, m, w) ==
    /\ w # Zero
    /\ \A c \in DOMAIN m.cells :
         \A p \in OutputPorts(d, m.cells[c].type) \cap DOMAIN m.cells[c].conn :
             m.cells[c].conn[p] # w
    /\ \A j \in m.conns : j[1] # w

(* isSignalUnconnected: nothing drives the wire at this moment.            *)
Unconnected(d, m, w) ==
    /\ w # Zero
    /\ w \notin m.inp
    /\ \A c \in DOMAIN m.cells :
         \A p \in OutputPorts(d, m.cells[c].type) \cap DOMAIN m.cells[c].conn :
             m.cells[c].conn[p] # w
    /\ \A j \in m.conns : j[1] # w

Identical(m, ins) ==
    LET net == ModuleNets(m) IN \A i \in 2..3 : net[ins[i]] = net[ins[1]]

(* The wire that carries the voted value, and its error signal.            *)
Voted(site)      == <<"$y">> \o site
VoterError(site) == <<"$err">> \o site

(* Mutant: the two outputs are swapped.                                    *)
VoterCellSwapped(ins, y, err) ==
    [type |-> <<"voter">>,
     conn |-> (<<"a">> :> ins[1]) @@ (<<"b">> :> ins[2]) @@ (<<"c">> :> ins[3]) @@
              (<<"y">> :> err) @@ (<<"err">> :> y)]

VoterCell(ins, y, err) ==
    [type |-> <<"voter">>,
     conn |-> (<<"a">> :> ins[1]) @@ (<<"b">> :> ins[2]) @@ (<<"c">> :> ins[3]) @@
              (<<"y">> :> y) @@ (<<"err">> :> err)]

(* The wires that may drive the clock or the reset port of a custom voter: *)
(* the configured one, else the inputs recognised as clock or reset now.   *)
VoterClock == <<"clk">>
VoterReset == <<"rst">>

(* Mutant: the reset port is looked for among the clocks, too.             *)
ControlWiresSwapped(m, p, cfg) ==
    IF cfg.controls[p] # NoWire THEN {cfg.controls[p]} \cap m.wires
    ELSE {w \in m.inp : IsClkWire(m, w, cfg)}

ControlWires(m, p, cfg) ==
    IF cfg.controls[p] # NoWire THEN {cfg.controls[p]} \cap m.wires
    ELSE {w \in m.inp : IF p = VoterClock THEN IsClkWire(m, w, cfg) ELSE IsRstWire(m, w, cfg)}

(* A port without a wire stays open, with a warning.                       *)
VoterControls(m, cfg) ==
    [p \in {q \in DOMAIN cfg.controls : ControlWires(m, q, cfg) # {}} |->
        CHOOSE w \in ControlWires(m, p, cfg) : TRUE]

(* A voter over three wires of module m; the cell carries the path that it *)
(* belongs to as the end of `site', if it belongs to one.                  *)
InsertVoter(d, m, ins, cfg, site) ==
    LET y   == Voted(site)
        err == VoterError(site)
        new == AddWires(m, {y, err})
    IN  IF cfg.safe /\ \E i \in 1..3 : Unconnected(d, m, ins[i])
        THEN [ok |-> FALSE, mod |-> m]
        ELSE [ok |-> TRUE,
              mod |-> IF ~cfg.safe /\ Identical(m, ins)
                      THEN Connect(new, {<<y, ins[1]>>, <<err, Zero>>})
                      ELSE AddCell(new, <<"$voter">> \o site,
                                   [VoterCell(ins, y, err) EXCEPT
                                       !.conn = @ @@ VoterControls(m, cfg)])]

-----------------------------------------------------------------------------
(* Mutant: every OR starts anew, and the last error signal is left.        *)
OrCellLast(ws, y) ==
    [type |-> <<"or">>, conn |-> [w \in {CHOOSE x \in ws : TRUE} |-> w] @@ (<<"Y">> :> y)]

OrCell(ws, y) == [type |-> <<"or">>, conn |-> [w \in ws |-> w] @@ (<<"Y">> :> y)]

(* connectErrorSignal: OR the error signals into the error sink, or into a *)
(* new port if the module has none and the configuration asks for it.      *)
ConnectErrorSignal(m, errs, cfg) ==
    LET sinks == {w \in m.out : IsErrorOut(m, w, cfg)}
        sink  == CHOOSE w \in sinks : TRUE
        old   == Append(sink, "_old")
        freed == RenameWires([m EXCEPT !.out = @ \ {sink}],
                             LAMBDA w : IF w = sink THEN old ELSE w)
        Expose(n, w, cell) == AddCell([AddWires(n, {w}) EXCEPT !.out = @ \cup {w}],
                                      <<"$error">>, cell)
    IN  CASE Cardinality(sinks) > 1 -> [ok |-> FALSE, mod |-> m]
          [] sinks = {} /\ cfg.auto /\ errs # {} ->
               [ok |-> TRUE, mod |-> Expose(m, AutoErrorPort, OrCell(errs, AutoErrorPort))]
          [] sinks # {} /\ Cardinality(sinks) = 1 /\ errs # {} ->
               [ok |-> TRUE,
                mod |-> LET n == Expose(freed, sink, OrCell(errs \cup {old}, sink))
                        IN  IF sink \in m.sink THEN [n EXCEPT !.sink = @ \cup {sink}] ELSE n]
          [] OTHER -> [ok |-> TRUE, mod |-> m]

(* The end of both expansions.                                             *)
SinkErrors(st, cfg) ==
    LET sunk == ConnectErrorSignal(st.mod, st.errs, cfg)
    IN  [ok |-> st.ok /\ sunk.ok, mod |-> sunk.mod]
=============================================================================
