------------------------------- MODULE Circuit -------------------------------
(***************************************************************************)
(* What TMRX promises: the design as it was written.  A synchronous        *)
(* circuit that reads its inputs, updates its registers when the clock     *)
(* ticks, and shows its outputs.                                           *)
(***************************************************************************)
EXTENDS Netlist

VARIABLES
    net,    \* the flattened netlist; never changes
    regs,   \* register -> value
    in,     \* input -> value
    out     \* output -> value

NoFault == <<<<>>, <<>>>>

Observed(flat, rs, i) == Outputs(flat, Values(flat, rs, i, NoFault, FALSE))
Following(flat, rs, i) == Clocked(flat, Values(flat, rs, i, NoFault, FALSE))

PoweredOn ==
    /\ regs = [r \in {c.id : c \in net.ffs} |-> FALSE]
    /\ out = Observed(net, regs, in)

Tick ==
    /\ net' = net
    /\ DOMAIN in' = DOMAIN in
    /\ regs' = Following(net, regs, in)
    /\ out' = Observed(net, regs', in')

CircuitSpec == PoweredOn /\ [][Tick]_<<net, regs, in, out>>
=============================================================================
