----------------------------- MODULE TmrCircuit -----------------------------
(***************************************************************************)
(* The circuit that the tmrx pass makes of a design: the modules are       *)
(* expanded leaf first as in tmrx_pass.cc, then the circuit runs while     *)
(* single cells put out wrong values.                                      *)
(***************************************************************************)
EXTENDS LogicTmr, FullModuleTmr

CONSTANT Designs    \* records [top, mods, cfgs]: a design and configurations

VARIABLES
    choice,     \* the chosen member of Designs; never changes
    design,     \* the modules as they are now
    impl,       \* module -> its _tmrx_impl clone
    todo,       \* the modules that have not been processed
    work,       \* the LogicTMR expansion in progress
    phase,      \* "process", "connect", "run" or "aborted"
    golden,     \* the circuit as the user wrote it; never changes
    flat,       \* the circuit that runs
    regs,       \* its registers
    in,         \* its inputs, by their name in the user's design
    val,        \* the value of every net
    fault,      \* the cell that puts out the wrong value in this cycle
    float       \* the value of nets that nobody drives

expansion == <<design, impl, todo, work>>
circuit   == <<flat, regs, in, val, fault, float>>
vars      == <<choice, design, impl, todo, work, phase, golden, circuit>>

NoFault == <<<<>>, <<>>>>
NoWork  == [target |-> <<>>]

Cfg(n)      == ConfigOf(choice.cfgs, n)
Children(n) == {choice.mods[n].cells[c].type : c \in Submodules(choice.mods, n)}

-----------------------------------------------------------------------------
(* tmrx: leaf first.                                                       *)
Ready(n) == phase = "process" /\ n \in todo /\ Children(n) \cap todo = {}

(* Every module but the top is instantiated, hence marked.                 *)
Target(n) == IF ~Cfg(n).preserve /\ n # choice.top THEN Append(n, "_tmrx_impl") ELSE n

Implemented(n) == IF Target(n) = n THEN impl ELSE (n :> Target(n)) @@ impl
Effective(n)   == IF n \in DOMAIN impl THEN impl[n] ELSE n

SkipModule(n) ==
    /\ Ready(n)
    /\ Cfg(n).mode = "None"
    /\ todo' = todo \ {n}
    /\ UNCHANGED <<choice, design, impl, work, phase, golden, circuit>>

(* Mutant: the clone is scheduled as well.                                 *)
StartLogicTwice(n) ==
    /\ Ready(n)
    /\ Cfg(n).mode = "Logic"
    /\ todo' = (todo \ {n}) \cup {Target(n)}
    /\ impl' = Implemented(n)
    /\ work' = [target |-> Target(n), name |-> n, orig |-> design[n],
                cells |-> Submodules(design, n),
                st |-> State(Duplicated(design, design[n], Cfg(n)), {})]
    /\ phase' = "connect"
    /\ UNCHANGED <<choice, design, golden, circuit>>

StartLogic(n) ==
    /\ Ready(n)
    /\ Cfg(n).mode = "Logic"
    /\ todo' = todo \ {n}
    /\ impl' = Implemented(n)
    /\ work' = [target |-> Target(n), name |-> n, orig |-> design[n],
                cells |-> Submodules(design, n),
                st |-> State(Duplicated(design, design[n], Cfg(n)), {})]
    /\ phase' = "connect"
    /\ UNCHANGED <<choice, design, golden, circuit>>

(* The cells come in the order of a hash table: any.                       *)
ConnectSubmodule(c) ==
    /\ phase = "connect"
    /\ c \in work.cells
    /\ LET logical == work.orig.cells[c].type
           st == ConnectSubmodulePorts(design, work.st, work.orig, c, logical,
                                       Effective(logical), Cfg(logical), Cfg(work.name))
       IN  /\ work' = [work EXCEPT !.st = st, !.cells = @ \ {c}]
           /\ phase' = IF st.ok THEN "connect" ELSE "aborted"
    /\ UNCHANGED <<choice, design, impl, todo, golden, circuit>>

FinishLogic ==
    /\ phase = "connect"
    /\ work.cells = {}
    /\ LET st == Finished(design, work.st, work.orig, work.target, Cfg(work.name), choice.cfgs)
       IN  /\ design' = (work.target :> st.mod) @@ design
           /\ phase' = IF st.ok THEN "process" ELSE "aborted"
    /\ work' = NoWork
    /\ UNCHANGED <<choice, impl, todo, golden, circuit>>

ExpandFull(n) ==
    /\ Ready(n)
    /\ Cfg(n).mode = "Full"
    /\ LET template  == Append(Target(n), "_tmrx_worker")
           templated == (template :> design[n]) @@ design
           st == FullModuleTmrExpansion(templated, design[n], template, Cfg(n))
       IN  /\ design' = (Target(n) :> st.mod) @@ templated
           /\ phase' = IF st.ok THEN "process" ELSE "aborted"
    /\ impl' = Implemented(n)
    /\ todo' = todo \ {n}
    /\ UNCHANGED <<choice, work, golden, circuit>>

-----------------------------------------------------------------------------
(* The circuit runs.  A clock input always ticks.                          *)
Stimuli ==
    {i \in [{<<w[1]>> : w \in choice.mods[choice.top].inp} -> BOOLEAN] :
       \A w \in DOMAIN i : w \in Cfg(choice.top).clkNames => i[w]}

ResetState(circ) == [r \in {c.id : c \in circ.ffs} |-> FALSE]

PowerOn ==
    /\ phase = "process"
    /\ todo = {}
    /\ flat' = Flatten(design, choice.top)
    /\ regs' = ResetState(flat')
    /\ float' \in (IF flat'.floating = {} THEN {FALSE} ELSE BOOLEAN)
    /\ val' = Values(flat', regs', in, NoFault, float')
    /\ phase' = "run"
    /\ UNCHANGED <<choice, design, impl, todo, work, golden, in, fault>>

(* The path that a cell of the running circuit belongs to, "" if none: the *)
(* worker it is in, else the path of the copy.                             *)
PathOf(id) ==
    LET names == Append(id[1], id[2])
        marked == {i \in 1..Len(names) : Last(names[i]) \in PathSuffixes}
    IN  IF marked = {} THEN "" ELSE Last(names[Min(marked)])

(* The register of the user's design that a register is a copy of.         *)
Origin(id) == <<SelectSeq(id[1], LAMBDA c : c[1] # "$worker"), <<id[2][1]>>>>

(* The value of the majority of the copies of a register.                  *)
Consensus(r) ==
    LET copies == {k \in DOMAIN regs : Origin(k) = r}
    IN  2 * Cardinality({k \in copies : regs[k]}) > Cardinality(copies)

Deviant == {PathOf(k) : k \in {k \in DOMAIN regs : regs[k] # Consensus(Origin(k))}}

Tick(i) ==
    /\ phase = "run"
    /\ regs' = Clocked(flat, val)
    /\ in' = i
    /\ fault' = NoFault
    /\ val' = Values(flat, regs', i, NoFault, float)
    /\ UNCHANGED <<choice, expansion, phase, golden, flat, float>>

(* A cell of one path puts out the wrong value until the next tick.  The   *)
(* assumption of triple redundancy: never in a second path while copies in *)
(* a first one deviate.                                                    *)
Upset(g) ==
    /\ phase = "run"
    /\ fault = NoFault
    /\ PathOf(g) # ""
    /\ Deviant \subseteq {PathOf(g)}
    /\ fault' = g
    /\ val' = Values(flat, regs, in, g, float)
    /\ UNCHANGED <<choice, expansion, phase, golden, flat, regs, in, float>>

-----------------------------------------------------------------------------
Golden(c) ==
    LET circ == Flatten(c.mods, c.top)
        top  == c.mods[c.top]
    IN  [circ EXCEPT !.outputs =
            [w \in {o \in DOMAIN @ : ~IsErrorOut(top, o, ConfigOf(c.cfgs, c.top))} |-> @[w]]]

Init ==
    /\ choice \in Designs
    /\ design = choice.mods
    /\ impl = [n \in {} |-> n]
    /\ todo = DOMAIN choice.mods
    /\ work = NoWork
    /\ phase = "process"
    /\ golden = Golden(choice)
    /\ flat = golden
    /\ regs = ResetState(golden)
    /\ in = [w \in {<<p[1]>> : p \in choice.mods[choice.top].inp} |->
               w \in Cfg(choice.top).clkNames]
    /\ fault = NoFault
    /\ float = FALSE
    /\ val = Values(golden, regs, in, NoFault, float)

Next ==
    \/ \E n \in todo : SkipModule(n) \/ StartLogic(n) \/ ExpandFull(n)
    \/ phase = "connect" /\ \E c \in work.cells : ConnectSubmodule(c)
    \/ FinishLogic
    \/ PowerOn
    \/ phase = "run" /\ \E i \in Stimuli : Tick(i)
    \/ phase = "run" /\ \E g \in {c.id : c \in flat.ffs} \cup {g.id : g \in Gates(flat)} : Upset(g)

Spec == Init /\ [][Next]_vars
=============================================================================
