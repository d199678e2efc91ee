------------------------- MODULE TmrxPassProperties -------------------------
(***************************************************************************)
(* What the two passes promise about the hierarchy they leave behind.      *)
(***************************************************************************)
EXTENDS TmrxPass

(* No cell ever instantiates a module that is not in the design: renaming  *)
(* a module to its _tmrx_worker template, removing the template, removing  *)
(* originals and retyping cells never leave a reference behind.            *)
NoDanglingCells ==
    \A n \in DOMAIN design : \A c \in design[n].cells :
        c.type \in DOMAIN design \cup Primitive

(* Every cell is connected by the ports its module has at that moment,     *)
(* although modules change their ports in place, are replaced by wrappers  *)
(* and cells are retyped: the reason for the _tmrx_impl clones.            *)
PortsMatch ==
    \A n \in DOMAIN design : \A c \in design[n].cells :
        c.type \in DOMAIN design => c.ports = design[c.type].ports

(* Every module that has instances has one in a module selected for        *)
(* tmrx_mark: what PortsMatch needs (the run select_one has no such input).*)
InstancesSelected ==
    \A u \in User : \A e \in input.cells[u] :
        e[2] \in UserName =>
            \E n \in input.markSel : \E f \in input.cells[n[1]] : f[2] = e[2]

(* The user's names and the suffixes can be told apart in a text: no suffix*)
(* ends in another one, and no module of the user is named like another    *)
(* one with something added that ends in a suffix (alu_a beside alu).      *)
Decodable(sp) ==
    /\ \A s, t \in Suffix : s # t => ~IsSuffix(sp[s], sp[t])
    /\ \A u, v \in User, s \in Suffix :
         u # v => ~(IsPrefix(sp[v], sp[u]) /\ IsSuffix(sp[s], sp[u]))

DecodableSpellings == {sp \in Spellings : Decodable(sp)}

(* The modules that have the text of the name `n', in the design or (for   *)
(* the lookup of their configurations) in the user's.                      *)
Found(sp, n) == {x \in DOMAIN design \cup UserName : Text(sp, x) = Text(sp, n)}

(* The design is keyed by texts, and names are built by concatenation with *)
(* nothing to keep them apart.  addModule and rename assert that a name is *)
(* free, and uniquifySubmodulesRecursive takes any module it finds by the  *)
(* name for the clone it needs.  For every readable way to write names,    *)
(* nothing reads like a name that is given without looking, and nothing but*)
(* the clone of that module for that path like one that is looked for.     *)
NamesFresh ==
    \A sp \in DecodableSpellings :
      /\ pc = "process" =>
           \A m \in todo :
             (Ready(m) /\ ~Skipped(m)) =>
               /\ Target(m) # m => Found(sp, Target(m)) = {}
               /\ ConfigOf(m).mode = "Full" => Found(sp, Template(Target(m))) = {}
      /\ (pc = "full" /\ stack = <<>> /\ path \in 1..3) => Found(sp, WorkerName(path)) = {}
      /\ stack # <<>> =>
           \A c \in stack[1].cells :
             ~KeepsType(c) => Found(sp, UniqueName(c)) \subseteq {UniqueName(c)}

-----------------------------------------------------------------------------
Base(n) == <<n[1]>>

Submodules(n) == {c.type : c \in {k \in design[n].cells : k.type \in DOMAIN design}}

(* The configuration of the module `n' is a copy of asks that worker       *)
(* branches share it.                                                      *)
ConfiguredShared(n) ==
    LET cfg == input.cfg[Base(n)]
    IN  cfg.prevent \/ (cfg.mode = "Logic" /\ cfg.preserve)

(* The modules at or below a worker that no configuration asks to share.   *)
Private(w) ==
    LET below[n \in DOMAIN design] ==
            IF ConfiguredShared(n) \/ design[n].bb \/ ~design[n].proper THEN {}
            ELSE {n} \cup UNION {below[s] : s \in Submodules(n)}
    IN  {w} \cup UNION {below[s] : s \in Submodules(w)}

(* The three workers of a wrapper share no module at any depth, except     *)
(* those whose own configuration says so: "so that the three workers are   *)
(* fully independent module hierarchies" (tmrx_mod_expansion.cc, 232).     *)
WorkersIndependent ==
    pc \in {"process", "done"} =>
        \A n \in DOMAIN design :
            LET workers == {c \in design[n].cells : c.inst = "worker"}
            IN  \A c, k \in workers :
                  c # k => Private(c.type) \cap Private(k.type) = {}

(* They do so unless the global configuration, which generated modules     *)
(* have, exempts modules from being renamed.                               *)
WorkersIndependentByDefault ==
    ~(input.global.prevent \/ (input.global.mode = "Logic" /\ input.global.preserve))
        => WorkersIndependent

-----------------------------------------------------------------------------
(* How many copies of the primitives written in each user module exist in  *)
(* one instance of a module; a blackbox counts as one primitive.           *)

(* The sum of the numbers f[s], as the size of a disjoint union.           *)
SumOf(f) == Cardinality(UNION {{s} \X (1..f[s]) : s \in DOMAIN f})

Tally(n)    == [x \in UserName |-> IF x = n THEN 1 ELSE 0]
Total(w)    == [x \in UserName |-> SumOf([s \in DOMAIN w |-> w[s][x]])]
Plus(f, g)  == [x \in UserName |-> f[x] + g[x]]
Times(k, f) == [x \in UserName |-> k * f[x]]

Actual ==
    LET count[n \in DOMAIN design] ==
            IF design[n].bb THEN Tally(Base(n))
            ELSE Total([c \in design[n].cells |->
                          IF c.type \in Primitive THEN Tally(Base(n)) ELSE count[c.type]])
    IN  count

(* The documented meaning of a configuration (tmr-strategies.adoc, "Child  *)
(* Module Version Selection"), from the user's design `i' alone: a parent  *)
(* gets the TMR version of a module or the original.                       *)
Version == {"tmr", "original"}

Default(i, m) == IF i.cfg[m].preserve THEN "tmr" ELSE "original"

Logic(i, m) == {e \in i.cells[m[1]] : e[2] \in Primitive \cup i.bb}
Subs(i, m)  == i.cells[m[1]] \ Logic(i, m)

LogicCount(i, m) ==
    Total([e \in Logic(i, m) |-> Tally(IF e[2] \in Primitive THEN m ELSE e[2])])

AsWritten(i, count, m) ==
    Plus(LogicCount(i, m),
         Total([e \in Subs(i, m) |-> count[<<e[2], Default(i, e[2])>>]]))

Triplicated(i, count, m) ==
    Plus(Times(3, LogicCount(i, m)),
         Total([e \in Subs(i, m) |-> count[<<e[2], "tmr">>]]))

CountOf(i, count, m, version) ==
    LET mode == IF version = "tmr" THEN i.cfg[m].mode ELSE "None"
    IN  CASE m \in i.bb                        -> Tally(m)
          [] m \notin i.bb /\ mode = "None"  -> AsWritten(i, count, m)
          [] m \notin i.bb /\ mode = "Full"  -> Times(3, AsWritten(i, count, m))
          [] m \notin i.bb /\ mode = "Logic" -> Triplicated(i, count, m)

Documented(i) ==
    LET count[x \in UserName \X Version] == CountOf(i, count, x[1], x[2])
    IN  count

Instantiated(n) == \E u \in User : \E e \in input.cells[u] : e[2] = n
Tops == {n \in UserName : ~Instantiated(n)}

(* When the flow ends, the logic below each top module is replicated as    *)
(* the documentation's table says, whatever the order of processing, the   *)
(* clones made and the originals removed on the way.                       *)
ProtectionAsDocumented ==
    (pc = "done" /\ input.tmrxSel = UserName) =>
        \A t \in Tops : Actual[t] = Documented(input)[<<t, "tmr">>]

(* A register of the source: a flip-flop when tmrx_mark ran.               *)
IsRegister(n, c) == <<c.inst, BuiltinFf>> \in input.cells[n[1]]

(* Every copy of a register that LogicTMR made is followed by voters, also *)
(* when the flow has mapped it to a library cell in between.               *)
RegistersVoted ==
    pc = "done" =>
        \A n \in DOMAIN design : \A c \in design[n].cells :
            (c.path # "" /\ IsRegister(n, c) /\ input.cfg[Base(n)].ffVoter) => c.voted

(* The configuration lets isFlipFlop see the registers of the modules that *)
(* LogicTMR triplicates: mapped ones are listed, or found by source in a   *)
(* module that is expanded in place (the run mapped_registers: neither).   *)
RegistersRecognised ==
    \A n \in UserName :
        LET cfg == input.cfg[n]
        IN  (cfg.mode = "Logic" /\ cfg.ffVoter) =>
              /\ (IF input.mapped THEN LibraryFf ELSE BuiltinFf) \notin cfg.excludedFf
              /\ input.mapped =>
                   LibraryFf \in cfg.ffCells \/ (n \in input.markSel /\ cfg.preserve)

-----------------------------------------------------------------------------
KeepsBlackboxes ==
    /\ \A n \in DOMAIN design :
         design[n].bb =>
           /\ n \in DOMAIN design'
           /\ design'[n].cells = design[n].cells
           /\ design'[n].ports = design[n].ports
           /\ design'[n].impl = design[n].impl
    /\ \A n \in DOMAIN design' : design'[n].bb => n \in input.bb

(* Blackboxes "are excluded from processing entirely" (yosys-integration): *)
(* never changed, removed or cloned, whatever their configuration says and *)
(* although they are nodes of the dependency graph.                        *)
BlackboxesUntouched == [][KeepsBlackboxes]_vars

KeepsOriginals ==
    pc \notin {"mark", "synth"} =>
        \A n \in UserName \cap DOMAIN design \cap DOMAIN design' :
            (design[n].impl # NoName \/ input.cfg[n].mode = "None") =>
                /\ design'[n].cells = design[n].cells
                /\ design'[n].ports = design[n].ports

(* Once tmrx runs, a module in mode None and an original that has been     *)
(* cloned keep their contents and their interface for as long as they are  *)
(* in the design, so that parents that are not expanded can use them.      *)
OriginalsUntouched == [][KeepsOriginals]_vars

(* The passes come to an end.                                              *)
Termination == <>(pc = "done")

-----------------------------------------------------------------------------
(* Statements of the documentation that the code does not keep.            *)

Reachable ==
    LET below[n \in DOMAIN design] == {n} \cup UNION {below[s] : s \in Submodules(n)}
    IN  UNION {below[t] : t \in Tops}

(* tmrx_pass.cc 115-123: an original that was cloned survives only if it   *)
(* is reachable from the top through a None-mode parent.                   *)
KeptOriginalsReachable ==
    pc = "done" =>
        \A n \in DOMAIN design : design[n].impl # NoName => n \in Reachable
=============================================================================
