--------------------------- MODULE TmrCircuitProofs ---------------------------
(***************************************************************************)
(* Theorems about the expanded circuit: its type, and that a netlist that  *)
(* masks each single path behaves like the original.                       *)
(***************************************************************************)
EXTENDS TmrCircuitMasking, WellFoundedInduction, FiniteSetTheorems, TLAPS

-----------------------------------------------------------------------------
(* Induction on the levels of a netlist: S holds the levels that are done. *)
LEMMA LevelInduction ==
    ASSUME NEW n \in Nat, NEW S, 0 \in S, \A k \in 1..n : k - 1 \in S => k \in S
    PROVE  \A k \in 0..n : k \in S
<1> SUFFICES ASSUME NEW b \in 0..n, b \notin S PROVE FALSE
  OBVIOUS
<1> DEFINE bad == {k \in 0..n : k \notin S}
<1>1. IsWellFoundedOn(OpToRel(<, Nat), Nat)
  BY NatLessThanWellFounded
<1>2. bad \subseteq Nat /\ bad # {}
  OBVIOUS
<1> HIDE DEF bad
<1>3. PICK k \in bad : \A y \in bad : ~(<<y, k>> \in OpToRel(<, Nat))
  BY <1>1, <1>2, WFMin
<1>4. k \in Nat /\ \A y \in bad : y \in Nat /\ ~(y < k)
  BY <1>2, <1>3 DEF OpToRel
<1>5. k \in 1..n /\ k - 1 \in 0..n /\ k - 1 < k
  BY <1>4 DEF bad
<1>6. k - 1 \in S
  BY <1>4, <1>5 DEF bad
<1> QED
  BY <1>5, <1>6 DEF bad

-----------------------------------------------------------------------------
(* Evaluating a netlist: the values and the symbols after each level.      *)
Driver(level, x) == CHOOSE k \in level : \E p \in DOMAIN k.out : k.out[p] = x
PortOf(g, x)     == CHOOSE p \in DOMAIN g.out : g.out[p] = x

ValueSource(circ, rs, ins, hit, z) ==
    [x \in circ.nets |->
        IF x \in DOMAIN circ.registers THEN rs[circ.registers[x]] # (circ.registers[x] = hit)
        ELSE IF x \in DOMAIN circ.inputs THEN ins[<<circ.inputs[x][1]>>]
        ELSE IF x \in circ.zeros THEN FALSE
        ELSE z]

ValuePut(hit, g, p, val0) ==
    GateValue(g.type, p, [q \in DOMAIN g.in |-> val0[g.in[q]]])
        # (g.id = hit /\ p = DataOutput(g.type))

ValueStep(hit, level, val0) ==
    Table([x \in Written(level) \cup DOMAIN val0 |->
        IF x \notin Written(level) THEN val0[x]
        ELSE ValuePut(hit, Driver(level, x), PortOf(Driver(level, x), x), val0)])

ValueStages(circ, rs, ins, hit, z, n, f) ==
    f = [k \in 0..n |-> IF k = 0 THEN Table(ValueSource(circ, rs, ins, hit, z))
                        ELSE ValueStep(hit, circ.levels[k], f[k - 1])]

LEMMA ValueStagesExist ==
    ASSUME NEW circ, NEW rs, NEW ins, NEW hit, NEW z, NEW n \in Nat
    PROVE  \E f : ValueStages(circ, rs, ins, hit, z, n, f)
<1> DEFINE S == {k \in 0..n : \E f : ValueStages(circ, rs, ins, hit, z, k, f)}
           base == Table(ValueSource(circ, rs, ins, hit, z))
<1>1. 0 \in S
  <2> DEFINE f == [k \in 0..0 |-> base]
  <2>1. f = [k \in 0..0 |-> IF k = 0 THEN base ELSE ValueStep(hit, circ.levels[k], f[k - 1])]
    OBVIOUS
  <2> HIDE DEF f
  <2> QED
    BY <2>1 DEF ValueStages
<1>2. ASSUME NEW k \in 1..n, k - 1 \in S PROVE k \in S
  <2>1. PICK f : ValueStages(circ, rs, ins, hit, z, k - 1, f)
    BY <1>2
  <2> DEFINE g == [i \in 0..k |-> IF i = k THEN ValueStep(hit, circ.levels[k], f[k - 1]) ELSE f[i]]
  <2>2. f = [i \in 0..k - 1 |-> IF i = 0 THEN base ELSE ValueStep(hit, circ.levels[i], f[i - 1])]
    BY <2>1 DEF ValueStages
  <2> HIDE DEF base
  <2>3. ASSUME NEW i \in 0..k
        PROVE  g[i] = IF i = 0 THEN base ELSE ValueStep(hit, circ.levels[i], g[i - 1])
    <3>1. CASE i = k
      <4>1. g[k - 1] = f[k - 1] /\ k # 0
        OBVIOUS
      <4>2. g[k] = ValueStep(hit, circ.levels[k], f[k - 1])
        OBVIOUS
      <4> HIDE DEF g
      <4> QED
        BY <3>1, <4>1, <4>2
    <3>2. CASE i # k
      <4>1. i \in 0..k - 1 /\ g[i] = f[i]
        BY <3>2
      <4>2. i # 0 => g[i - 1] = f[i - 1]
        BY <3>2
      <4>3. f[i] = IF i = 0 THEN base ELSE ValueStep(hit, circ.levels[i], f[i - 1])
        BY <2>2, <4>1
      <4> HIDE DEF g
      <4> QED
        BY <4>1, <4>2, <4>3
    <3> QED
      BY <3>1, <3>2
  <2>4. g = [i \in 0..k |-> g[i]]
    OBVIOUS
  <2> HIDE DEF g
  <2>5. g = [i \in 0..k |-> IF i = 0 THEN base ELSE ValueStep(hit, circ.levels[i], g[i - 1])]
    BY <2>3, <2>4
  <2> QED
    BY <2>5 DEF ValueStages, base
<1> HIDE DEF S
<1>3. n \in S
  BY <1>1, <1>2, LevelInduction
<1> QED
  BY <1>3 DEF S

(* `Values' is the last stage.                                             *)
LEMMA ValuesFact ==
    ASSUME NEW circ, NEW rs, NEW ins, NEW hit, NEW z, Len(circ.levels) \in Nat
    PROVE  \E f : /\ ValueStages(circ, rs, ins, hit, z, Len(circ.levels), f)
                  /\ Values(circ, rs, ins, hit, z) = f[Len(circ.levels)]
<1> DEFINE n == Len(circ.levels)
           f == CHOOSE h : h = [k \in 0..n |->
                    IF k = 0 THEN Table(ValueSource(circ, rs, ins, hit, z))
                    ELSE ValueStep(hit, circ.levels[k], h[k - 1])]
<1>1. Values(circ, rs, ins, hit, z) = f[n]
  BY Zenon DEF Values, Evaluated, ValueStep, ValuePut, ValueSource, Written, Driver, PortOf
<1>2. \E h : h = [k \in 0..n |-> IF k = 0 THEN Table(ValueSource(circ, rs, ins, hit, z))
                    ELSE ValueStep(hit, circ.levels[k], h[k - 1])]
  <2>1. PICK h : ValueStages(circ, rs, ins, hit, z, n, h)
    BY ValueStagesExist
  <2> QED
    BY <2>1, Zenon DEF ValueStages
<1>3. f = [k \in 0..n |-> IF k = 0 THEN Table(ValueSource(circ, rs, ins, hit, z))
                    ELSE ValueStep(hit, circ.levels[k], f[k - 1])]
  BY <1>2, Zenon
<1> HIDE DEF f
<1> QED
  BY <1>1, <1>3 DEF ValueStages
(* The same for symbols.                                                   *)
SymbolSource(circ, broken) ==
    [x \in circ.nets |->
        IF x \in DOMAIN circ.registers
        THEN IF circ.registers[x] \in broken THEN Unknown
             ELSE <<"register", Origin(circ.registers[x])>>
        ELSE IF x \in DOMAIN circ.inputs THEN <<"input", <<circ.inputs[x][1]>>>>
        ELSE IF x \in circ.zeros THEN <<"zero">>
        ELSE Unknown]

SymbolPut(broken, g, p, sym) ==
    IF g.id \in broken THEN Unknown
    ELSE Symbol(g.type, p, Table([q \in DOMAIN g.in |-> sym[g.in[q]]]))

SymbolStep(broken, level, sym) ==
    Table([x \in Written(level) \cup DOMAIN sym |->
        IF x \notin Written(level) THEN sym[x]
        ELSE SymbolPut(broken, Driver(level, x), PortOf(Driver(level, x), x), sym)])

SymbolStages(circ, broken, n, f) ==
    f = [k \in 0..n |-> IF k = 0 THEN Table(SymbolSource(circ, broken))
                        ELSE SymbolStep(broken, circ.levels[k], f[k - 1])]

LEMMA SymbolStagesExist ==
    ASSUME NEW circ, NEW broken, NEW n \in Nat
    PROVE  \E f : SymbolStages(circ, broken, n, f)
<1> DEFINE S == {k \in 0..n : \E f : SymbolStages(circ, broken, k, f)}
           base == Table(SymbolSource(circ, broken))
<1>1. 0 \in S
  <2> DEFINE f == [k \in 0..0 |-> base]
  <2>1. f = [k \in 0..0 |-> IF k = 0 THEN base ELSE SymbolStep(broken, circ.levels[k], f[k - 1])]
    OBVIOUS
  <2> HIDE DEF f
  <2> QED
    BY <2>1 DEF SymbolStages
<1>2. ASSUME NEW k \in 1..n, k - 1 \in S PROVE k \in S
  <2>1. PICK f : SymbolStages(circ, broken, k - 1, f)
    BY <1>2
  <2> DEFINE g == [i \in 0..k |-> IF i = k THEN SymbolStep(broken, circ.levels[k], f[k - 1]) ELSE f[i]]
  <2>2. f = [i \in 0..k - 1 |-> IF i = 0 THEN base ELSE SymbolStep(broken, circ.levels[i], f[i - 1])]
    BY <2>1 DEF SymbolStages
  <2> HIDE DEF base
  <2>3. ASSUME NEW i \in 0..k
        PROVE  g[i] = IF i = 0 THEN base ELSE SymbolStep(broken, circ.levels[i], g[i - 1])
    <3>1. CASE i = k
      <4>1. g[k - 1] = f[k - 1] /\ k # 0
        OBVIOUS
      <4>2. g[k] = SymbolStep(broken, circ.levels[k], f[k - 1])
        OBVIOUS
      <4> HIDE DEF g
      <4> QED
        BY <3>1, <4>1, <4>2
    <3>2. CASE i # k
      <4>1. i \in 0..k - 1 /\ g[i] = f[i]
        BY <3>2
      <4>2. i # 0 => g[i - 1] = f[i - 1]
        BY <3>2
      <4>3. f[i] = IF i = 0 THEN base ELSE SymbolStep(broken, circ.levels[i], f[i - 1])
        BY <2>2, <4>1
      <4> HIDE DEF g
      <4> QED
        BY <4>1, <4>2, <4>3
    <3> QED
      BY <3>1, <3>2
  <2>4. g = [i \in 0..k |-> g[i]]
    OBVIOUS
  <2> HIDE DEF g
  <2>5. g = [i \in 0..k |-> IF i = 0 THEN base ELSE SymbolStep(broken, circ.levels[i], g[i - 1])]
    BY <2>3, <2>4
  <2> QED
    BY <2>5 DEF SymbolStages, base
<1> HIDE DEF S
<1>3. n \in S
  BY <1>1, <1>2, LevelInduction
<1> QED
  BY <1>3 DEF S

(* `Symbols' is the last stage.                                             *)
LEMMA SymbolsFact ==
    ASSUME NEW circ, NEW broken, Len(circ.levels) \in Nat
    PROVE  \E f : /\ SymbolStages(circ, broken, Len(circ.levels), f)
                  /\ Symbols(circ, broken) = f[Len(circ.levels)]
<1> DEFINE n == Len(circ.levels)
           f == CHOOSE h : h = [k \in 0..n |->
                    IF k = 0 THEN Table(SymbolSource(circ, broken))
                    ELSE SymbolStep(broken, circ.levels[k], h[k - 1])]
<1>1. Symbols(circ, broken) = f[n]
  BY Zenon DEF Symbols, Evaluated, SymbolStep, SymbolPut, SymbolSource, Written, Driver, PortOf
<1>2. \E h : h = [k \in 0..n |-> IF k = 0 THEN Table(SymbolSource(circ, broken))
                    ELSE SymbolStep(broken, circ.levels[k], h[k - 1])]
  <2>1. PICK h : SymbolStages(circ, broken, n, h)
    BY SymbolStagesExist
  <2> QED
    BY <2>1, Zenon DEF SymbolStages
<1>3. f = [k \in 0..n |-> IF k = 0 THEN Table(SymbolSource(circ, broken))
                    ELSE SymbolStep(broken, circ.levels[k], f[k - 1])]
  BY <1>2, Zenon
<1> HIDE DEF f
<1> QED
  BY <1>1, <1>3 DEF SymbolStages

-----------------------------------------------------------------------------
LEMMA LevelsFact ==
    ASSUME NEW circ, NEW names, WellFormed(circ, names)
    PROVE  /\ Len(circ.levels) \in Nat
           /\ \A k \in 1..Len(circ.levels) : circ.levels[k] \subseteq Gates(circ)
<1> PICK levels, gates : levels = circ.levels /\ gates = Gates(circ)
  OBVIOUS
<1>1. circ.levels \in Seq(SUBSET Gates(circ))
  BY Zenon DEF WellFormed
<1>2. levels \in Seq(SUBSET gates)
  BY <1>1
<1>3. Len(levels) \in Nat /\ \A k \in 1..Len(levels) : levels[k] \subseteq gates
  BY <1>2
<1> QED
  BY <1>3

LEMMA TableFact == ASSUME NEW g PROVE Table(g) = g
BY DEF Table

LEMMA DriverFact ==
    ASSUME NEW level, NEW x \in Written(level)
    PROVE  Driver(level, x) \in level
<1>1. \E k \in level : \E p \in DOMAIN k.out : k.out[p] = x
  BY DEF Written
<1> QED
  BY <1>1 DEF Driver

(* What a level leaves and what it puts out.                               *)
LEMMA ValueStepDomain ==
    ASSUME NEW hit, NEW level, NEW v0
    PROVE  DOMAIN ValueStep(hit, level, v0) = Written(level) \cup DOMAIN v0
BY TableFact DEF ValueStep

LEMMA ValueStepWritten ==
    ASSUME NEW hit, NEW level, NEW v0, NEW x \in Written(level)
    PROVE  ValueStep(hit, level, v0)[x]
               = ValuePut(hit, Driver(level, x), PortOf(Driver(level, x), x), v0)
BY TableFact DEF ValueStep

LEMMA ValueStepKept ==
    ASSUME NEW hit, NEW level, NEW v0, NEW x \in DOMAIN v0, x \notin Written(level)
    PROVE  ValueStep(hit, level, v0)[x] = v0[x]
BY TableFact DEF ValueStep

LEMMA SymbolStepDomain ==
    ASSUME NEW broken, NEW level, NEW s0
    PROVE  DOMAIN SymbolStep(broken, level, s0) = Written(level) \cup DOMAIN s0
BY TableFact DEF SymbolStep

LEMMA SymbolStepWritten ==
    ASSUME NEW broken, NEW level, NEW s0, NEW x \in Written(level)
    PROVE  SymbolStep(broken, level, s0)[x]
               = SymbolPut(broken, Driver(level, x), PortOf(Driver(level, x), x), s0)
BY TableFact DEF SymbolStep

LEMMA SymbolStepKept ==
    ASSUME NEW broken, NEW level, NEW s0, NEW x \in DOMAIN s0, x \notin Written(level)
    PROVE  SymbolStep(broken, level, s0)[x] = s0[x]
BY TableFact DEF SymbolStep

(* Every net has a Boolean value after every level.                        *)
Defined(N, g) == \A x \in N : x \in DOMAIN g /\ g[x] \in BOOLEAN

LEMMA ValuesBoolean ==
    ASSUME NEW circ, NEW names, WellFormed(circ, names),
           NEW rs, NEW ins \in [names -> BOOLEAN], NEW hit, NEW z \in BOOLEAN, NEW n \in Nat,
           NEW f, ValueStages(circ, rs, ins, hit, z, n, f)
    PROVE  \A k \in 0..n : Defined(circ.nets, f[k])
<1> DEFINE S == {k \in 0..n : Defined(circ.nets, f[k])}
<1>1. 0 \in S
  <2> DEFINE g == ValueSource(circ, rs, ins, hit, z)
  <2>1. g = [x \in circ.nets |-> g[x]] /\ DOMAIN g = circ.nets
    BY DEF ValueSource
  <2>2. f[0] = g
    <3>1. f[0] = Table(g)
      BY DEF ValueStages
    <3> HIDE DEF g
    <3> QED
      BY <2>1, <3>1, TableFact
  <2>3. ASSUME NEW x \in circ.nets PROVE g[x] \in BOOLEAN
    <3>1. x \in DOMAIN circ.inputs => ins[<<circ.inputs[x][1]>>] \in BOOLEAN
      BY DEF WellFormed
    <3>2. (rs[circ.registers[x]] # (circ.registers[x] = hit)) \in BOOLEAN
      OBVIOUS
    <3> QED
      BY <3>1, <3>2 DEF ValueSource
  <2> HIDE DEF g
  <2>4. Defined(circ.nets, g)
    BY <2>1, <2>3 DEF Defined
  <2> QED
    BY <2>2, <2>4
<1>2. ASSUME NEW k \in 1..n, k - 1 \in S PROVE k \in S
  <2>1. f[k] = ValueStep(hit, circ.levels[k], f[k - 1])
    BY DEF ValueStages
  <2> PICK level, v0, v1 : level = circ.levels[k] /\ v0 = f[k - 1] /\ v1 = f[k]
    OBVIOUS
  <2>2. v1 = ValueStep(hit, level, v0)
    BY <2>1
  <2>3. Defined(circ.nets, v0)
    BY <1>2
  <2>4. DOMAIN v1 = Written(level) \cup DOMAIN v0
    <3>1. DOMAIN ValueStep(hit, level, v0) = Written(level) \cup DOMAIN v0
      BY ValueStepDomain
    <3> QED
      BY <2>2, <3>1
  <2>5. ASSUME NEW x \in circ.nets PROVE x \in DOMAIN v1 /\ v1[x] \in BOOLEAN
    <3>1. x \in DOMAIN v0 /\ v0[x] \in BOOLEAN
      BY <2>3 DEF Defined
    <3>2. \A g, p : ValuePut(hit, g, p, v0) \in BOOLEAN
      BY DEF ValuePut
    <3>3. x \in Written(level) =>
            v1[x] = ValuePut(hit, Driver(level, x), PortOf(Driver(level, x), x), v0)
      BY <2>2, ValueStepWritten
    <3>4. x \notin Written(level) => v1[x] = v0[x]
      BY <2>2, <3>1, ValueStepKept
    <3> QED
      BY <2>4, <3>1, <3>2, <3>3, <3>4
  <2>6. Defined(circ.nets, v1)
    BY <2>5 DEF Defined
  <2> QED
    BY <2>6
<1> HIDE DEF S
<1>3. \A k \in 0..n : k \in S
  BY <1>1, <1>2, LevelInduction
<1> QED
  BY <1>3 DEF S

(* Every net has a symbol after every level.                               *)
LEMMA SymbolsDefined ==
    ASSUME NEW circ, NEW broken, NEW n \in Nat, NEW s, SymbolStages(circ, broken, n, s)
    PROVE  \A k \in 0..n : circ.nets \subseteq DOMAIN s[k]
<1> DEFINE S == {k \in 0..n : circ.nets \subseteq DOMAIN s[k]}
<1>1. 0 \in S
  <2>1. s[0] = SymbolSource(circ, broken)
    BY TableFact DEF SymbolStages
  <2> QED
    BY <2>1 DEF SymbolSource
<1>2. ASSUME NEW k \in 1..n, k - 1 \in S PROVE k \in S
  <2>1. s[k] = SymbolStep(broken, circ.levels[k], s[k - 1])
    BY DEF SymbolStages
  <2>2. DOMAIN s[k] = Written(circ.levels[k]) \cup DOMAIN s[k - 1]
    BY <2>1, SymbolStepDomain
  <2> QED
    BY <1>2, <2>1, <2>2
<1> HIDE DEF S
<1>3. \A k \in 0..n : k \in S
  BY <1>1, <1>2, LevelInduction
<1> QED
  BY <1>3 DEF S

-----------------------------------------------------------------------------
(* What a known symbol says about the value: it is that of two nets of the *)
(* level before, or of a register, an input or 0, or it is put out by a    *)
(* gate whose inputs are known.                                            *)
Passes(N, v0, s0, symbol, value) ==
    \E y1 \in N, y2 \in N :
        s0[y1] = symbol /\ s0[y2] = symbol /\ (v0[y1] = v0[y2] => value = v0[y1])

Given(symbol, value, abs, ins) ==
    \/ \E r : symbol = <<"register", r>> /\ value = abs[r]
    \/ \E w : symbol = <<"input", w>> /\ value = ins[w]
    \/ symbol = <<"zero">> /\ value = FALSE

PutOutBy(N, v0, s0, symbol, value, type, p, nets) ==
    /\ symbol = <<"gate", type, p, [q \in DOMAIN nets |-> s0[nets[q]]]>>
    /\ value = (GateValue(type, p, [q \in DOMAIN nets |-> v0[nets[q]]]) # FALSE)
    /\ \A q \in DOMAIN nets : nets[q] \in N /\ s0[nets[q]] # Unknown

PutOut(N, v0, s0, symbol, value) ==
    \E type, p, nets : PutOutBy(N, v0, s0, symbol, value, type, p, nets)

ReadsNets(N, g) ==
    /\ \A q \in DOMAIN g.in : g.in[q] \in N
    /\ g.type = <<"voter">> => {<<"a">>, <<"b">>, <<"c">>} \subseteq DOMAIN g.in

Explained(N, v, s, k, x, abs, ins) ==
    \/ Given(s[k][x], v[k][x], abs, ins)
    \/ k # 0 /\ Passes(N, v[k - 1], s[k - 1], s[k][x], v[k][x])
    \/ k # 0 /\ PutOut(N, v[k - 1], s[k - 1], s[k][x], v[k][x])

(* The value that two inputs of a voter have is the value that it puts out.*)
LEMMA MajorityFact ==
    /\ \A a, c \in BOOLEAN : MajorityOf(a, a, c) = a
    /\ \A a, c \in BOOLEAN : MajorityOf(a, c, a) = a
    /\ \A a, c \in BOOLEAN : MajorityOf(c, a, a) = a
BY DEF MajorityOf

LEMMA VoterPasses ==
    ASSUME NEW N, NEW v0, NEW s0, Defined(N, v0),
           NEW a \in N, NEW b \in N, NEW c \in N, NEW symbol, NEW value, symbol # Unknown,
           symbol = Majority(s0[a], s0[b], s0[c]), value = MajorityOf(v0[a], v0[b], v0[c])
    PROVE  Passes(N, v0, s0, symbol, value)
<1>1. v0[a] \in BOOLEAN /\ v0[b] \in BOOLEAN /\ v0[c] \in BOOLEAN
  BY DEF Defined
<1>2. CASE s0[a] = s0[b]
  <2>1. v0[a] = v0[b] => value = v0[a]
    BY <1>1, MajorityFact, Zenon
  <2>2. symbol = s0[a]
    BY <1>2 DEF Majority
  <2> QED
    BY <1>2, <2>1, <2>2, Zenon DEF Passes
<1>3. CASE s0[a] # s0[b] /\ s0[a] = s0[c]
  <2>1. v0[a] = v0[c] => value = v0[a]
    BY <1>1, MajorityFact, Zenon
  <2>2. symbol = s0[a]
    BY <1>3 DEF Majority
  <2> QED
    BY <1>3, <2>1, <2>2, Zenon DEF Passes
<1>4. CASE s0[a] # s0[b] /\ s0[a] # s0[c]
  <2>1. v0[b] = v0[c] => value = v0[b]
    BY <1>1, MajorityFact, Zenon
  <2>2. s0[b] = s0[c] /\ symbol = s0[b]
    BY <1>4 DEF Majority
  <2> QED
    BY <2>1, <2>2, Zenon DEF Passes
<1> QED
  BY <1>2, <1>3, <1>4

(* A gate that is not broken.                                              *)
LEMMA GateExplained ==
    ASSUME NEW N, NEW v0, NEW s0, Defined(N, v0), NEW g, ReadsNets(N, g),
           NEW p, NEW hit, NEW broken, hit # g.id \/ g.id \in broken,
           NEW symbol, symbol = SymbolPut(broken, g, p, s0), symbol # Unknown,
           NEW value, value = ValuePut(hit, g, p, v0)
    PROVE  Passes(N, v0, s0, symbol, value) \/ PutOut(N, v0, s0, symbol, value)
<1> DEFINE ss == [q \in DOMAIN g.in |-> s0[g.in[q]]]
           vv == [q \in DOMAIN g.in |-> v0[g.in[q]]]
<1>1. g.id \notin broken /\ g.id # hit
  BY DEF SymbolPut
<1>2. symbol = Symbol(g.type, p, ss)
  BY <1>1, TableFact DEF SymbolPut
<1>3. value = (GateValue(g.type, p, vv) # FALSE)
  BY <1>1 DEF ValuePut
<1>4. CASE g.type = <<"voter">> /\ p = <<"y">>
  <2>1. ss[<<"a">>] = s0[g.in[<<"a">>]] /\ ss[<<"b">>] = s0[g.in[<<"b">>]] /\ ss[<<"c">>] = s0[g.in[<<"c">>]]
    BY <1>4 DEF ReadsNets
  <2>2. vv[<<"a">>] = v0[g.in[<<"a">>]] /\ vv[<<"b">>] = v0[g.in[<<"b">>]] /\ vv[<<"c">>] = v0[g.in[<<"c">>]]
    BY <1>4 DEF ReadsNets
  <2>3. g.in[<<"a">>] \in N /\ g.in[<<"b">>] \in N /\ g.in[<<"c">>] \in N
    BY <1>4 DEF ReadsNets
  <2> HIDE DEF ss, vv
  <2>4. symbol = Majority(s0[g.in[<<"a">>]], s0[g.in[<<"b">>]], s0[g.in[<<"c">>]])
    BY <1>2, <1>4, <2>1 DEF Symbol
  <2>5. GateValue(g.type, p, vv) = MajorityOf(vv[<<"a">>], vv[<<"b">>], vv[<<"c">>])
    BY <1>4 DEF GateValue
  <2>6. MajorityOf(vv[<<"a">>], vv[<<"b">>], vv[<<"c">>]) \in BOOLEAN
    BY DEF MajorityOf
  <2>7. value = MajorityOf(v0[g.in[<<"a">>]], v0[g.in[<<"b">>]], v0[g.in[<<"c">>]])
    BY <1>3, <2>2, <2>5, <2>6
  <2> QED
    BY <2>3, <2>4, <2>7, VoterPasses
<1>5. CASE ~(g.type = <<"voter">> /\ p = <<"y">>)
  <2>1. symbol = <<"gate", g.type, p, ss>> /\ \A q \in DOMAIN ss : ss[q] # Unknown
    BY <1>2, <1>5 DEF Symbol
  <2>2. PutOutBy(N, v0, s0, symbol, value, g.type, p, g.in)
    <3>1. \A q \in DOMAIN g.in : g.in[q] \in N /\ s0[g.in[q]] # Unknown
      BY <2>1 DEF ReadsNets
    <3> QED
      BY <1>3, <2>1, <3>1 DEF PutOutBy
  <2> QED
    BY <2>2, Zenon DEF PutOut
<1> QED
  BY <1>4, <1>5

(* The conditions under which symbols explain values: the registers that   *)
(* are not broken have the values `abs' of the registers they stand for,   *)
(* and only a broken cell is hit.                                          *)
Determined(circ, rs, abs, hit, broken) ==
    /\ \A k \in Ids(circ.ffs) \ broken : rs[k] \in BOOLEAN /\ rs[k] = abs[Origin(k)]
    /\ hit = NoFault \/ hit \in broken

LEMMA SourceExplained ==
    ASSUME NEW circ, NEW names, WellFormed(circ, names), NEW ins,
           NEW rs, NEW abs, NEW hit, NEW z, NEW broken, Determined(circ, rs, abs, hit, broken),
           NEW x \in circ.nets, SymbolSource(circ, broken)[x] # Unknown
    PROVE  Given(SymbolSource(circ, broken)[x], ValueSource(circ, rs, ins, hit, z)[x], abs, ins)
<1> PICK symbol, value : /\ symbol = SymbolSource(circ, broken)[x]
                         /\ value = ValueSource(circ, rs, ins, hit, z)[x]
  OBVIOUS
<1>1. CASE x \in DOMAIN circ.registers
  <2> PICK k : k = circ.registers[x]
    OBVIOUS
  <2>1. k \in Ids(circ.ffs)
    BY <1>1 DEF WellFormed
  <2>2. k \notin broken /\ symbol = <<"register", Origin(k)>>
    BY <1>1 DEF SymbolSource
  <2>3. k # NoFault
    <3>1. PICK c \in circ.ffs : k = c.id
      BY <2>1 DEF Ids
    <3> QED
      BY <3>1 DEF WellFormed, Cells
  <2>4. k # hit
    BY <2>2, <2>3 DEF Determined
  <2>5. value = (rs[k] # (k = hit))
    BY <1>1 DEF ValueSource
  <2>6. rs[k] \in BOOLEAN /\ rs[k] = abs[Origin(k)]
    BY <2>1, <2>2 DEF Determined
  <2>7. value = abs[Origin(k)]
    BY <2>4, <2>5, <2>6
  <2> QED
    BY <2>2, <2>7 DEF Given
<1>2. CASE x \notin DOMAIN circ.registers /\ x \in DOMAIN circ.inputs
  <2>1. symbol = <<"input", <<circ.inputs[x][1]>>>> /\ value = ins[<<circ.inputs[x][1]>>]
    BY <1>2 DEF SymbolSource, ValueSource
  <2> QED
    BY <2>1 DEF Given
<1>3. CASE x \notin DOMAIN circ.registers /\ x \notin DOMAIN circ.inputs
  <2>1. symbol = <<"zero">> /\ value = FALSE
    BY <1>3 DEF SymbolSource, ValueSource
  <2> QED
    BY <2>1 DEF Given
<1> QED
  BY <1>1, <1>2, <1>3

LEMMA SymbolsExplain ==
    ASSUME NEW circ, NEW names, WellFormed(circ, names),
           NEW rs, NEW ins \in [names -> BOOLEAN], NEW hit, NEW z \in BOOLEAN,
           NEW abs, NEW broken, Determined(circ, rs, abs, hit, broken),
           NEW n \in Nat, n = Len(circ.levels),
           NEW v, ValueStages(circ, rs, ins, hit, z, n, v),
           NEW s, SymbolStages(circ, broken, n, s),
           NEW k \in 0..n, NEW x \in circ.nets, s[k][x] # Unknown
    PROVE  Explained(circ.nets, v, s, k, x, abs, ins)
<1>1. CASE k = 0
  <2>1. v[0] = ValueSource(circ, rs, ins, hit, z) /\ s[0] = SymbolSource(circ, broken)
    BY TableFact DEF ValueStages, SymbolStages
  <2> QED
    BY <1>1, <2>1, SourceExplained DEF Explained
<1>2. CASE k # 0
  <2> PICK level, v0, s0, v1, s1 : /\ level = circ.levels[k]
                                   /\ v0 = v[k - 1] /\ s0 = s[k - 1] /\ v1 = v[k] /\ s1 = s[k]
    OBVIOUS
  <2>1. v1 = ValueStep(hit, level, v0) /\ s1 = SymbolStep(broken, level, s0)
    BY <1>2 DEF ValueStages, SymbolStages
  <2>2. k - 1 \in 0..n
    BY <1>2
  <2>3. Defined(circ.nets, v0)
    BY <2>2, ValuesBoolean
  <2>6. circ.nets \subseteq DOMAIN s0
    BY <2>2, SymbolsDefined
  <2>4. CASE x \in Written(level)
    <3> PICK g, p : g = Driver(level, x) /\ p = PortOf(g, x)
      OBVIOUS
    <3>1. v1[x] = ValuePut(hit, g, p, v0)
      BY <2>1, <2>4, ValueStepWritten
    <3>2. s1[x] = SymbolPut(broken, g, p, s0)
      BY <2>1, <2>4, SymbolStepWritten
    <3>3. g \in Cells(circ)
      <4>1. g \in level
        BY <2>4, DriverFact
      <4>2. level \subseteq Gates(circ)
        BY <1>2, LevelsFact
      <4> QED
        BY <4>1, <4>2 DEF Cells
    <3>4. g.id # NoFault /\ ReadsNets(circ.nets, g)
      BY <3>3 DEF WellFormed, ReadsNets
    <3>5. hit # g.id \/ g.id \in broken
      BY <3>4 DEF Determined
    <3>6. s1[x] # Unknown
      OBVIOUS
    <3>7. Passes(circ.nets, v0, s0, s1[x], v1[x]) \/ PutOut(circ.nets, v0, s0, s1[x], v1[x])
      BY <2>3, <3>1, <3>2, <3>4, <3>5, <3>6, GateExplained
    <3> QED
      BY <1>2, <3>7 DEF Explained
  <2>5. CASE x \notin Written(level)
    <3>1. v1[x] = v0[x]
      <4>1. x \in DOMAIN v0
        BY <2>3 DEF Defined
      <4> QED
        BY <2>1, <2>5, <4>1, ValueStepKept
    <3>2. s1[x] = s0[x]
      BY <2>1, <2>5, <2>6, SymbolStepKept
    <3>3. Passes(circ.nets, v0, s0, s1[x], v1[x])
      BY <3>1, <3>2, Zenon DEF Passes
    <3> QED
      BY <1>2, <3>3 DEF Explained
  <2> QED
    BY <2>4, <2>5
<1> QED
  BY <1>1, <1>2

-----------------------------------------------------------------------------
(* Nets with the same known symbol have the same value, in one circuit as  *)
(* in two circuits.                                                        *)
Agree(N1, N2, v1, s1, v2, s2) ==
    \A x \in N1, y \in N2 : s1[x] = s2[y] /\ s1[x] # Unknown => v1[x] = v2[y]

LEMMA GivenSame ==
    ASSUME NEW symbol, NEW a, NEW b, NEW abs, NEW ins,
           Given(symbol, a, abs, ins), Given(symbol, b, abs, ins)
    PROVE  a = b
<1>1. CASE \E r : symbol = <<"register", r>> /\ a = abs[r]
  <2>1. symbol[1] = "register" /\ symbol[1] # "input" /\ symbol[1] # "zero" /\ a = abs[symbol[2]]
    BY <1>1
  <2> QED
    BY <2>1 DEF Given
<1>2. CASE \E w : symbol = <<"input", w>> /\ a = ins[w]
  <2>1. symbol[1] = "input" /\ symbol[1] # "register" /\ symbol[1] # "zero" /\ a = ins[symbol[2]]
    BY <1>2
  <2> QED
    BY <2>1 DEF Given
<1>3. CASE symbol = <<"zero">> /\ a = FALSE
  <2>1. symbol[1] = "zero" /\ symbol[1] # "register" /\ symbol[1] # "input"
    BY <1>3
  <2> QED
    BY <1>3, <2>1 DEF Given
<1> QED
  BY <1>1, <1>2, <1>3 DEF Given

LEMMA GivenNotPutOut ==
    ASSUME NEW symbol, NEW a, NEW b, NEW abs, NEW ins, Given(symbol, a, abs, ins),
           NEW N, NEW v0, NEW s0
    PROVE  ~PutOut(N, v0, s0, symbol, b)
<1>1. symbol[1] \in {"register", "input", "zero"}
  BY DEF Given
<1>2. ASSUME PutOut(N, v0, s0, symbol, b) PROVE symbol[1] = "gate"
  <2> PICK type, p, nets : PutOutBy(N, v0, s0, symbol, b, type, p, nets)
    BY <1>2, Zenon DEF PutOut
  <2> QED
    BY DEF PutOutBy
<1> QED
  BY <1>1, <1>2

LEMMA PutOutSame ==
    ASSUME NEW N1, NEW N2, NEW v1, NEW s1, NEW v2, NEW s2, Agree(N1, N2, v1, s1, v2, s2),
           NEW symbol, NEW a, NEW b,
           PutOut(N1, v1, s1, symbol, a), PutOut(N2, v2, s2, symbol, b)
    PROVE  a = b
<1> PICK type1, p1, nets1 : PutOutBy(N1, v1, s1, symbol, a, type1, p1, nets1)
  BY Zenon DEF PutOut
<1> PICK type2, p2, nets2 : PutOutBy(N2, v2, s2, symbol, b, type2, p2, nets2)
  BY Zenon DEF PutOut
<1> DEFINE ss1 == [q \in DOMAIN nets1 |-> s1[nets1[q]]]
           ss2 == [q \in DOMAIN nets2 |-> s2[nets2[q]]]
           vv1 == [q \in DOMAIN nets1 |-> v1[nets1[q]]]
           vv2 == [q \in DOMAIN nets2 |-> v2[nets2[q]]]
<1>1. <<"gate", type1, p1, ss1>> = <<"gate", type2, p2, ss2>>
  BY DEF PutOutBy
<1>2. type1 = type2 /\ p1 = p2 /\ ss1 = ss2
  <2> HIDE DEF ss1, ss2
  <2> QED
    BY <1>1
<1>3. DOMAIN nets1 = DOMAIN nets2
  <2>1. DOMAIN ss1 = DOMAIN nets1 /\ DOMAIN ss2 = DOMAIN nets2
    OBVIOUS
  <2> HIDE DEF ss1, ss2
  <2> QED
    BY <1>2, <2>1
<1>4. ASSUME NEW q \in DOMAIN nets1 PROVE v1[nets1[q]] = v2[nets2[q]]
  <2>1. ss1[q] = s1[nets1[q]] /\ ss2[q] = s2[nets2[q]]
    BY <1>3
  <2>2. s1[nets1[q]] = s2[nets2[q]]
    <3> HIDE DEF ss1, ss2
    <3> QED
      BY <1>2, <2>1
  <2>3. nets1[q] \in N1 /\ nets2[q] \in N2 /\ s1[nets1[q]] # Unknown
    BY <1>3 DEF PutOutBy
  <2> QED
    BY <2>2, <2>3 DEF Agree
<1>5. vv1 = vv2
  BY <1>3, <1>4
<1>6. a = (GateValue(type1, p1, vv1) # FALSE) /\ b = (GateValue(type2, p2, vv2) # FALSE)
  BY DEF PutOutBy
<1> HIDE DEF vv1, vv2
<1> QED
  BY <1>2, <1>5, <1>6

Holds(N, v, s, symbol, value) == \E y \in N : s[y] = symbol /\ v[y] = value

LEMMA PassesSame ==
    ASSUME NEW N1, NEW N2, NEW v1, NEW s1, NEW v2, NEW s2, Agree(N1, N2, v1, s1, v2, s2),
           NEW symbol, symbol # Unknown, NEW a, NEW b,
           Passes(N1, v1, s1, symbol, a), Holds(N2, v2, s2, symbol, b)
    PROVE  a = b
<1> PICK y1 \in N1, y2 \in N1 :
        s1[y1] = symbol /\ s1[y2] = symbol /\ (v1[y1] = v1[y2] => a = v1[y1])
  BY DEF Passes
<1> PICK y \in N2 : s2[y] = symbol /\ v2[y] = b
  BY DEF Holds
<1>1. v1[y1] = b /\ v1[y2] = b
  BY DEF Agree
<1> QED
  BY <1>1

Explains(N, n, v, s, abs, ins) ==
    \A k \in 0..n : \A x \in N : s[k][x] # Unknown => Explained(N, v, s, k, x, abs, ins)

AgreeUpTo(m, N1, n1, v1, s1, N2, n2, v2, s2) ==
    \A i \in 0..n1, j \in 0..n2 : i + j <= m => /\ Agree(N1, N2, v1[i], s1[i], v2[j], s2[j])
                                                /\ Agree(N2, N1, v2[j], s2[j], v1[i], s1[i])

LEMMA SameSymbolSameValue ==
    ASSUME NEW abs, NEW ins,
           NEW N1, NEW n1 \in Nat, NEW v1, NEW s1, Explains(N1, n1, v1, s1, abs, ins),
           NEW N2, NEW n2 \in Nat, NEW v2, NEW s2, Explains(N2, n2, v2, s2, abs, ins)
    PROVE  Agree(N1, N2, v1[n1], s1[n1], v2[n2], s2[n2])
<1> DEFINE S == {m \in 0..n1 + n2 : AgreeUpTo(m, N1, n1, v1, s1, N2, n2, v2, s2)}
<1>1. ASSUME NEW m \in 0..n1 + n2, m = 0 \/ m - 1 \in S PROVE m \in S
  <2>1. ASSUME NEW i \in 0..n1, NEW j \in 0..n2, i + j <= m, NEW x \in N1, NEW y \in N2,
               s1[i][x] = s2[j][y], s1[i][x] # Unknown
        PROVE  v1[i][x] = v2[j][y]
    <3> PICK symbol, a, b : symbol = s1[i][x] /\ a = v1[i][x] /\ b = v2[j][y]
      OBVIOUS
    <3>1. \/ Given(symbol, a, abs, ins)
          \/ i # 0 /\ Passes(N1, v1[i - 1], s1[i - 1], symbol, a)
          \/ i # 0 /\ PutOut(N1, v1[i - 1], s1[i - 1], symbol, a)
      <4>1. Explained(N1, v1, s1, i, x, abs, ins)
        BY <2>1 DEF Explains
      <4> QED
        BY <4>1, Zenon DEF Explained
    <3>2. \/ Given(symbol, b, abs, ins)
          \/ j # 0 /\ Passes(N2, v2[j - 1], s2[j - 1], symbol, b)
          \/ j # 0 /\ PutOut(N2, v2[j - 1], s2[j - 1], symbol, b)
      <4>1. s2[j][y] # Unknown
        BY <2>1
      <4>2. Explained(N2, v2, s2, j, y, abs, ins)
        BY <4>1 DEF Explains
      <4> QED
        BY <2>1, <4>2, Zenon DEF Explained
    <3>3. ASSUME NEW k \in 0..n1, NEW l \in 0..n2, k + l < i + j
          PROVE  /\ Agree(N1, N2, v1[k], s1[k], v2[l], s2[l])
                 /\ Agree(N2, N1, v2[l], s2[l], v1[k], s1[k])
      <4>1. m - 1 \in S /\ k + l <= m - 1
        BY <1>1, <2>1, <3>3
      <4> QED
        BY <4>1 DEF AgreeUpTo
    <3>4. CASE i # 0 /\ Passes(N1, v1[i - 1], s1[i - 1], symbol, a)
      <4>1. Agree(N1, N2, v1[i - 1], s1[i - 1], v2[j], s2[j])
        BY <3>3, <3>4
      <4>2. Holds(N2, v2[j], s2[j], symbol, b)
        BY <2>1, Zenon DEF Holds
      <4> QED
        BY <2>1, <3>4, <4>1, <4>2, PassesSame
    <3>5. CASE j # 0 /\ Passes(N2, v2[j - 1], s2[j - 1], symbol, b)
      <4>1. Agree(N2, N1, v2[j - 1], s2[j - 1], v1[i], s1[i])
        BY <3>3, <3>5
      <4>2. Holds(N1, v1[i], s1[i], symbol, a)
        BY Zenon DEF Holds
      <4> QED
        BY <2>1, <3>5, <4>1, <4>2, PassesSame
    <3>6. CASE /\ i # 0 /\ PutOut(N1, v1[i - 1], s1[i - 1], symbol, a)
               /\ j # 0 /\ PutOut(N2, v2[j - 1], s2[j - 1], symbol, b)
      <4>1. Agree(N1, N2, v1[i - 1], s1[i - 1], v2[j - 1], s2[j - 1])
        BY <3>3, <3>6
      <4>2. a = b
        BY <3>6, <4>1, PutOutSame
      <4> QED
        BY <4>2
    <3>7. CASE Given(symbol, a, abs, ins) /\ Given(symbol, b, abs, ins)
      BY <3>7, GivenSame
    <3>8. CASE Given(symbol, a, abs, ins) /\ j # 0 /\ PutOut(N2, v2[j - 1], s2[j - 1], symbol, b)
      BY <3>8, GivenNotPutOut
    <3>9. CASE Given(symbol, b, abs, ins) /\ i # 0 /\ PutOut(N1, v1[i - 1], s1[i - 1], symbol, a)
      BY <3>9, GivenNotPutOut
    <3> QED
      BY <3>1, <3>2, <3>4, <3>5, <3>6, <3>7, <3>8, <3>9, Zenon
  <2>2. ASSUME NEW i \in 0..n1, NEW j \in 0..n2, i + j <= m
        PROVE  /\ Agree(N1, N2, v1[i], s1[i], v2[j], s2[j])
               /\ Agree(N2, N1, v2[j], s2[j], v1[i], s1[i])
    <3>1. \A x \in N1, y \in N2 :
              s1[i][x] = s2[j][y] /\ s1[i][x] # Unknown => v1[i][x] = v2[j][y]
      BY <2>1, <2>2, Zenon
    <3> QED
      BY <3>1, Zenon DEF Agree
  <2> QED
    BY <2>2 DEF AgreeUpTo
<1>2. 0 \in S
  BY <1>1
<1>3. \A k \in 1..n1 + n2 : k - 1 \in S => k \in S
  BY <1>1
<1> HIDE DEF S
<1>4. n1 + n2 \in S
  BY <1>2, <1>3, LevelInduction
<1> USE DEF S
<1> QED
  BY <1>4 DEF AgreeUpTo

LEMMA CircuitExplained ==
    ASSUME NEW names, NEW ins \in [names -> BOOLEAN], NEW abs,
           NEW circ, WellFormed(circ, names), NEW rs, NEW hit, NEW z \in BOOLEAN,
           NEW broken, Determined(circ, rs, abs, hit, broken)
    PROVE  \E n \in Nat : \E v, s : /\ Explains(circ.nets, n, v, s, abs, ins)
                                    /\ Values(circ, rs, ins, hit, z) = v[n]
                                    /\ Symbols(circ, broken) = s[n]
<1> PICK n : n = Len(circ.levels)
  OBVIOUS
<1>1. n \in Nat
  BY LevelsFact
<1>2. PICK v : ValueStages(circ, rs, ins, hit, z, n, v) /\ Values(circ, rs, ins, hit, z) = v[n]
  BY <1>1, ValuesFact
<1>3. PICK s : SymbolStages(circ, broken, n, s) /\ Symbols(circ, broken) = s[n]
  BY <1>1, SymbolsFact
<1>4. ASSUME NEW k \in 0..n, NEW x \in circ.nets, s[k][x] # Unknown
      PROVE  Explained(circ.nets, v, s, k, x, abs, ins)
  BY <1>1, <1>2, <1>3, <1>4, SymbolsExplain
<1>5. Explains(circ.nets, n, v, s, abs, ins)
  BY <1>4 DEF Explains
<1> QED
  BY <1>1, <1>2, <1>3, <1>5

(* The point of symbols: nets of two circuits on the same inputs with the  *)
(* same known symbol have the same value, whatever broken cells put out.   *)
LEMMA SymbolsDetermineValues ==
    ASSUME NEW names, NEW ins \in [names -> BOOLEAN], NEW abs,
           NEW c1, WellFormed(c1, names), NEW r1, NEW h1, NEW z1 \in BOOLEAN,
           NEW b1, Determined(c1, r1, abs, h1, b1),
           NEW c2, WellFormed(c2, names), NEW r2, NEW h2, NEW z2 \in BOOLEAN,
           NEW b2, Determined(c2, r2, abs, h2, b2)
    PROVE  Agree(c1.nets, c2.nets, Values(c1, r1, ins, h1, z1), Symbols(c1, b1),
                 Values(c2, r2, ins, h2, z2), Symbols(c2, b2))
<1>1. PICK n1 \in Nat : \E v, s : /\ Explains(c1.nets, n1, v, s, abs, ins)
                                  /\ Values(c1, r1, ins, h1, z1) = v[n1]
                                  /\ Symbols(c1, b1) = s[n1]
  BY CircuitExplained
<1>2. PICK n2 \in Nat : \E v, s : /\ Explains(c2.nets, n2, v, s, abs, ins)
                                  /\ Values(c2, r2, ins, h2, z2) = v[n2]
                                  /\ Symbols(c2, b2) = s[n2]
  BY CircuitExplained
<1>3. PICK v1, s1 : /\ Explains(c1.nets, n1, v1, s1, abs, ins)
                    /\ Values(c1, r1, ins, h1, z1) = v1[n1] /\ Symbols(c1, b1) = s1[n1]
  BY <1>1
<1>4. PICK v2, s2 : /\ Explains(c2.nets, n2, v2, s2, abs, ins)
                    /\ Values(c2, r2, ins, h2, z2) = v2[n2] /\ Symbols(c2, b2) = s2[n2]
  BY <1>2
<1>5. Agree(c1.nets, c2.nets, v1[n1], s1[n1], v2[n2], s2[n2])
  BY <1>3, <1>4, SameSymbolSameValue
<1> QED
  BY <1>3, <1>4, <1>5

(* Every net has a Boolean value.                                          *)
LEMMA ValuesDefined ==
    ASSUME NEW names, NEW ins \in [names -> BOOLEAN], NEW circ, WellFormed(circ, names),
           NEW rs, NEW hit, NEW z \in BOOLEAN
    PROVE  Defined(circ.nets, Values(circ, rs, ins, hit, z))
<1> PICK n : n = Len(circ.levels)
  OBVIOUS
<1>1. n \in Nat
  BY LevelsFact
<1>2. PICK v : ValueStages(circ, rs, ins, hit, z, n, v) /\ Values(circ, rs, ins, hit, z) = v[n]
  BY <1>1, ValuesFact
<1>3. ValueStages(circ, rs, ins, hit, z, n, v)
  BY <1>2
<1>4. ASSUME NEW k \in 0..n PROVE Defined(circ.nets, v[k])
  BY <1>1, <1>3, ValuesBoolean
<1> QED
  BY <1>1, <1>2, <1>4

-----------------------------------------------------------------------------
(* One state of the expanded circuit `circ' and of the original `orig'.    *)
(* Only path p may be wrong: the registers of the other paths hold what    *)
(* the registers `abs' of the original hold, and no other cell is hit.     *)
OnlyPathWrong(circ, orig, names, rs, abs, hit, p) ==
    /\ Comparable(circ, orig, names)
    /\ rs \in [Ids(circ.ffs) -> BOOLEAN]
    /\ abs \in [Ids(orig.ffs) -> BOOLEAN]
    /\ \A k \in Ids(circ.ffs) : PathOf(k) # p => rs[k] = abs[Origin(k)]
    /\ hit = NoFault \/ hit \in OfPath(Ids(Cells(circ)), p)

LEMMA OriginalDetermined ==
    ASSUME NEW circ, NEW orig, NEW names, NEW rs, NEW abs, NEW hit, NEW p,
           OnlyPathWrong(circ, orig, names, rs, abs, hit, p)
    PROVE  Determined(orig, abs, abs, NoFault, {})
<1>1. ASSUME NEW k \in Ids(orig.ffs) PROVE abs[k] \in BOOLEAN /\ abs[k] = abs[Origin(k)]
  <2>1. Origin(k) = k
    BY DEF OnlyPathWrong, Comparable, Ids
  <2>2. abs \in [Ids(orig.ffs) -> BOOLEAN]
    BY DEF OnlyPathWrong
  <2> QED
    BY <2>1, <2>2
<1> QED
  BY <1>1 DEF Determined

LEMMA OthersDetermined ==
    ASSUME NEW circ, NEW orig, NEW names, NEW rs, NEW abs, NEW hit, NEW p, NEW broken,
           OnlyPathWrong(circ, orig, names, rs, abs, hit, p),
           OfPath(Ids(circ.ffs), p) \subseteq broken, hit = NoFault \/ hit \in broken
    PROVE  Determined(circ, rs, abs, hit, broken)
<1>1. ASSUME NEW k \in Ids(circ.ffs) \ broken PROVE rs[k] \in BOOLEAN /\ rs[k] = abs[Origin(k)]
  <2>1. PathOf(k) # p
    BY DEF OfPath
  <2>2. rs \in [Ids(circ.ffs) -> BOOLEAN] /\ rs[k] = abs[Origin(k)]
    BY <2>1 DEF OnlyPathWrong
  <2> QED
    BY <2>2
<1> QED
  BY <1>1 DEF Determined

(* Every net of either circuit with the same known symbol.                 *)
LEMMA MaskedAgree ==
    ASSUME NEW circ, NEW orig, NEW names, NEW rs, NEW abs, NEW hit, NEW p,
           OnlyPathWrong(circ, orig, names, rs, abs, hit, p),
           NEW ins \in [names -> BOOLEAN], NEW z \in BOOLEAN, NEW low \in BOOLEAN
    PROVE  Agree(circ.nets, orig.nets,
                 Values(circ, rs, ins, hit, z), Symbols(circ, OfPath(Ids(Cells(circ)), p)),
                 Values(orig, abs, ins, NoFault, low), Symbols(orig, {}))
<1> PICK broken, none, no :
        broken = OfPath(Ids(Cells(circ)), p) /\ none = {} /\ no = NoFault
  OBVIOUS
<1>1. OfPath(Ids(circ.ffs), p) \subseteq broken
  BY DEF OfPath, Ids, Cells
<1>2. hit = NoFault \/ hit \in broken
  BY DEF OnlyPathWrong
<1>3. Determined(circ, rs, abs, hit, broken)
  BY <1>1, <1>2, OthersDetermined
<1>4. Determined(orig, abs, abs, no, none)
  BY OriginalDetermined
<1>5. WellFormed(circ, names) /\ WellFormed(orig, names)
  BY DEF OnlyPathWrong, Comparable
<1>6. Agree(circ.nets, orig.nets, Values(circ, rs, ins, hit, z), Symbols(circ, broken),
            Values(orig, abs, ins, no, low), Symbols(orig, none))
  BY <1>3, <1>4, <1>5, SymbolsDetermineValues
<1> QED
  BY <1>6

LEMMA RestoredAgree ==
    ASSUME NEW circ, NEW orig, NEW names, NEW rs, NEW abs, NEW hit, NEW p,
           OnlyPathWrong(circ, orig, names, rs, abs, hit, p), hit = NoFault,
           NEW ins \in [names -> BOOLEAN], NEW z \in BOOLEAN, NEW low \in BOOLEAN
    PROVE  Agree(circ.nets, orig.nets,
                 Values(circ, rs, ins, hit, z), Symbols(circ, OfPath(Ids(circ.ffs), p)),
                 Values(orig, abs, ins, NoFault, low), Symbols(orig, {}))
<1> PICK broken, none, no :
        broken = OfPath(Ids(circ.ffs), p) /\ none = {} /\ no = NoFault
  OBVIOUS
<1>3. Determined(circ, rs, abs, hit, broken)
  BY OthersDetermined
<1>4. Determined(orig, abs, abs, no, none)
  BY OriginalDetermined
<1>5. WellFormed(circ, names) /\ WellFormed(orig, names)
  BY DEF OnlyPathWrong, Comparable
<1>6. Agree(circ.nets, orig.nets, Values(circ, rs, ins, hit, z), Symbols(circ, broken),
            Values(orig, abs, ins, no, low), Symbols(orig, none))
  BY <1>3, <1>4, <1>5, SymbolsDetermineValues
<1> QED
  BY <1>6

-----------------------------------------------------------------------------
(* Clocking.                                                               *)
ReadBy(c, v) == [q \in DOMAIN c.in |-> v[c.in[q]]]
Loaded(c, v) == NextState(v[c.out[<<"Q">>]], ReadBy(c, v))
ReadsOf(N, c) == \A q \in DOMAIN c.in : c.in[q] \in N

LEMMA ClockedFact ==
    ASSUME NEW circ, NEW v, NEW k \in Ids(circ.ffs)
    PROVE  \E c \in circ.ffs : c.id = k /\ Clocked(circ, v)[k] = Loaded(c, v)
<1> PICK c : c = CHOOSE m \in circ.ffs : m.id = k
  OBVIOUS
<1>1. \E m \in circ.ffs : m.id = k
  BY DEF Ids
<1>2. c \in circ.ffs /\ c.id = k
  BY <1>1
<1>3. k \in {m.id : m \in circ.ffs}
  BY DEF Ids
<1>4. Clocked(circ, v)[k] = Loaded(c, v)
  BY <1>3 DEF Clocked, Loaded, ReadBy
<1> QED
  BY <1>2, <1>4

LEMMA ClockedType ==
    ASSUME NEW circ, NEW v
    PROVE  Clocked(circ, v) \in [{c.id : c \in circ.ffs} -> BOOLEAN]
<1>1. \A old, w : NextState(old, w) \in BOOLEAN
  BY DEF NextState
<1> QED
  BY <1>1 DEF Clocked

(* Two flip-flops whose inputs have the same known symbols.                *)
LEMMA SameInputSameValues ==
    ASSUME NEW N1, NEW N2, NEW v, NEW sym, NEW w, NEW given, Agree(N1, N2, v, sym, w, given),
           NEW c, NEW o, SameInput(sym, c, given, o),
           ReadsOf(N1, c), ReadsOf(N2, o)
    PROVE  ReadBy(c, v) = ReadBy(o, w)
<1>1. DOMAIN c.in = DOMAIN o.in
  BY DEF SameInput
<1>2. ASSUME NEW q \in DOMAIN c.in PROVE v[c.in[q]] = w[o.in[q]]
  <2>1. sym[c.in[q]] = given[o.in[q]] /\ sym[c.in[q]] # Unknown
    BY DEF SameInput
  <2>2. c.in[q] \in N1 /\ o.in[q] \in N2
    BY <1>1 DEF ReadsOf
  <2> QED
    BY <2>1, <2>2 DEF Agree
<1> QED
  BY <1>1, <1>2 DEF ReadBy

(* The registers of the other paths are loaded as those of the original.   *)
LEMMA MaskedTick ==
    ASSUME NEW circ, NEW orig, NEW names, NEW rs, NEW abs, NEW hit, NEW p,
           OnlyPathWrong(circ, orig, names, rs, abs, hit, p), MasksPath(circ, orig, p),
           NEW ins \in [names -> BOOLEAN], NEW z \in BOOLEAN, NEW low \in BOOLEAN,
           NEW v, v = Values(circ, rs, ins, hit, z),
           NEW w, w = Values(orig, abs, ins, NoFault, low),
           NEW k \in Ids(circ.ffs), PathOf(k) # p
    PROVE  Origin(k) \in Ids(orig.ffs) /\ Clocked(circ, v)[k] = Clocked(orig, w)[Origin(k)]
<1> PICK sym, given : /\ sym = Symbols(circ, OfPath(Ids(Cells(circ)), p))
                      /\ given = Symbols(orig, {})
  OBVIOUS
<1>1. Agree(circ.nets, orig.nets, v, sym, w, given)
  BY MaskedAgree
<1>2. PICK c \in circ.ffs : c.id = k /\ Clocked(circ, v)[k] = Loaded(c, v)
  BY ClockedFact
<1>3. Origin(k) \in Ids(orig.ffs)
  BY <1>2 DEF OnlyPathWrong, Comparable
<1> PICK r : r = Origin(k)
  OBVIOUS
<1>4. PICK o \in orig.ffs : o.id = r /\ Clocked(orig, w)[r] = Loaded(o, w)
  BY <1>3, ClockedFact
<1>5. SameInput(sym, c, given, o) /\ SameHeld(sym, c, given, o)
  <2>1. PathOf(c.id) # p /\ o.id = Origin(c.id)
    BY <1>2, <1>4
  <2> QED
    BY <2>1 DEF MasksPath
<1>6. /\ ReadsOf(circ.nets, c) /\ ReadsOf(orig.nets, o)
      /\ c.out[<<"Q">>] \in circ.nets /\ o.out[<<"Q">>] \in orig.nets
  BY DEF OnlyPathWrong, Comparable, WellFormed, Cells, ReadsOf
<1>7. ReadBy(c, v) = ReadBy(o, w)
  <2> PICK N1, N2 : N1 = circ.nets /\ N2 = orig.nets
    OBVIOUS
  <2>1. /\ Agree(N1, N2, v, sym, w, given) /\ SameInput(sym, c, given, o)
        /\ ReadsOf(N1, c) /\ ReadsOf(N2, o)
    BY <1>1, <1>5, <1>6
  <2> QED
    BY <2>1, SameInputSameValues
<1>8. v[c.out[<<"Q">>]] = w[o.out[<<"Q">>]]
  <2>1. /\ sym[c.out[<<"Q">>]] = given[o.out[<<"Q">>]] /\ sym[c.out[<<"Q">>]] # Unknown
    BY <1>5 DEF SameHeld
  <2> QED
    BY <1>1, <1>6, <2>1 DEF Agree
<1> QED
  BY <1>2, <1>3, <1>4, <1>7, <1>8 DEF Loaded

(* All registers are, when they are clocked.                               *)
LEMMA RestoredTick ==
    ASSUME NEW circ, NEW orig, NEW names, NEW rs, NEW abs, NEW hit, NEW p,
           OnlyPathWrong(circ, orig, names, rs, abs, hit, p), RestoresPath(circ, orig, p),
           hit = NoFault, NEW ins \in [names -> BOOLEAN], NEW z \in BOOLEAN, NEW low \in BOOLEAN,
           NEW v, v = Values(circ, rs, ins, hit, z),
           NEW w, w = Values(orig, abs, ins, NoFault, low),
           \A c \in circ.ffs : v[c.in[<<"C">>]],
           NEW k \in Ids(circ.ffs)
    PROVE  Clocked(circ, v)[k] = Clocked(orig, w)[Origin(k)]
<1> PICK sym, given : /\ sym = Symbols(circ, OfPath(Ids(circ.ffs), p))
                      /\ given = Symbols(orig, {})
  OBVIOUS
<1>1. Agree(circ.nets, orig.nets, v, sym, w, given)
  BY RestoredAgree
<1>2. PICK c \in circ.ffs : c.id = k /\ Clocked(circ, v)[k] = Loaded(c, v)
  BY ClockedFact
<1>3. Origin(k) \in Ids(orig.ffs)
  BY <1>2 DEF OnlyPathWrong, Comparable
<1> PICK r : r = Origin(k)
  OBVIOUS
<1>4. PICK o \in orig.ffs : o.id = r /\ Clocked(orig, w)[r] = Loaded(o, w)
  BY <1>3, ClockedFact
<1>5. SameInput(sym, c, given, o)
  <2>1. o.id = Origin(c.id)
    BY <1>2, <1>4
  <2> QED
    BY <2>1 DEF RestoresPath
<1>6. /\ ReadsOf(circ.nets, c) /\ ReadsOf(orig.nets, o)
      /\ <<"C">> \in DOMAIN c.in
  BY DEF OnlyPathWrong, Comparable, WellFormed, Cells, ReadsOf
<1> PICK read : read = ReadBy(c, v)
  OBVIOUS
<1>7. ReadBy(c, v) = ReadBy(o, w)
  <2> PICK N1, N2 : N1 = circ.nets /\ N2 = orig.nets
    OBVIOUS
  <2>1. /\ Agree(N1, N2, v, sym, w, given) /\ SameInput(sym, c, given, o)
        /\ ReadsOf(N1, c) /\ ReadsOf(N2, o)
    BY <1>1, <1>5, <1>6
  <2> QED
    BY <2>1, SameInputSameValues
<1>8. read[<<"C">>]
  BY <1>6 DEF ReadBy
<1>9. \A a, b : NextState(a, read) = NextState(b, read)
  BY <1>8 DEF NextState
<1> QED
  BY <1>2, <1>4, <1>7, <1>9 DEF Loaded

(* The outputs are those of the original.                                  *)
OutputOf(circ, v, o) ==
    IF o \in DOMAIN circ.outputs THEN v[circ.outputs[o]]
    ELSE LET Port(i) == v[circ.outputs[Append(o, PathSuffix[i])]]
         IN  MajorityOf(Port(1), Port(2), Port(3))

LEMMA MaskedOutput ==
    ASSUME NEW circ, NEW orig, NEW names, NEW rs, NEW abs, NEW hit, NEW p,
           OnlyPathWrong(circ, orig, names, rs, abs, hit, p), MasksPath(circ, orig, p),
           NEW ins \in [names -> BOOLEAN], NEW z \in BOOLEAN, NEW low \in BOOLEAN,
           NEW v, v = Values(circ, rs, ins, hit, z),
           NEW w, w = Values(orig, abs, ins, NoFault, low),
           NEW o \in DOMAIN orig.outputs
    PROVE  OutputOf(circ, v, o) = w[orig.outputs[o]]
<1> PICK sym, given : /\ sym = Symbols(circ, OfPath(Ids(Cells(circ)), p))
                      /\ given = Symbols(orig, {})
  OBVIOUS
<1>1. Agree(circ.nets, orig.nets, v, sym, w, given)
  BY MaskedAgree
<1>2. SameOutput(circ, sym, orig, given, o)
  BY DEF MasksPath
<1>3. /\ \A i \in DOMAIN circ.outputs : circ.outputs[i] \in circ.nets
      /\ orig.outputs[o] \in orig.nets
      /\ WellFormed(circ, names)
  BY DEF OnlyPathWrong, Comparable, WellFormed
<1>4. Defined(circ.nets, v)
  BY <1>3, ValuesDefined
<1>5. \A x \in circ.nets : sym[x] = given[orig.outputs[o]] => v[x] = w[orig.outputs[o]]
  BY <1>1, <1>2, <1>3 DEF Agree, SameOutput
<1>6. CASE o \in DOMAIN circ.outputs
  <2>1. sym[circ.outputs[o]] = given[orig.outputs[o]]
    BY <1>2, <1>6 DEF SameOutput
  <2> QED
    BY <1>3, <1>5, <1>6, <2>1 DEF OutputOf
<1>7. CASE o \notin DOMAIN circ.outputs
  <2> PICK port1, port2, port3 : /\ port1 = circ.outputs[Append(o, PathSuffix[1])]
                                 /\ port2 = circ.outputs[Append(o, PathSuffix[2])]
                                 /\ port3 = circ.outputs[Append(o, PathSuffix[3])]
    OBVIOUS
  <2>1. /\ \A i \in 1..3 : Append(o, PathSuffix[i]) \in DOMAIN circ.outputs
        /\ Majority(sym[port1], sym[port2], sym[port3]) = given[orig.outputs[o]]
        /\ given[orig.outputs[o]] # Unknown
    BY <1>2, <1>7 DEF SameOutput
  <2>2. port1 \in circ.nets /\ port2 \in circ.nets /\ port3 \in circ.nets
    BY <1>3, <2>1
  <2> PICK b : b = w[orig.outputs[o]]
    OBVIOUS
  <2>3. \/ v[port1] = b /\ v[port2] = b
        \/ v[port1] = b /\ v[port3] = b
        \/ v[port2] = b /\ v[port3] = b
    BY <1>5, <2>1, <2>2 DEF Majority
  <2>4. v[port1] \in BOOLEAN /\ v[port2] \in BOOLEAN /\ v[port3] \in BOOLEAN
    BY <1>4, <2>2 DEF Defined
  <2>5. MajorityOf(v[port1], v[port2], v[port3]) = b
    BY <2>3, <2>4, MajorityFact, Zenon
  <2>6. OutputOf(circ, v, o) = MajorityOf(v[port1], v[port2], v[port3])
    BY <1>7 DEF OutputOf
  <2> QED
    BY <2>5, <2>6
<1> QED
  BY <1>6, <1>7

(* A value that most copies have is the majority value.                    *)
LEMMA MajorityOfCopies ==
    ASSUME NEW S, IsFiniteSet(S), NEW T, T \subseteq S, 2 * Cardinality(T) < Cardinality(S),
           NEW rs, NEW b \in BOOLEAN, \A k \in S \ T : rs[k] <=> b
    PROVE  (2 * Cardinality({k \in S : rs[k]}) > Cardinality(S)) <=> b
<1> DEFINE ones == {k \in S : rs[k]}
<1>1. IsFiniteSet(T) /\ Cardinality(T) \in Nat /\ Cardinality(S) \in Nat
  BY FS_Subset, FS_CardinalityType
<1>2. ones \subseteq S /\ IsFiniteSet(ones) /\ Cardinality(ones) \in Nat
  BY FS_Subset, FS_CardinalityType
<1>3. CASE b
  <2>1. S \ T \subseteq ones
    BY <1>3
  <2>2. Cardinality(S \ T) = Cardinality(S) - Cardinality(S \cap T)
    BY FS_Difference
  <2>3. S \cap T = T
    OBVIOUS
  <2>4. Cardinality(S \ T) <= Cardinality(ones)
    <3> HIDE DEF ones
    <3> QED
      BY <1>2, <2>1, FS_Subset
  <2> HIDE DEF ones
  <2> PICK n, t, m : n = Cardinality(S) /\ t = Cardinality(T) /\ m = Cardinality(ones)
    OBVIOUS
  <2>6. n \in Nat /\ t \in Nat /\ m \in Nat /\ n - t <= m /\ 2 * t < n
    BY <1>1, <1>2, <2>2, <2>3, <2>4
  <2>5. 2 * m > n
    BY <2>6
  <2> QED
    BY <1>3, <2>5 DEF ones
<1>4. CASE ~b
  <2>1. ones \subseteq T
    BY <1>4
  <2>2. Cardinality(ones) <= Cardinality(T)
    <3> HIDE DEF ones
    <3> QED
      BY <1>1, <2>1, FS_Subset
  <2> HIDE DEF ones
  <2>3. ~(2 * Cardinality(ones) > Cardinality(S))
    BY <1>1, <1>2, <2>2
  <2> QED
    BY <1>4, <2>3 DEF ones
<1> QED
  BY <1>3, <1>4

-----------------------------------------------------------------------------
(* The registers as an observer of the copies `rs' sees them.              *)
ConsensusOf(rs, r) ==
    2 * Cardinality({k \in {j \in DOMAIN rs : Origin(j) = r} : rs[k]})
        > Cardinality({j \in DOMAIN rs : Origin(j) = r})

ObservedBy(orig, rs) == [r \in Ids(orig.ffs) |-> ConsensusOf(rs, r)]

LEMMA ConsensusBoolean == ASSUME NEW rs, NEW r PROVE ConsensusOf(rs, r) \in BOOLEAN
BY DEF ConsensusOf

LEMMA ConsensusOfMost ==
    ASSUME NEW circ, NEW orig, NEW names, NEW rs, NEW abs, NEW hit, NEW p,
           OnlyPathWrong(circ, orig, names, rs, abs, hit, p), MasksPath(circ, orig, p)
    PROVE  ObservedBy(orig, rs) = abs
<1>1. ASSUME NEW r \in Ids(orig.ffs) PROVE ConsensusOf(rs, r) <=> abs[r]
  <2> DEFINE S == Copies(circ, r)
             T == OfPath(S, p)
  <2>1. S = {j \in DOMAIN rs : Origin(j) = r}
    <3>1. DOMAIN rs = Ids(circ.ffs)
      BY DEF OnlyPathWrong
    <3> QED
      BY <3>1 DEF Copies
  <2>2. IsFiniteSet(S)
    <3>1. IsFiniteSet(circ.ffs)
      BY DEF OnlyPathWrong, Comparable
    <3> DEFINE f == [c \in circ.ffs |-> c.id]
    <3>2. f \in Surjection(circ.ffs, Ids(circ.ffs))
      BY DEF Surjection, Ids
    <3>3. IsFiniteSet(Ids(circ.ffs))
      BY <3>1, <3>2, FS_Surjection
    <3> QED
      BY <3>3, FS_Subset DEF Copies
  <2>3. T \subseteq S
    BY DEF OfPath
  <2>4. 2 * Cardinality(T) < Cardinality(S)
    BY DEF MasksPath
  <2>5. ASSUME NEW k \in S \ T PROVE rs[k] = abs[r]
    <3>1. k \in Ids(circ.ffs) /\ PathOf(k) # p /\ Origin(k) = r
      BY DEF OfPath, Copies
    <3> QED
      BY <3>1 DEF OnlyPathWrong
  <2> PICK b : b = abs[r]
    OBVIOUS
  <2>6. b \in BOOLEAN
    BY DEF OnlyPathWrong
  <2>7. \A k \in S \ T : rs[k] <=> b
    BY <2>5
  <2> HIDE DEF S, T
  <2>8. (2 * Cardinality({k \in S : rs[k]}) > Cardinality(S)) <=> b
    BY <2>2, <2>3, <2>4, <2>6, <2>7, MajorityOfCopies
  <2> QED
    BY <2>1, <2>8 DEF ConsensusOf
<1>2. abs \in [Ids(orig.ffs) -> BOOLEAN]
  BY DEF OnlyPathWrong
<1>3. \A r \in Ids(orig.ffs) : ConsensusOf(rs, r) = abs[r]
  BY <1>1, <1>2, ConsensusBoolean
<1> QED
  BY <1>2, <1>3 DEF ObservedBy

(* A state of the running circuit in which at most one path is wrong.      *)
MaskedState(circ, orig, names, rs, i, v, hit, z) ==
    /\ Comparable(circ, orig, names)
    /\ \A p \in PathSuffixes : MasksPath(circ, orig, p)
    /\ i \in [names -> BOOLEAN]
    /\ z \in BOOLEAN
    /\ v = Values(circ, rs, i, hit, z)
    /\ \E p \in PathSuffixes : OnlyPathWrong(circ, orig, names, rs, ObservedBy(orig, rs), hit, p)

LEMMA ResetType ==
    ASSUME NEW circ
    PROVE  /\ ResetState(circ) \in [Ids(circ.ffs) -> BOOLEAN]
           /\ \A k \in Ids(circ.ffs) : ~ResetState(circ)[k]
BY DEF ResetState, Ids

LEMMA MaskedStart ==
    ASSUME NEW circ, NEW orig, NEW names, Comparable(circ, orig, names),
           \A p \in PathSuffixes : MasksPath(circ, orig, p),
           NEW i \in [names -> BOOLEAN], NEW z \in BOOLEAN,
           NEW rs, rs = ResetState(circ), NEW v, v = Values(circ, rs, i, NoFault, z)
    PROVE  /\ MaskedState(circ, orig, names, rs, i, v, NoFault, z)
           /\ ObservedBy(orig, rs) = ResetState(orig)
<1> PICK abs, p, no : abs = ResetState(orig) /\ p = PathSuffix[1] /\ no = NoFault
  OBVIOUS
<1>1. p \in PathSuffixes
  BY DEF PathSuffixes
<1>2. rs \in [Ids(circ.ffs) -> BOOLEAN] /\ \A k \in Ids(circ.ffs) : ~rs[k]
  BY ResetType
<1>3. abs \in [Ids(orig.ffs) -> BOOLEAN] /\ \A k \in Ids(orig.ffs) : ~abs[k]
  BY ResetType
<1>4. ASSUME NEW k \in Ids(circ.ffs) PROVE rs[k] = abs[Origin(k)]
  <2>1. Origin(k) \in Ids(orig.ffs)
    BY DEF Comparable, Ids
  <2> QED
    BY <1>2, <1>3, <2>1
<1>5. OnlyPathWrong(circ, orig, names, rs, abs, no, p)
  BY <1>2, <1>3, <1>4 DEF OnlyPathWrong
<1>6. ObservedBy(orig, rs) = abs
  BY <1>1, <1>5, ConsensusOfMost
<1> QED
  BY <1>1, <1>5, <1>6 DEF MaskedState

LEMMA MaskedTicks ==
    ASSUME NEW circ, NEW orig, NEW names, NEW rs, NEW i, NEW v, NEW hit, NEW z,
           MaskedState(circ, orig, names, rs, i, v, hit, z), NEW low \in BOOLEAN,
           NEW w, w = Values(orig, ObservedBy(orig, rs), i, NoFault, low),
           NEW j \in [names -> BOOLEAN],
           NEW rs2, rs2 = Clocked(circ, v), NEW v2, v2 = Values(circ, rs2, j, NoFault, z)
    PROVE  /\ MaskedState(circ, orig, names, rs2, j, v2, NoFault, z)
           /\ ObservedBy(orig, rs2) = Clocked(orig, w)
<1> PICK p \in PathSuffixes : OnlyPathWrong(circ, orig, names, rs, ObservedBy(orig, rs), hit, p)
  BY DEF MaskedState
<1> PICK abs, abs2, no : abs = ObservedBy(orig, rs) /\ abs2 = Clocked(orig, w) /\ no = NoFault
  OBVIOUS
<1>1. /\ Comparable(circ, orig, names) /\ MasksPath(circ, orig, p)
      /\ i \in [names -> BOOLEAN] /\ z \in BOOLEAN /\ v = Values(circ, rs, i, hit, z)
  BY DEF MaskedState
<1>2. rs2 \in [Ids(circ.ffs) -> BOOLEAN] /\ abs2 \in [Ids(orig.ffs) -> BOOLEAN]
  BY ClockedType DEF Ids
<1>3. w = Values(orig, abs, i, NoFault, low) /\ OnlyPathWrong(circ, orig, names, rs, abs, hit, p)
  OBVIOUS
<1>4. ASSUME NEW k \in Ids(circ.ffs), PathOf(k) # p PROVE rs2[k] = abs2[Origin(k)]
  BY <1>1, <1>3, <1>4, MaskedTick
<1>5. OnlyPathWrong(circ, orig, names, rs2, abs2, no, p)
  BY <1>1, <1>2, <1>4 DEF OnlyPathWrong
<1>6. ObservedBy(orig, rs2) = abs2
  BY <1>1, <1>5, ConsensusOfMost
<1>7. MaskedState(circ, orig, names, rs2, j, v2, no, z)
  BY <1>1, <1>5, <1>6 DEF MaskedState
<1> QED
  BY <1>6, <1>7

LEMMA MaskedUpset ==
    ASSUME NEW circ, NEW orig, NEW names, NEW rs, NEW i, NEW v, NEW hit, NEW z,
           MaskedState(circ, orig, names, rs, i, v, hit, z),
           NEW g \in Ids(Cells(circ)), PathOf(g) # "",
           \A k \in Ids(circ.ffs) : rs[k] # ConsensusOf(rs, Origin(k)) => PathOf(k) = PathOf(g),
           NEW v2, v2 = Values(circ, rs, i, g, z)
    PROVE  MaskedState(circ, orig, names, rs, i, v2, g, z)
<1> PICK p, abs : p = PathOf(g) /\ abs = ObservedBy(orig, rs)
  OBVIOUS
<1>1. Comparable(circ, orig, names) /\ i \in [names -> BOOLEAN] /\ z \in BOOLEAN
  BY DEF MaskedState
<1>2. p \in PathSuffixes
  BY <1>1 DEF Comparable, WellFormed, Ids
<1>3. rs \in [Ids(circ.ffs) -> BOOLEAN]
  BY DEF MaskedState, OnlyPathWrong
<1>4. abs \in [Ids(orig.ffs) -> BOOLEAN]
  BY ConsensusBoolean DEF ObservedBy
<1>5. ASSUME NEW k \in Ids(circ.ffs), PathOf(k) # p PROVE rs[k] = abs[Origin(k)]
  <2>1. Origin(k) \in Ids(orig.ffs)
    BY <1>1 DEF Comparable, Ids
  <2>2. rs[k] = ConsensusOf(rs, Origin(k))
    BY <1>5
  <2> QED
    BY <2>1, <2>2 DEF ObservedBy
<1>6. OnlyPathWrong(circ, orig, names, rs, abs, g, p)
  BY <1>1, <1>3, <1>4, <1>5 DEF OnlyPathWrong, OfPath
<1> QED
  BY <1>1, <1>2, <1>6 DEF MaskedState

LEMMA MaskedOut ==
    ASSUME NEW circ, NEW orig, NEW names, NEW rs, NEW i, NEW v, NEW hit, NEW z,
           MaskedState(circ, orig, names, rs, i, v, hit, z), NEW low \in BOOLEAN,
           NEW w, w = Values(orig, ObservedBy(orig, rs), i, NoFault, low),
           NEW o \in DOMAIN orig.outputs
    PROVE  OutputOf(circ, v, o) = w[orig.outputs[o]]
<1> PICK p \in PathSuffixes : OnlyPathWrong(circ, orig, names, rs, ObservedBy(orig, rs), hit, p)
  BY DEF MaskedState
<1> PICK abs : abs = ObservedBy(orig, rs)
  OBVIOUS
<1>1. /\ MasksPath(circ, orig, p)
      /\ i \in [names -> BOOLEAN] /\ z \in BOOLEAN /\ v = Values(circ, rs, i, hit, z)
  BY DEF MaskedState
<1>2. w = Values(orig, abs, i, NoFault, low) /\ OnlyPathWrong(circ, orig, names, rs, abs, hit, p)
  OBVIOUS
<1> QED
  BY <1>1, <1>2, MaskedOutput

LEMMA MaskedRestored ==
    ASSUME NEW circ, NEW orig, NEW names, NEW rs, NEW i, NEW v, NEW hit, NEW z,
           MaskedState(circ, orig, names, rs, i, v, hit, z), hit = NoFault,
           \A p \in PathSuffixes : RestoresPath(circ, orig, p),
           \A c \in circ.ffs : v[c.in[<<"C">>]],
           NEW rs2, rs2 = Clocked(circ, v), NEW k \in Ids(circ.ffs)
    PROVE  rs2[k] = ConsensusOf(rs2, Origin(k))
<1> PICK p \in PathSuffixes : OnlyPathWrong(circ, orig, names, rs, ObservedBy(orig, rs), hit, p)
  BY DEF MaskedState
<1> PICK low : low \in BOOLEAN
  OBVIOUS
<1> PICK abs, w : abs = ObservedBy(orig, rs) /\ w = Values(orig, abs, i, NoFault, low)
  OBVIOUS
<1> PICK abs2 : abs2 = Clocked(orig, w)
  OBVIOUS
<1>1. /\ Comparable(circ, orig, names) /\ MasksPath(circ, orig, p) /\ RestoresPath(circ, orig, p)
      /\ i \in [names -> BOOLEAN] /\ z \in BOOLEAN /\ v = Values(circ, rs, i, hit, z)
  BY DEF MaskedState
<1>2. rs2 \in [Ids(circ.ffs) -> BOOLEAN] /\ abs2 \in [Ids(orig.ffs) -> BOOLEAN]
  BY ClockedType DEF Ids
<1>3. OnlyPathWrong(circ, orig, names, rs, abs, hit, p)
  OBVIOUS
<1>4. ASSUME NEW m \in Ids(circ.ffs) PROVE rs2[m] = abs2[Origin(m)]
  BY <1>1, <1>3, <1>4, RestoredTick
<1>5. OnlyPathWrong(circ, orig, names, rs2, abs2, hit, p)
  BY <1>1, <1>2, <1>4 DEF OnlyPathWrong
<1>6. ObservedBy(orig, rs2) = abs2
  BY <1>1, <1>5, ConsensusOfMost
<1>7. Origin(k) \in Ids(orig.ffs)
  BY <1>1 DEF Comparable, Ids
<1> QED
  BY <1>4, <1>6, <1>7 DEF ObservedBy

-----------------------------------------------------------------------------
(* The type invariant.                                                     *)
Typed ==
    /\ TypeOK
    /\ phase = "connect" => {"cells", "orig"} \subseteq DOMAIN work
    /\ ~Running => fault = NoFault

LEMMA TypedInit == Init => Typed
<1> SUFFICES ASSUME Init PROVE Typed
  OBVIOUS
<1>1. choice \in Designs /\ phase = "process" /\ todo = DOMAIN choice.mods /\ fault = NoFault
  BY DEF Init
<1>2. flat = golden /\ regs = ResetState(golden)
  BY DEF Init
<1>3. regs \in Bits({c.id : c \in flat.ffs})
  BY <1>2 DEF ResetState, Bits
<1>4. in \in Stimuli
  <2> PICK names, clocks : /\ names = {<<p[1]>> : p \in choice.mods[choice.top].inp}
                           /\ clocks = Cfg(choice.top).clkNames
    OBVIOUS
  <2>1. in = [w \in names |-> w \in clocks]
    BY DEF Init
  <2>2. \A w \in names : (w \in clocks) \in BOOLEAN
    OBVIOUS
  <2>3. in \in [names -> BOOLEAN] /\ \A w \in DOMAIN in : w \in clocks => in[w]
    BY <2>1, <2>2
  <2> QED
    BY <2>3 DEF Stimuli
<1>5. float \in BOOLEAN
  BY DEF Init
<1> QED
  BY <1>1, <1>3, <1>4, <1>5 DEF Typed, TypeOK, Running

(* Before the circuit runs, the steps of the pass leave the circuit alone. *)
LEMMA TypedPass ==
    ASSUME Typed, UNCHANGED <<choice, golden, circuit>>, ~Running, ~Running',
           todo' \subseteq todo, phase' \in {"process", "connect", "aborted"},
           phase' = "connect" => /\ {"cells", "orig"} \subseteq DOMAIN work'
                                 /\ work'.cells \subseteq DOMAIN work'.orig.cells
    PROVE  Typed'
<1>1. /\ choice' = choice /\ flat' = flat /\ regs' = regs /\ in' = in /\ fault' = fault
      /\ float' = float
  BY DEF circuit
<1>2. Stimuli' = Stimuli
  BY <1>1 DEF Stimuli, Cfg
<1> QED
  BY <1>1, <1>2 DEF Typed, TypeOK, Bits, Gates, Running

LEMMA TypedNext == Typed /\ [Next]_vars => Typed'
<1> SUFFICES ASSUME Typed, [Next]_vars PROVE Typed'
  OBVIOUS
<1>1. ASSUME NEW n \in todo, SkipModule(n) PROVE Typed'
  BY <1>1, TypedPass DEF SkipModule, Ready, Running
<1>2. ASSUME NEW n \in todo, StartLogic(n) PROVE Typed'
  <2>1. work' = [target |-> Target(n), name |-> n, orig |-> design[n],
                 cells |-> Submodules(design, n),
                 st |-> State(Duplicated(design, design[n], Cfg(n)), {})]
    BY <1>2 DEF StartLogic
  <2>2. /\ {"cells", "orig"} \subseteq DOMAIN work'
        /\ work'.cells \subseteq DOMAIN work'.orig.cells
    BY <2>1 DEF Submodules
  <2>3. /\ UNCHANGED <<choice, golden, circuit>> /\ todo' \subseteq todo
        /\ phase = "process" /\ phase' = "connect"
    BY <1>2 DEF StartLogic, Ready
  <2> QED
    BY <2>2, <2>3, TypedPass DEF Running
<1>3. ASSUME NEW n \in todo, ExpandFull(n) PROVE Typed'
  <2>1. /\ UNCHANGED <<choice, golden, circuit>> /\ todo' \subseteq todo
        /\ phase = "process" /\ phase' \in {"process", "aborted"}
    BY <1>3 DEF ExpandFull, Ready
  <2> QED
    BY <2>1, TypedPass DEF Running
<1>4. ASSUME phase = "connect", NEW c \in work.cells, ConnectSubmodule(c) PROVE Typed'
  <2>1. PICK st : work' = [work EXCEPT !.st = st, !.cells = @ \ {c}]
    BY <1>4 DEF ConnectSubmodule
  <2>2. {"cells", "orig"} \subseteq DOMAIN work /\ work.cells \subseteq DOMAIN work.orig.cells
    BY <1>4 DEF Typed, TypeOK
  <2>3. /\ {"cells", "orig"} \subseteq DOMAIN work'
        /\ work'.cells = work.cells \ {c} /\ work'.orig = work.orig
    BY <2>1, <2>2
  <2>4. /\ UNCHANGED <<choice, golden, circuit>> /\ todo' \subseteq todo
        /\ phase = "connect" /\ phase' \in {"connect", "aborted"}
    BY <1>4 DEF ConnectSubmodule
  <2> QED
    BY <2>2, <2>3, <2>4, TypedPass DEF Running
<1>5. ASSUME FinishLogic PROVE Typed'
  <2>1. /\ UNCHANGED <<choice, golden, circuit>> /\ todo' \subseteq todo
        /\ phase = "connect" /\ phase' \in {"process", "aborted"}
    BY <1>5 DEF FinishLogic
  <2> QED
    BY <2>1, TypedPass DEF Running
<1>6. ASSUME PowerOn PROVE Typed'
  <2>1. /\ choice' = choice /\ todo' = todo /\ in' = in /\ fault' = fault
        /\ phase = "process" /\ phase' = "run" /\ regs' = ResetState(flat')
    BY <1>6 DEF PowerOn
  <2>2. float' \in BOOLEAN
    <3>1. float' \in (IF flat'.floating = {} THEN {FALSE} ELSE BOOLEAN)
      BY <1>6 DEF PowerOn
    <3> QED
      BY <3>1
  <2>3. regs' \in Bits({c.id : c \in flat'.ffs})
    BY <2>1 DEF ResetState, Bits
  <2>4. Stimuli' = Stimuli
    BY <2>1 DEF Stimuli, Cfg
  <2> QED
    BY <2>1, <2>2, <2>3, <2>4 DEF Typed, TypeOK, Running
<1>7. ASSUME phase = "run", NEW i \in Stimuli, Tick(i) PROVE Typed'
  <2>1. /\ choice' = choice /\ todo' = todo /\ flat' = flat /\ float' = float
        /\ phase' = "run" /\ regs' = Clocked(flat, val) /\ in' = i /\ fault' = NoFault
    BY <1>7 DEF Tick, expansion
  <2>2. regs' \in Bits({c.id : c \in flat'.ffs})
    BY <2>1, ClockedType DEF Bits
  <2>4. Stimuli' = Stimuli
    BY <2>1 DEF Stimuli, Cfg
  <2> QED
    BY <2>1, <2>2, <2>4 DEF Typed, TypeOK, Running
<1>8. ASSUME phase = "run", NEW g \in {c.id : c \in flat.ffs} \cup {c.id : c \in Gates(flat)},
             Upset(g)
      PROVE  Typed'
  <2>1. /\ choice' = choice /\ todo' = todo /\ flat' = flat /\ float' = float
        /\ phase' = "run" /\ regs' = regs /\ in' = in /\ fault' = g
    BY <1>8 DEF Upset, expansion
  <2>2. \E c \in flat.ffs \cup Gates(flat) : c.id = g
    BY <1>8
  <2>3. \E c \in flat'.ffs \cup Gates(flat') : c.id = fault'
    BY <2>1, <2>2
  <2>4. Stimuli' = Stimuli
    BY <2>1 DEF Stimuli, Cfg
  <2> QED
    BY <2>1, <2>3, <2>4 DEF Typed, TypeOK, Running
<1>9. CASE UNCHANGED vars
  <2>1. /\ choice' = choice /\ todo' = todo /\ flat' = flat /\ float' = float /\ work' = work
        /\ phase' = phase /\ regs' = regs /\ in' = in /\ fault' = fault
    BY <1>9 DEF vars, circuit
  <2>2. Stimuli' = Stimuli
    BY <2>1 DEF Stimuli, Cfg
  <2> QED
    BY <2>1, <2>2 DEF Typed, TypeOK, Bits, Gates, Running
<1> QED
  BY <1>1, <1>2, <1>3, <1>4, <1>5, <1>6, <1>7, <1>8, <1>9 DEF Next

(* Whatever the design and its configurations: the variables have their    *)
(* types, registers are those of the circuit, and only its cells fail.     *)
THEOREM CircuitTyped == Spec => []TypeOK
<1>1. Typed => TypeOK
  BY DEF Typed
<1> QED
  BY TypedInit, TypedNext, <1>1, PTL DEF Spec

-----------------------------------------------------------------------------
(* The invariant behind the refinement: before it is powered on, the       *)
(* circuit is the original after a reset; then at most one path is wrong.  *)
CircuitInvariant ==
    /\ Typed
    /\ ~Running => /\ regs = ResetState(golden)
                   /\ val = Values(golden, regs, in, NoFault, float) /\ ~float
    /\ Running => MaskedState(flat, golden, DOMAIN in, regs, in, val, fault, float)

LEMMA InputType == ASSUME NEW i \in Stimuli, NEW j \in Stimuli
                   PROVE  i \in [DOMAIN i -> BOOLEAN] /\ DOMAIN i = DOMAIN j
BY DEF Stimuli

LEMMA ObservedFact == ObservedRegs = IF Running THEN ObservedBy(golden, regs) ELSE regs
BY DEF ObservedRegs, ObservedBy, Consensus, ConsensusOf, Ids

LEMMA ObservedFactNext ==
    ObservedRegs' = IF Running' THEN ObservedBy(golden', regs') ELSE regs'
BY DEF ObservedRegs, ObservedBy, Consensus, ConsensusOf, Ids

LEMMA InvariantInit == Init => CircuitInvariant
<1> SUFFICES ASSUME Init PROVE CircuitInvariant
  OBVIOUS
<1>1. Typed
  BY TypedInit
<1>2. phase = "process" /\ regs = ResetState(golden) /\ float = FALSE
  BY DEF Init
<1>3. val = Values(golden, regs, in, NoFault, float)
  BY DEF Init
<1> QED
  BY <1>1, <1>2, <1>3 DEF CircuitInvariant, Running

LEMMA PowerOnMasked ==
    ASSUME CircuitInvariant, MasksEachPath', PowerOn, Typed'
    PROVE  /\ MaskedState(flat', golden', DOMAIN in', regs', in', val', fault', float')
           /\ ObservedBy(golden', regs') = regs
<1>1. /\ phase = "process" /\ phase' = "run" /\ in' = in /\ golden' = golden /\ fault' = fault
      /\ regs' = ResetState(flat') /\ val' = Values(flat', regs', in, NoFault, float')
  BY DEF PowerOn
<1>2. fault = NoFault /\ regs = ResetState(golden) /\ in \in Stimuli
  BY <1>1 DEF CircuitInvariant, Typed, TypeOK, Running
<1>3. float' \in BOOLEAN
  BY DEF Typed, TypeOK
<1>4. /\ Comparable(flat', golden, DOMAIN in)
      /\ \A p \in PathSuffixes : MasksPath(flat', golden, p)
  BY <1>1, <1>2 DEF MasksEachPath, PoweredOn, Running
<1> PICK circ, rs, v, z, names :
        circ = flat' /\ rs = regs' /\ v = val' /\ z = float' /\ names = DOMAIN in
  OBVIOUS
<1>5. in \in [names -> BOOLEAN]
  BY <1>2, InputType
<1>6. /\ MaskedState(circ, golden, names, rs, in, v, NoFault, z)
      /\ ObservedBy(golden, rs) = ResetState(golden)
  BY <1>1, <1>3, <1>4, <1>5, MaskedStart
<1> QED
  BY <1>1, <1>2, <1>6

LEMMA TickMasked ==
    ASSUME CircuitInvariant, phase = "run", NEW i \in Stimuli, Tick(i), NEW low \in BOOLEAN
    PROVE  /\ MaskedState(flat', golden', DOMAIN in', regs', in', val', fault', float')
           /\ ObservedBy(golden', regs')
                = Clocked(golden, Values(golden, ObservedBy(golden, regs), in, NoFault, low))
<1>1. /\ in' = i /\ flat' = flat /\ golden' = golden /\ fault' = NoFault /\ float' = float
      /\ regs' = Clocked(flat, val) /\ val' = Values(flat, regs', i, NoFault, float)
  BY DEF Tick
<1>2. MaskedState(flat, golden, DOMAIN in, regs, in, val, fault, float) /\ in \in Stimuli
  BY DEF CircuitInvariant, Typed, TypeOK, Running
<1> PICK names, rs2, v2, w :
        /\ names = DOMAIN in /\ rs2 = regs' /\ v2 = val'
        /\ w = Values(golden, ObservedBy(golden, regs), in, NoFault, low)
  OBVIOUS
<1>3. i \in [names -> BOOLEAN] /\ DOMAIN i = names
  BY <1>2, InputType
<1>4. /\ MaskedState(flat, golden, names, rs2, i, v2, NoFault, float)
      /\ ObservedBy(golden, rs2) = Clocked(golden, w)
  <2>1. MaskedState(flat, golden, names, regs, in, val, fault, float)
    BY <1>2
  <2>2. rs2 = Clocked(flat, val) /\ v2 = Values(flat, rs2, i, NoFault, float)
    BY <1>1
  <2> QED
    BY <1>3, <2>1, <2>2, MaskedTicks
<1> QED
  BY <1>1, <1>3, <1>4

LEMMA UpsetMasked ==
    ASSUME CircuitInvariant, phase = "run",
           NEW g \in {c.id : c \in flat.ffs} \cup {c.id : c \in Gates(flat)}, Upset(g)
    PROVE  MaskedState(flat', golden', DOMAIN in', regs', in', val', fault', float')
<1>1. /\ in' = in /\ flat' = flat /\ golden' = golden /\ fault' = g /\ float' = float
      /\ regs' = regs /\ val' = Values(flat, regs, in, g, float)
      /\ PathOf(g) # "" /\ Deviant \subseteq {PathOf(g)}
  BY DEF Upset
<1>2. MaskedState(flat, golden, DOMAIN in, regs, in, val, fault, float)
  BY DEF CircuitInvariant, Running
<1>3. g \in Ids(Cells(flat))
  BY DEF Ids, Cells
<1>4. DOMAIN regs = Ids(flat.ffs)
  BY DEF CircuitInvariant, Typed, TypeOK, Bits, Ids
<1>5. ASSUME NEW k \in Ids(flat.ffs), regs[k] # ConsensusOf(regs, Origin(k))
      PROVE  PathOf(k) = PathOf(g)
  <2>1. Consensus(Origin(k)) = ConsensusOf(regs, Origin(k))
    BY DEF Consensus, ConsensusOf
  <2>2. PathOf(k) \in Deviant
    BY <1>4, <1>5, <2>1 DEF Deviant
  <2> QED
    BY <1>1, <2>2
<1> PICK v2, names : v2 = val' /\ names = DOMAIN in
  OBVIOUS
<1>6. MaskedState(flat, golden, names, regs, in, v2, g, float)
  BY <1>1, <1>2, <1>3, <1>5, MaskedUpset
<1> QED
  BY <1>1, <1>6

(* A step of the pass, or none.                                            *)
LEMMA PassIdle ==
    ASSUME Typed, [Next]_vars, ~PowerOn, ~(phase = "run" /\ \E i \in Stimuli : Tick(i)),
           ~(phase = "run" /\ \E g \in {c.id : c \in flat.ffs} \cup {c.id : c \in Gates(flat)} : Upset(g))
    PROVE  UNCHANGED <<choice, golden, circuit>> /\ Running' = Running
<1>1. ASSUME NEW n \in todo, SkipModule(n) \/ StartLogic(n) \/ ExpandFull(n)
      PROVE  UNCHANGED <<choice, golden, circuit>> /\ Running' = Running
  BY <1>1 DEF SkipModule, StartLogic, ExpandFull, Ready, Running
<1>2. ASSUME NEW c \in work.cells, ConnectSubmodule(c)
      PROVE  UNCHANGED <<choice, golden, circuit>> /\ Running' = Running
  BY <1>2 DEF ConnectSubmodule, Running
<1>3. CASE FinishLogic
  BY <1>3 DEF FinishLogic, Running
<1>4. CASE UNCHANGED vars
  BY <1>4 DEF vars, Running
<1> QED
  BY <1>1, <1>2, <1>3, <1>4 DEF Next

LEMMA InvariantNext ==
    CircuitInvariant /\ MasksEachPath' /\ [Next]_vars => CircuitInvariant'
<1> SUFFICES ASSUME CircuitInvariant, MasksEachPath', [Next]_vars PROVE CircuitInvariant'
  OBVIOUS
<1>1. Typed /\ Typed'
  BY TypedNext DEF CircuitInvariant
<1>2. CASE PowerOn
  <2>1. MaskedState(flat', golden', DOMAIN in', regs', in', val', fault', float')
    BY <1>1, <1>2, PowerOnMasked
  <2>2. Running'
    BY <1>2 DEF PowerOn, Running
  <2> QED
    BY <1>1, <2>1, <2>2 DEF CircuitInvariant
<1>3. ASSUME phase = "run", NEW i \in Stimuli, Tick(i) PROVE CircuitInvariant'
  <2> PICK low : low \in BOOLEAN
    OBVIOUS
  <2>1. MaskedState(flat', golden', DOMAIN in', regs', in', val', fault', float')
    BY <1>3, TickMasked
  <2>2. Running'
    BY <1>3 DEF Tick, Running
  <2> QED
    BY <1>1, <2>1, <2>2 DEF CircuitInvariant
<1>4. ASSUME phase = "run", NEW g \in {c.id : c \in flat.ffs} \cup {c.id : c \in Gates(flat)},
             Upset(g)
      PROVE  CircuitInvariant'
  <2>1. MaskedState(flat', golden', DOMAIN in', regs', in', val', fault', float')
    BY <1>4, UpsetMasked
  <2>2. Running'
    BY <1>4 DEF Upset, Running
  <2> QED
    BY <1>1, <2>1, <2>2 DEF CircuitInvariant
<1>5. CASE UNCHANGED <<choice, golden, circuit>> /\ Running' = Running
  <2>1. /\ golden' = golden /\ flat' = flat /\ regs' = regs /\ in' = in /\ val' = val
        /\ fault' = fault /\ float' = float
    BY <1>5 DEF circuit
  <2> QED
    BY <1>1, <1>5, <2>1 DEF CircuitInvariant
<1> QED
  BY <1>1, <1>2, <1>3, <1>4, <1>5, PassIdle

-----------------------------------------------------------------------------
(* The refinement.                                                         *)
LEMMA OriginalValues ==
    ASSUME NEW circ, NEW rs, NEW i, NEW hit, NEW z
    PROVE  Original!Values(circ, rs, i, hit, z) = Values(circ, rs, i, hit, z)
BY DEF Original!Values, Values, Original!Evaluated, Evaluated, Original!Table, Table,
       Original!GateValue, GateValue, Original!MajorityOf, MajorityOf,
       Original!Disagree, Disagree, Original!DataOutput, DataOutput

LEMMA OriginalClocked ==
    ASSUME NEW circ, NEW v PROVE Original!Clocked(circ, v) = Clocked(circ, v)
BY DEF Original!Clocked, Clocked, Original!NextState, NextState

(* What the observer sees is always put out by the original.               *)
Seen ==
    IF Running THEN [o \in DOMAIN golden.outputs |-> ObservedOutput(o)]
    ELSE Outputs(golden, val)

SeenAsOriginal == Seen = Original!Observed(golden, ObservedRegs, in)

LEMMA SeenFact == CircuitInvariant => SeenAsOriginal
<1> SUFFICES ASSUME CircuitInvariant PROVE Seen = Original!Observed(golden, ObservedRegs, in)
  BY DEF SeenAsOriginal
<1> PICK low, rs : low = FALSE /\ rs = ObservedRegs
  OBVIOUS
<1> PICK w : w = Values(golden, rs, in, NoFault, low)
  OBVIOUS
<1>1. Original!Observed(golden, ObservedRegs, in)
        = [o \in DOMAIN golden.outputs |-> w[golden.outputs[o]]]
  <2>1. Original!Values(golden, rs, in, NoFault, low) = w
    BY OriginalValues
  <2>2. Original!NoFault = NoFault
    BY DEF Original!NoFault, NoFault
  <2> QED
    BY <2>1, <2>2 DEF Original!Observed, Original!Outputs
<1>2. CASE Running
  <2>1. MaskedState(flat, golden, DOMAIN in, regs, in, val, fault, float)
    BY <1>2 DEF CircuitInvariant
  <2>2. w = Values(golden, ObservedBy(golden, regs), in, NoFault, low)
    BY <1>2, ObservedFact
  <2>3. low \in BOOLEAN
    OBVIOUS
  <2>4. ASSUME NEW o \in DOMAIN golden.outputs PROVE ObservedOutput(o) = w[golden.outputs[o]]
    <3> PICK names : names = DOMAIN in
      OBVIOUS
    <3>1. OutputOf(flat, val, o) = w[golden.outputs[o]]
      BY <2>1, <2>2, <2>3, MaskedOut
    <3>2. OutputOf(flat, val, o) = ObservedOutput(o)
      BY DEF OutputOf, ObservedOutput
    <3> QED
      BY <3>1, <3>2
  <2> QED
    BY <1>1, <1>2, <2>4 DEF Seen
<1>3. CASE ~Running
  <2>1. float = low
    BY <1>3 DEF CircuitInvariant, Typed, TypeOK
  <2>2. ObservedRegs = regs /\ val = Values(golden, regs, in, NoFault, float)
    BY <1>3, ObservedFact DEF CircuitInvariant
  <2>3. val = w
    BY <2>1, <2>2
  <2> QED
    BY <1>1, <1>3, <2>3 DEF Seen, Outputs
<1> QED
  BY <1>2, <1>3

LEMMA SeenFactNext == CircuitInvariant' => SeenAsOriginal'
BY SeenFact, PTL

LEMMA RefinementInit == Init => Original!PoweredOn
<1> SUFFICES ASSUME Init PROVE Original!PoweredOn
  OBVIOUS
<1>1. CircuitInvariant /\ ~Running /\ regs = ResetState(golden)
  BY InvariantInit DEF Init, Running
<1>2. ObservedRegs = regs
  BY <1>1, ObservedFact
<1>3. Seen = Original!Observed(golden, ObservedRegs, in)
  BY <1>1, SeenFact DEF SeenAsOriginal
<1>4. ObservedRegs = [r \in {c.id : c \in golden.ffs} |-> FALSE]
  BY <1>1, <1>2 DEF ResetState
<1> QED
  BY <1>3, <1>4 DEF Original!PoweredOn, Seen

(* The observer sees a step of the original when the clock ticks, and      *)
(* nothing when the circuit is powered on or a cell is hit.                *)
LEMMA RefinementNext ==
    CircuitInvariant /\ CircuitInvariant' /\ MasksEachPath' /\ [Next]_vars =>
        [Original!Tick]_<<golden, ObservedRegs, in, Seen>>
<1> SUFFICES ASSUME CircuitInvariant, CircuitInvariant', MasksEachPath', [Next]_vars
             PROVE  [Original!Tick]_<<golden, ObservedRegs, in, Seen>>
  OBVIOUS
<1>1. Seen = Original!Observed(golden, ObservedRegs, in)
  BY SeenFact DEF SeenAsOriginal
<1>2. Seen' = Original!Observed(golden', ObservedRegs', in')
  BY SeenFactNext DEF SeenAsOriginal
<1>3. ASSUME golden' = golden, ObservedRegs' = ObservedRegs, in' = in
      PROVE  UNCHANGED <<golden, ObservedRegs, in, Seen>>
  BY <1>1, <1>2, <1>3
<1>4. CASE PowerOn
  <2>1. ObservedBy(golden', regs') = regs
    BY <1>4, PowerOnMasked DEF CircuitInvariant
  <2>2. ~Running /\ Running' /\ golden' = golden /\ in' = in
    BY <1>4 DEF PowerOn, Running
  <2> QED
    BY <1>3, <2>1, <2>2, ObservedFact, ObservedFactNext
<1>5. ASSUME phase = "run", NEW i \in Stimuli, Tick(i) PROVE Original!Tick
  <2> PICK low : low = FALSE
    OBVIOUS
  <2> PICK w : w = Values(golden, ObservedBy(golden, regs), in, NoFault, low)
    OBVIOUS
  <2>1. low \in BOOLEAN
    OBVIOUS
  <2>2. ObservedBy(golden', regs') = Clocked(golden, w)
    BY <1>5, <2>1, TickMasked
  <2>3. Running /\ Running' /\ golden' = golden /\ in' = i
    BY <1>5 DEF Tick, Running
  <2>4. DOMAIN in' = DOMAIN in
    BY <2>3, InputType DEF CircuitInvariant, Typed, TypeOK
  <2>5. Original!Following(golden, ObservedRegs, in) = Clocked(golden, w)
    <3>1. ObservedRegs = ObservedBy(golden, regs)
      BY <2>3, ObservedFact
    <3> PICK rs : rs = ObservedRegs
      OBVIOUS
    <3>2. Original!Values(golden, rs, in, NoFault, low) = w
      BY <3>1, OriginalValues
    <3>3. Original!NoFault = NoFault
      BY DEF Original!NoFault, NoFault
    <3>4. Original!Following(golden, ObservedRegs, in) = Original!Clocked(golden, w)
      BY <3>2, <3>3 DEF Original!Following
    <3> QED
      BY <3>4, OriginalClocked
  <2>6. ObservedRegs' = Original!Following(golden, ObservedRegs, in)
    BY <2>2, <2>3, <2>5, ObservedFactNext
  <2> QED
    BY <1>2, <2>3, <2>4, <2>6 DEF Original!Tick, Seen
<1>6. ASSUME phase = "run", NEW g \in {c.id : c \in flat.ffs} \cup {c.id : c \in Gates(flat)},
             Upset(g)
      PROVE  UNCHANGED <<golden, ObservedRegs, in, Seen>>
  <2>1. Running' = Running /\ golden' = golden /\ regs' = regs /\ in' = in
    BY <1>6 DEF Upset, Running
  <2> QED
    BY <1>3, <2>1, ObservedFact, ObservedFactNext
<1>7. CASE UNCHANGED <<choice, golden, circuit>> /\ Running' = Running
  <2>1. golden' = golden /\ regs' = regs /\ in' = in
    BY <1>7 DEF circuit
  <2> QED
    BY <1>3, <1>7, <2>1, ObservedFact, ObservedFactNext
<1>8. Typed
  BY DEF CircuitInvariant
<1> QED
  BY <1>4, <1>5, <1>6, <1>7, <1>8, PassIdle

(* A circuit whose netlist masks each path when it is powered on behaves   *)
(* as the design the user wrote, for all time: for every input, whichever  *)
(* cells of one path put out wrong values and whenever they do.            *)
THEOREM MaskingRefines == Spec /\ []MasksEachPath => BehavesAsOriginal
<1> QED
  BY InvariantInit, InvariantNext, RefinementInit, RefinementNext, PTL
     DEF Spec, BehavesAsOriginal, Original!CircuitSpec, Seen

-----------------------------------------------------------------------------
(* Recovery.                                                               *)
Restoring ==
    Running /\ EveryRegisterVoted => \A p \in PathSuffixes : RestoresPath(flat, golden, p)

LEMMA RestoringNext ==
    Typed /\ Typed' /\ Restoring /\ RestoresEachPath' /\ [Next]_vars => Restoring'
<1> SUFFICES ASSUME Typed, Typed', Restoring, RestoresEachPath', [Next]_vars PROVE Restoring'
  OBVIOUS
<1>1. CASE PowerOn
  <2>1. phase' = "run" /\ fault' = fault /\ fault = NoFault /\ regs' = ResetState(flat')
    BY <1>1 DEF PowerOn, Typed, Running
  <2> QED
    BY <2>1 DEF Restoring, RestoresEachPath, PoweredOn, Running
<1>2. CASE choice' = choice /\ flat' = flat /\ golden' = golden /\ Running' = Running
  BY <1>2 DEF Restoring, EveryRegisterVoted, Cfg
<1>3. ASSUME phase = "run", NEW i \in Stimuli, Tick(i) PROVE Restoring'
  BY <1>2, <1>3 DEF Tick, Running
<1>4. ASSUME phase = "run", NEW g \in {c.id : c \in flat.ffs} \cup {c.id : c \in Gates(flat)},
             Upset(g)
      PROVE  Restoring'
  BY <1>2, <1>4 DEF Upset, Running
<1>5. CASE UNCHANGED <<choice, golden, circuit>> /\ Running' = Running
  BY <1>2, <1>5 DEF circuit
<1> QED
  BY <1>1, <1>3, <1>4, <1>5, PassIdle

LEMMA RecoversNext ==
    CircuitInvariant /\ Restoring /\ CircuitInvariant' /\ [Next]_vars => [Recovers]_vars
<1> SUFFICES ASSUME CircuitInvariant, Restoring, CircuitInvariant', [Next]_vars,
                    Running, fault = NoFault, fault' = NoFault,
                    EveryRegisterVoted, EveryRegisterClocked
             PROVE  Deviant' = {} \/ UNCHANGED vars
  BY DEF Recovers
<1>1. MaskedState(flat, golden, DOMAIN in, regs, in, val, fault, float)
  BY DEF CircuitInvariant
<1>2. ASSUME NEW i \in Stimuli, Tick(i) PROVE Deviant' = {}
  <2>1. regs' = Clocked(flat, val) /\ flat' = flat
    BY <1>2 DEF Tick
  <2> PICK rs2, names : rs2 = regs' /\ names = DOMAIN in
    OBVIOUS
  <2>2. /\ MaskedState(flat, golden, names, regs, in, val, fault, float)
        /\ \A p \in PathSuffixes : RestoresPath(flat, golden, p)
        /\ \A c \in flat.ffs : val[c.in[<<"C">>]]
        /\ rs2 = Clocked(flat, val)
    BY <1>1, <2>1 DEF Restoring, EveryRegisterClocked
  <2>3. \A k \in Ids(flat.ffs) : rs2[k] = ConsensusOf(rs2, Origin(k))
    BY <2>2, MaskedRestored
  <2>4. DOMAIN rs2 = Ids(flat.ffs)
    BY <2>2, ClockedType DEF Ids
  <2>5. \A k \in DOMAIN regs' : regs'[k] = Consensus(Origin(k))'
    BY <2>3, <2>4 DEF Consensus, ConsensusOf
  <2> QED
    BY <2>5 DEF Deviant
<1>3. ASSUME NEW g \in {c.id : c \in flat.ffs} \cup {c.id : c \in Gates(flat)}, Upset(g)
      PROVE  FALSE
  <2>1. fault' = g
    BY <1>3 DEF Upset
  <2>2. g \in Ids(Cells(flat))
    BY DEF Ids, Cells
  <2>3. g # NoFault
    BY <1>1, <2>2 DEF MaskedState, Comparable, WellFormed, Ids
  <2> QED
    BY <2>1, <2>3
<1>4. CASE [Next]_vars /\ ~(\E i \in Stimuli : Tick(i))
                       /\ ~(\E g \in {c.id : c \in flat.ffs} \cup {c.id : c \in Gates(flat)} : Upset(g))
  BY <1>4 DEF Next, SkipModule, StartLogic, ExpandFull, Ready, ConnectSubmodule, FinishLogic,
              PowerOn, Running
<1> QED
  BY <1>2, <1>3, <1>4

(* A circuit whose netlist also has voters after all registers loses every *)
(* deviation of a copy at the next tick without a fault.                   *)
THEOREM RestoringRecovers ==
    Spec /\ []MasksEachPath /\ []RestoresEachPath => RegistersRecover
<1>1. Init => Restoring
  BY DEF Init, Restoring, Running
<1>2. CircuitInvariant => Typed
  BY DEF CircuitInvariant
<1> QED
  BY InvariantInit, InvariantNext, RestoringNext, RecoversNext, <1>1, <1>2, PTL
     DEF Spec, RegistersRecover

-----------------------------------------------------------------------------
(* The error output.  What may raise a net, after each level.              *)
CauseSource(circ) ==
    [x \in circ.nets |->
        IF x \in DOMAIN circ.registers \cup DOMAIN circ.inputs THEN {Unknown}
        ELSE IF x \in circ.zeros THEN {} ELSE {Undriven}]

CausePut(g, p, causes) ==
    IF g.type = <<"voter">> /\ p = <<"err">> THEN {Compared(g)}
    ELSE IF g.type = <<"or">> /\ PathOf(g.id) = ""
    THEN UNION {causes[g.in[q]] : q \in DOMAIN g.in}
    ELSE {Unknown}

CauseStep(level, causes) ==
    Table([x \in Written(level) \cup DOMAIN causes |->
        IF x \notin Written(level) THEN causes[x]
        ELSE CausePut(Driver(level, x), PortOf(Driver(level, x), x), causes)])

CauseStages(circ, n, f) ==
    f = [k \in 0..n |-> IF k = 0 THEN Table(CauseSource(circ))
                        ELSE CauseStep(circ.levels[k], f[k - 1])]

LEMMA CauseStagesExist ==
    ASSUME NEW circ, NEW n \in Nat
    PROVE  \E f : CauseStages(circ, n, f)
<1> DEFINE S == {k \in 0..n : \E f : CauseStages(circ, k, f)}
           base == Table(CauseSource(circ))
<1>1. 0 \in S
  <2> DEFINE f == [k \in 0..0 |-> base]
  <2>1. f = [k \in 0..0 |-> IF k = 0 THEN base ELSE CauseStep(circ.levels[k], f[k - 1])]
    OBVIOUS
  <2> HIDE DEF f
  <2> QED
    BY <2>1 DEF CauseStages
<1>2. ASSUME NEW k \in 1..n, k - 1 \in S PROVE k \in S
  <2>1. PICK f : CauseStages(circ, k - 1, f)
    BY <1>2
  <2> DEFINE g == [i \in 0..k |-> IF i = k THEN CauseStep(circ.levels[k], f[k - 1]) ELSE f[i]]
  <2>2. f = [i \in 0..k - 1 |-> IF i = 0 THEN base ELSE CauseStep(circ.levels[i], f[i - 1])]
    BY <2>1 DEF CauseStages
  <2> HIDE DEF base
  <2>3. ASSUME NEW i \in 0..k
        PROVE  g[i] = IF i = 0 THEN base ELSE CauseStep(circ.levels[i], g[i - 1])
    <3>1. CASE i = k
      <4>1. g[k - 1] = f[k - 1] /\ k # 0
        OBVIOUS
      <4>2. g[k] = CauseStep(circ.levels[k], f[k - 1])
        OBVIOUS
      <4> HIDE DEF g
      <4> QED
        BY <3>1, <4>1, <4>2
    <3>2. CASE i # k
      <4>1. i \in 0..k - 1 /\ g[i] = f[i]
        BY <3>2
      <4>2. i # 0 => g[i - 1] = f[i - 1]
        BY <3>2
      <4>3. f[i] = IF i = 0 THEN base ELSE CauseStep(circ.levels[i], f[i - 1])
        BY <2>2, <4>1
      <4> HIDE DEF g
      <4> QED
        BY <4>1, <4>2, <4>3
    <3> QED
      BY <3>1, <3>2
  <2>4. g = [i \in 0..k |-> g[i]]
    OBVIOUS
  <2> HIDE DEF g
  <2>5. g = [i \in 0..k |-> IF i = 0 THEN base ELSE CauseStep(circ.levels[i], g[i - 1])]
    BY <2>3, <2>4
  <2> QED
    BY <2>5 DEF CauseStages, base
<1> HIDE DEF S
<1>3. n \in S
  BY <1>1, <1>2, LevelInduction
<1> QED
  BY <1>3 DEF S

(* `Causes' is the last stage.                                             *)
LEMMA CausesFact ==
    ASSUME NEW circ, Len(circ.levels) \in Nat
    PROVE  \E f : /\ CauseStages(circ, Len(circ.levels), f)
                  /\ Causes(circ) = f[Len(circ.levels)]
<1> DEFINE n == Len(circ.levels)
           f == CHOOSE h : h = [k \in 0..n |->
                    IF k = 0 THEN Table(CauseSource(circ))
                    ELSE CauseStep(circ.levels[k], h[k - 1])]
<1>1. Causes(circ) = f[n]
  BY Zenon DEF Causes, Evaluated, CauseStep, CausePut, CauseSource, Written, Driver, PortOf
<1>2. \E h : h = [k \in 0..n |-> IF k = 0 THEN Table(CauseSource(circ))
                    ELSE CauseStep(circ.levels[k], h[k - 1])]
  <2>1. PICK h : CauseStages(circ, n, h)
    BY CauseStagesExist
  <2> QED
    BY <2>1, Zenon DEF CauseStages
<1>3. f = [k \in 0..n |-> IF k = 0 THEN Table(CauseSource(circ))
                    ELSE CauseStep(circ.levels[k], f[k - 1])]
  BY <1>2, Zenon
<1> HIDE DEF f
<1> QED
  BY <1>1, <1>3 DEF CauseStages

LEMMA CauseStepDomain ==
    ASSUME NEW level, NEW c0
    PROVE  DOMAIN CauseStep(level, c0) = Written(level) \cup DOMAIN c0
BY TableFact DEF CauseStep

LEMMA CauseStepWritten ==
    ASSUME NEW level, NEW c0, NEW x \in Written(level)
    PROVE  CauseStep(level, c0)[x] = CausePut(Driver(level, x), PortOf(Driver(level, x), x), c0)
BY TableFact DEF CauseStep

LEMMA CauseStepKept ==
    ASSUME NEW level, NEW c0, NEW x \in DOMAIN c0, x \notin Written(level)
    PROVE  CauseStep(level, c0)[x] = c0[x]
BY TableFact DEF CauseStep

LEMMA CausesDefined ==
    ASSUME NEW circ, NEW n \in Nat, NEW c, CauseStages(circ, n, c)
    PROVE  \A k \in 0..n : circ.nets \subseteq DOMAIN c[k]
<1> DEFINE S == {k \in 0..n : circ.nets \subseteq DOMAIN c[k]}
<1>1. 0 \in S
  <2>1. c[0] = CauseSource(circ)
    BY TableFact DEF CauseStages
  <2> QED
    BY <2>1 DEF CauseSource
<1>2. ASSUME NEW k \in 1..n, k - 1 \in S PROVE k \in S
  <2>1. c[k] = CauseStep(circ.levels[k], c[k - 1])
    BY DEF CauseStages
  <2>2. DOMAIN c[k] = Written(circ.levels[k]) \cup DOMAIN c[k - 1]
    BY <2>1, CauseStepDomain
  <2> QED
    BY <1>2, <2>1, <2>2
<1> HIDE DEF S
<1>3. \A k \in 0..n : k \in S
  BY <1>1, <1>2, LevelInduction
<1> QED
  BY <1>3 DEF S

LEMMA LevelsDomain ==
    ASSUME NEW circ, NEW names, WellFormed(circ, names)
    PROVE  DOMAIN circ.levels = 1..Len(circ.levels)
<1> PICK levels, gates : levels = circ.levels /\ gates = Gates(circ)
  OBVIOUS
<1>1. circ.levels \in Seq(SUBSET Gates(circ))
  BY Zenon DEF WellFormed
<1>2. levels \in Seq(SUBSET gates)
  BY <1>1
<1>3. DOMAIN levels = 1..Len(levels)
  BY <1>2
<1> QED
  BY <1>3

(* What a gate reads has its final value when the gate is evaluated.       *)
Stable(circ, n, v) ==
    \A k \in 1..n : \A g \in circ.levels[k] : \A q \in DOMAIN g.in :
        g.in[q] \in circ.nets => v[k - 1][g.in[q]] = v[n][g.in[q]]

LEMMA SettledValue ==
    ASSUME NEW circ, NEW names, WellFormed(circ, names), Settled(circ),
           NEW rs, NEW ins \in [names -> BOOLEAN], NEW hit, NEW z \in BOOLEAN,
           NEW n \in Nat, n = Len(circ.levels),
           NEW v, ValueStages(circ, rs, ins, hit, z, n, v)
    PROVE  Stable(circ, n, v)
<1> SUFFICES ASSUME NEW k \in 1..n, NEW g \in circ.levels[k], NEW q \in DOMAIN g.in,
                    g.in[q] \in circ.nets
             PROVE  v[k - 1][g.in[q]] = v[n][g.in[q]]
  BY DEF Stable
<1> PICK x : x = g.in[q]
  OBVIOUS
<1> DEFINE S == {j \in 0..n : j >= k => v[j][x] = v[k - 1][x]}
<1>1. 0 \in S
  OBVIOUS
<1>2. ASSUME NEW j \in 1..n, j - 1 \in S PROVE j \in S
  <2>1. CASE j < k
    BY <2>1
  <2>2. CASE j >= k
    <3> PICK level, v0, v1 : level = circ.levels[j] /\ v0 = v[j - 1] /\ v1 = v[j]
      OBVIOUS
    <3>1. v1 = ValueStep(hit, level, v0)
      BY DEF ValueStages
    <3>2. x \notin Written(level)
      <4>1. DOMAIN circ.levels = 1..n
        BY LevelsDomain
      <4> QED
        BY <2>2, <4>1 DEF Settled
    <3>3. x \in DOMAIN v0
      <4>1. j - 1 \in 0..n
        OBVIOUS
      <4>2. \A i \in 0..n : Defined(circ.nets, v[i])
        BY ValuesBoolean
      <4> QED
        BY <4>1, <4>2 DEF Defined
    <3>4. v1[x] = v0[x]
      BY <3>1, <3>2, <3>3, ValueStepKept
    <3>5. v0[x] = v[k - 1][x]
      BY <1>2, <2>2
    <3> QED
      BY <3>4, <3>5
  <2> QED
    BY <2>1, <2>2
<1> HIDE DEF S
<1>3. \A j \in 0..n : j \in S
  BY <1>1, <1>2, LevelInduction
<1> QED
  BY <1>3 DEF S

(* A net is high if a voter among its causes sees a difference, and only   *)
(* then if nothing else is among them.                                     *)
VotersOf(circ) == {g \in Gates(circ) : g.type = <<"voter">>}
Differs(v, t)  == Disagree(v[t[1]], v[t[2]], v[t[3]])

Raised(circ, v, c) == \E g \in VotersOf(circ) : Compared(g) \in c /\ Differs(v, Compared(g))

Caused(circ, v, z, c, b) ==
    /\ Raised(circ, v, c) => b
    /\ b => Unknown \in c \/ (Undriven \in c /\ z) \/ Raised(circ, v, c)

LEMMA ComparedKnown ==
    ASSUME NEW g
    PROVE  Compared(g) # Unknown /\ Compared(g) # Undriven
<1> PICK a, b, c : a = g.in[<<"a">>] /\ b = g.in[<<"b">>] /\ c = g.in[<<"c">>]
  OBVIOUS
<1>1. Compared(g) = <<a, b, c>>
  BY DEF Compared
<1>2. Len(<<a, b, c>>) = 3 /\ Len(<<"unknown">>) = 1 /\ Len(<<"undriven">>) = 1
  OBVIOUS
<1> QED
  BY <1>1, <1>2 DEF Unknown, Undriven

LEMMA NotRaised ==
    ASSUME NEW circ, NEW v, NEW c \in SUBSET {Unknown, Undriven}
    PROVE  ~Raised(circ, v, c)
BY ComparedKnown DEF Raised

LEMMA SourceCaused ==
    ASSUME NEW circ, NEW rs, NEW ins, NEW hit, NEW z \in BOOLEAN, NEW v, NEW x \in circ.nets
    PROVE  Caused(circ, v, z, CauseSource(circ)[x], ValueSource(circ, rs, ins, hit, z)[x])
<1> PICK c, b : c = CauseSource(circ)[x] /\ b = ValueSource(circ, rs, ins, hit, z)[x]
  OBVIOUS
<1>1. ~Raised(circ, v, c)
  <2>1. c \in SUBSET {Unknown, Undriven}
    BY DEF CauseSource
  <2> QED
    BY <2>1, NotRaised
<1>2. \/ Unknown \in c
      \/ b = FALSE
      \/ Undriven \in c /\ b = z
  BY DEF CauseSource, ValueSource
<1> QED
  BY <1>1, <1>2 DEF Caused

(* The three kinds of gates: a voter, an OR that collects, any other.      *)
LEMMA VoterCaused ==
    ASSUME NEW circ, NEW g \in VotersOf(circ), NEW hit, NEW v0, NEW v, NEW z,
           v0[g.in[<<"a">>]] = v[g.in[<<"a">>]], v0[g.in[<<"b">>]] = v[g.in[<<"b">>]],
           v0[g.in[<<"c">>]] = v[g.in[<<"c">>]],
           {<<"a">>, <<"b">>, <<"c">>} \subseteq DOMAIN g.in
    PROVE  Caused(circ, v, z, {Compared(g)}, ValuePut(hit, g, <<"err">>, v0))
<1> PICK t : t = Compared(g)
  OBVIOUS
<1> PICK a, b, c : a = v[t[1]] /\ b = v[t[2]] /\ c = v[t[3]]
  OBVIOUS
<1>1. t[1] = g.in[<<"a">>] /\ t[2] = g.in[<<"b">>] /\ t[3] = g.in[<<"c">>]
  BY DEF Compared
<1>2. g.type = <<"voter">>
  BY DEF VotersOf
<1> DEFINE r == [q \in DOMAIN g.in |-> v0[g.in[q]]]
<1>3. r[<<"a">>] = a /\ r[<<"b">>] = b /\ r[<<"c">>] = c
  BY <1>1
<1> HIDE DEF r
<1>4. GateValue(<<"voter">>, <<"err">>, r) = Disagree(a, b, c)
  BY <1>3 DEF GateValue
<1>5. <<"err">> # DataOutput(<<"voter">>)
  BY DEF DataOutput
<1>6. ValuePut(hit, g, <<"err">>, v0) = (Disagree(a, b, c) # FALSE)
  BY <1>2, <1>4, <1>5 DEF ValuePut, r
<1>7. Differs(v, t) = Disagree(a, b, c)
  BY DEF Differs
<1>8. Raised(circ, v, {t}) <=> Differs(v, t)
  BY DEF Raised
<1> QED
  BY <1>6, <1>7, <1>8 DEF Caused, Disagree

LEMMA OrCaused ==
    ASSUME NEW circ, NEW g, NEW p, NEW hit, NEW v0, NEW c0, NEW v, NEW z,
           g.type = <<"or">>, hit # g.id,
           \A q \in DOMAIN g.in : Caused(circ, v, z, c0[g.in[q]], v0[g.in[q]])
    PROVE  Caused(circ, v, z, UNION {c0[g.in[q]] : q \in DOMAIN g.in}, ValuePut(hit, g, p, v0))
<1> PICK c, b : c = UNION {c0[g.in[q]] : q \in DOMAIN g.in} /\ b = ValuePut(hit, g, p, v0)
  OBVIOUS
<1>1. b <=> \E q \in DOMAIN g.in : v0[g.in[q]]
  <2> DEFINE r == [q \in DOMAIN g.in |-> v0[g.in[q]]]
  <2>1. GateValue(<<"or">>, p, r) = (\E q \in DOMAIN r : r[q])
    BY DEF GateValue
  <2>2. b = (GateValue(<<"or">>, p, r) # FALSE)
    BY DEF ValuePut
  <2>3. (\E q \in DOMAIN r : r[q]) <=> \E q \in DOMAIN g.in : v0[g.in[q]]
    OBVIOUS
  <2> HIDE DEF r
  <2> QED
    BY <2>1, <2>2, <2>3
<1>2. ASSUME Raised(circ, v, c) PROVE b
  <2>1. PICK h \in VotersOf(circ) : Compared(h) \in c /\ Differs(v, Compared(h))
    BY <1>2 DEF Raised
  <2>2. PICK q \in DOMAIN g.in : Compared(h) \in c0[g.in[q]]
    BY <2>1
  <2>3. Raised(circ, v, c0[g.in[q]])
    BY <2>1, <2>2, Zenon DEF Raised
  <2>4. v0[g.in[q]]
    BY <2>3 DEF Caused
  <2> QED
    BY <1>1, <2>4
<1>3. ASSUME b PROVE Unknown \in c \/ (Undriven \in c /\ z) \/ Raised(circ, v, c)
  <2>1. PICK q \in DOMAIN g.in : v0[g.in[q]]
    BY <1>1, <1>3
  <2> PICK one : one = c0[g.in[q]]
    OBVIOUS
  <2>2. one \subseteq c
    OBVIOUS
  <2>3. Unknown \in one \/ (Undriven \in one /\ z) \/ Raised(circ, v, one)
    BY <2>1 DEF Caused
  <2>4. Raised(circ, v, one) => Raised(circ, v, c)
    BY <2>2, Zenon DEF Raised
  <2> QED
    BY <2>2, <2>3, <2>4
<1> QED
  BY <1>2, <1>3 DEF Caused

LEMMA OtherCaused ==
    ASSUME NEW circ, NEW v, NEW z, NEW b
    PROVE  Caused(circ, v, z, {Unknown}, b)
<1>1. ~Raised(circ, v, {Unknown})
  BY NotRaised
<1> QED
  BY <1>1 DEF Caused

CausedBy(circ, v, z, c, u) == \A x \in circ.nets : Caused(circ, v, z, c[x], u[x])

(* The voter a net is read from, if it is the error signal of one, reads   *)
(* what it reads in the end.                                               *)
ReadsFinal(g, u, v) ==
    g.type = <<"voter">> =>
        \A q \in {<<"a">>, <<"b">>, <<"c">>} : q \in DOMAIN g.in /\ u[g.in[q]] = v[g.in[q]]

HitOnPath(hit, g) == hit = g.id => PathOf(g.id) # ""

LEMMA GateCaused ==
    ASSUME NEW circ, NEW g \in Gates(circ), NEW p, NEW hit, NEW v0, NEW c0, NEW v, NEW z,
           CausedBy(circ, v, z, c0, v0), ReadsNets(circ.nets, g), ReadsFinal(g, v0, v),
           HitOnPath(hit, g)
    PROVE  Caused(circ, v, z, CausePut(g, p, c0), ValuePut(hit, g, p, v0))
<1>1. CASE g.type = <<"voter">> /\ p = <<"err">>
  <2>1. g \in VotersOf(circ)
    BY <1>1 DEF VotersOf
  <2>2. /\ v0[g.in[<<"a">>]] = v[g.in[<<"a">>]] /\ v0[g.in[<<"b">>]] = v[g.in[<<"b">>]]
        /\ v0[g.in[<<"c">>]] = v[g.in[<<"c">>]]
        /\ {<<"a">>, <<"b">>, <<"c">>} \subseteq DOMAIN g.in
    BY <1>1 DEF ReadsFinal
  <2>3. Caused(circ, v, z, {Compared(g)}, ValuePut(hit, g, <<"err">>, v0))
    BY <2>1, <2>2, VoterCaused
  <2> QED
    BY <1>1, <2>3 DEF CausePut
<1>2. CASE ~(g.type = <<"voter">> /\ p = <<"err">>) /\ g.type = <<"or">> /\ PathOf(g.id) = ""
  <2>1. \A q \in DOMAIN g.in : Caused(circ, v, z, c0[g.in[q]], v0[g.in[q]])
    BY DEF CausedBy, ReadsNets
  <2>2. Caused(circ, v, z, UNION {c0[g.in[q]] : q \in DOMAIN g.in}, ValuePut(hit, g, p, v0))
    BY <1>2, <2>1, OrCaused DEF HitOnPath
  <2> QED
    BY <1>2, <2>2 DEF CausePut
<1>3. CASE /\ ~(g.type = <<"voter">> /\ p = <<"err">>)
           /\ ~(g.type = <<"or">> /\ PathOf(g.id) = "")
  BY <1>3, OtherCaused DEF CausePut
<1> QED
  BY <1>1, <1>2, <1>3

(* Cells that fail belong to a path.                                       *)
FailsOnPath(hit) == hit # NoFault => PathOf(hit) # ""

LEMMA CausesExplain ==
    ASSUME NEW circ, NEW names, WellFormed(circ, names), Settled(circ),
           NEW rs, NEW ins \in [names -> BOOLEAN], NEW hit, FailsOnPath(hit), NEW z \in BOOLEAN,
           NEW n \in Nat, n = Len(circ.levels),
           NEW v, ValueStages(circ, rs, ins, hit, z, n, v),
           NEW c, CauseStages(circ, n, c)
    PROVE  CausedBy(circ, v[n], z, c[n], v[n])
<1>a. \A i \in 0..n : Defined(circ.nets, v[i])
  BY ValuesBoolean
<1>b. Stable(circ, n, v)
  BY SettledValue
<1> PICK final : final = v[n]
  OBVIOUS
<1> DEFINE S == {k \in 0..n : CausedBy(circ, final, z, c[k], v[k])}
<1>1. 0 \in S
  <2>1. v[0] = ValueSource(circ, rs, ins, hit, z) /\ c[0] = CauseSource(circ)
    BY TableFact DEF ValueStages, CauseStages
  <2>2. CausedBy(circ, final, z, c[0], v[0])
    BY <2>1, SourceCaused DEF CausedBy
  <2> QED
    BY <2>2
<1>2. ASSUME NEW k \in 1..n, k - 1 \in S PROVE k \in S
  <2> PICK level, v0, c0, v1, c1 : /\ level = circ.levels[k]
                                   /\ v0 = v[k - 1] /\ c0 = c[k - 1] /\ v1 = v[k] /\ c1 = c[k]
    OBVIOUS
  <2>1. v1 = ValueStep(hit, level, v0) /\ c1 = CauseStep(level, c0)
    BY DEF ValueStages, CauseStages
  <2>2. k - 1 \in 0..n
    OBVIOUS
  <2>4. circ.nets \subseteq DOMAIN c0 /\ circ.nets \subseteq DOMAIN v0
    BY <1>a, <2>2, CausesDefined DEF Defined
  <2>5. CausedBy(circ, final, z, c0, v0)
    BY <1>2
  <2>6. ASSUME NEW x \in circ.nets PROVE Caused(circ, final, z, c1[x], v1[x])
    <3>1. CASE x \in Written(level)
      <4> PICK g, p : g = Driver(level, x) /\ p = PortOf(g, x)
        OBVIOUS
      <4>1. v1[x] = ValuePut(hit, g, p, v0)
        BY <2>1, <3>1, ValueStepWritten
      <4>2. c1[x] = CausePut(g, p, c0)
        BY <2>1, <3>1, CauseStepWritten
      <4>3. g \in level
        BY <3>1, DriverFact
      <4>4. g \in Gates(circ)
        BY <4>3, LevelsFact
      <4>5. g \in Cells(circ)
        BY <4>4 DEF Cells
      <4>6. /\ g.id # NoFault /\ ReadsNets(circ.nets, g)
            /\ g.type = <<"voter">> => {<<"a">>, <<"b">>, <<"c">>} \subseteq DOMAIN g.in
        BY <4>5 DEF WellFormed, ReadsNets
      <4>7. HitOnPath(hit, g)
        BY <4>6 DEF FailsOnPath, HitOnPath
      <4>8. ASSUME NEW q \in DOMAIN g.in PROVE v0[g.in[q]] = final[g.in[q]]
        <5>1. g.in[q] \in circ.nets
          BY <4>6 DEF ReadsNets
        <5>2. v[k - 1][g.in[q]] = v[n][g.in[q]]
          BY <1>b, <4>3, <5>1 DEF Stable
        <5> QED
          BY <5>2
      <4>9. ReadsFinal(g, v0, final)
        <5> SUFFICES ASSUME g.type = <<"voter">>, NEW q \in {<<"a">>, <<"b">>, <<"c">>}
                     PROVE  q \in DOMAIN g.in /\ v0[g.in[q]] = final[g.in[q]]
          BY Zenon DEF ReadsFinal
        <5>1. q \in DOMAIN g.in
          BY <4>6
        <5> QED
          BY <4>8, <5>1
      <4>10. ReadsNets(circ.nets, g)
        BY <4>6
      <4>11. Caused(circ, final, z, CausePut(g, p, c0), ValuePut(hit, g, p, v0))
        BY <2>5, <4>4, <4>7, <4>9, <4>10, GateCaused
      <4> QED
        BY <4>1, <4>2, <4>11
    <3>2. CASE x \notin Written(level)
      <4>1. v1[x] = v0[x]
        BY <2>1, <2>4, <3>2, ValueStepKept
      <4>2. c1[x] = c0[x]
        BY <2>1, <2>4, <3>2, CauseStepKept
      <4> QED
        BY <2>5, <4>1, <4>2 DEF CausedBy
    <3> QED
      BY <3>1, <3>2
  <2>7. CausedBy(circ, final, z, c1, v1)
    BY <2>6 DEF CausedBy
  <2> QED
    BY <2>7
<1> HIDE DEF S
<1>3. \A k \in 0..n : k \in S
  BY <1>1, <1>2, LevelInduction
<1> QED
  BY <1>3 DEF S

(* In a circuit that collects its errors, the error output is high if and, *)
(* unless nets without a driver are high, only if some voter disagrees.    *)
SomeDiffers(circ, v) == \E g \in VotersOf(circ) : Differs(v, Compared(g))

LEMMA CollectedReports ==
    ASSUME NEW circ, NEW names, WellFormed(circ, names), Settled(circ),
           NEW rs, NEW ins \in [names -> BOOLEAN], NEW hit, FailsOnPath(hit), NEW z \in BOOLEAN,
           NEW v, v = Values(circ, rs, ins, hit, z),
           NEW o \in DOMAIN circ.outputs, CollectsErrors(circ, o)
    PROVE  /\ SomeDiffers(circ, v) => v[circ.outputs[o]]
           /\ ~z /\ v[circ.outputs[o]] => SomeDiffers(circ, v)
<1> PICK n : n = Len(circ.levels)
  OBVIOUS
<1>1. n \in Nat
  BY LevelsFact
<1>2. PICK f : ValueStages(circ, rs, ins, hit, z, n, f) /\ v = f[n]
  BY <1>1, ValuesFact
<1>3. PICK c : CauseStages(circ, n, c) /\ Causes(circ) = c[n]
  BY <1>1, CausesFact
<1>4. CausedBy(circ, f[n], z, c[n], f[n])
  BY <1>1, <1>2, <1>3, CausesExplain
<1> PICK x, causes : x = circ.outputs[o] /\ causes = c[n][x]
  OBVIOUS
<1>5. x \in circ.nets
  BY DEF WellFormed
<1>6. Caused(circ, v, z, causes, v[x])
  BY <1>2, <1>4, <1>5 DEF CausedBy
<1>7. causes \ {Undriven} = {Compared(g) : g \in VotersOf(circ)}
  BY <1>3 DEF CollectsErrors, VotersOf
<1>8. Unknown \notin causes
  <2>1. Unknown # Undriven
    BY DEF Unknown, Undriven
  <2> QED
    BY <1>7, <2>1, ComparedKnown
<1>9. Raised(circ, v, causes) <=> SomeDiffers(circ, v)
  <2>1. \A g \in VotersOf(circ) : Compared(g) \in causes
    BY <1>7
  <2> QED
    BY <2>1, Zenon DEF Raised, SomeDiffers
<1> QED
  BY <1>6, <1>8, <1>9 DEF Caused

(* The netlist stays the one that was checked, and its values are those of *)
(* its registers and inputs while a cell on some path may fail.            *)
Reporting ==
    /\ Typed
    /\ Running => /\ WellFormed(flat, DOMAIN in) /\ Settled(flat)
                  /\ \A o \in ErrorOutputs : CollectsErrors(flat, o)
                  /\ FailsOnPath(fault)
                  /\ val = Values(flat, regs, in, fault, float)

LEMMA ReportingNext == Reporting /\ ErrorsCollected' /\ [Next]_vars => Reporting'
<1> SUFFICES ASSUME Reporting, ErrorsCollected', [Next]_vars PROVE Reporting'
  OBVIOUS
<1>1. Typed /\ Typed'
  BY TypedNext DEF Reporting
<1>2. CASE PowerOn
  <2>1. /\ phase = "process" /\ phase' = "run" /\ in' = in /\ fault' = fault
        /\ regs' = ResetState(flat') /\ val' = Values(flat', regs', in, NoFault, float')
    BY <1>2 DEF PowerOn
  <2>2. fault' = NoFault
    BY <1>1, <2>1 DEF Typed, Running
  <2>3. PoweredOn'
    BY <2>1, <2>2 DEF PoweredOn, Running
  <2> QED
    BY <1>1, <2>1, <2>2, <2>3 DEF Reporting, ErrorsCollected, FailsOnPath
<1>3. ASSUME Running, flat' = flat, design' = design, choice' = choice
      PROVE  /\ DOMAIN in' = DOMAIN in
             /\ WellFormed(flat', DOMAIN in') /\ Settled(flat')
             /\ \A o \in ErrorOutputs' : CollectsErrors(flat', o)
  <2>1. DOMAIN in' = DOMAIN in
    <3>1. in \in Stimuli /\ in' \in Stimuli'
      BY <1>1 DEF Typed, TypeOK
    <3>2. Stimuli' = Stimuli
      BY <1>3 DEF Stimuli, Cfg
    <3> QED
      BY <3>1, <3>2, InputType
  <2>2. ErrorOutputs' = ErrorOutputs
    BY <1>3 DEF ErrorOutputs, Cfg
  <2> QED
    BY <1>3, <2>1, <2>2 DEF Reporting
<1>4. ASSUME phase = "run", NEW i \in Stimuli, Tick(i) PROVE Reporting'
  <2>1. /\ flat' = flat /\ design' = design /\ choice' = choice /\ in' = i /\ fault' = NoFault
        /\ float' = float /\ val' = Values(flat, regs', i, NoFault, float)
    BY <1>4 DEF Tick, expansion
  <2> QED
    BY <1>1, <1>3, <1>4, <2>1 DEF Reporting, FailsOnPath, Running
<1>5. ASSUME phase = "run", NEW g \in {c.id : c \in flat.ffs} \cup {c.id : c \in Gates(flat)},
             Upset(g)
      PROVE  Reporting'
  <2>1. /\ flat' = flat /\ design' = design /\ choice' = choice /\ in' = in /\ fault' = g
        /\ float' = float /\ regs' = regs /\ val' = Values(flat, regs, in, g, float)
        /\ PathOf(g) # ""
    BY <1>5 DEF Upset, expansion
  <2> QED
    BY <1>1, <1>3, <1>5, <2>1 DEF Reporting, FailsOnPath, Running
<1>6. CASE UNCHANGED vars
  <2>1. /\ flat' = flat /\ design' = design /\ choice' = choice /\ in' = in /\ fault' = fault
        /\ float' = float /\ regs' = regs /\ val' = val /\ phase' = phase
    BY <1>6 DEF vars, circuit
  <2> QED
    BY <1>1, <1>3, <2>1 DEF Reporting, Running
<1>7. CASE ~Running /\ UNCHANGED <<choice, golden, circuit>> /\ Running' = Running
  BY <1>1, <1>7 DEF Reporting
<1>8. \/ PowerOn \/ (phase = "run" /\ \E i \in Stimuli : Tick(i)) \/ UNCHANGED vars
      \/ phase = "run" /\ \E g \in {c.id : c \in flat.ffs} \cup {c.id : c \in Gates(flat)} : Upset(g)
      \/ ~Running
  BY DEF Next, SkipModule, StartLogic, ExpandFull, Ready, ConnectSubmodule, FinishLogic, Running
<1> QED
  BY <1>1, <1>2, <1>4, <1>5, <1>6, <1>7, <1>8, PassIdle

LEMMA ReportingReports == Reporting => ErrorsReachTop /\ ErrorOnlyOnDisagreement
<1> SUFFICES ASSUME Reporting, Running, NEW o \in ErrorOutputs
             PROVE  /\ DisagreeingVoter => val[flat.outputs[o]]
                    /\ ~float /\ val[flat.outputs[o]] => DisagreeingVoter
  BY DEF ErrorsReachTop, ErrorOnlyOnDisagreement
<1> PICK names, v, z : names = DOMAIN in /\ v = val /\ z = float
  OBVIOUS
<1>1. in \in [names -> BOOLEAN] /\ z \in BOOLEAN
  BY InputType DEF Reporting, Typed, TypeOK
<1>2. /\ WellFormed(flat, names) /\ Settled(flat) /\ CollectsErrors(flat, o)
      /\ FailsOnPath(fault) /\ v = Values(flat, regs, in, fault, z)
  BY DEF Reporting
<1>3. o \in DOMAIN flat.outputs
  BY DEF ErrorOutputs
<1>4. /\ SomeDiffers(flat, v) => v[flat.outputs[o]]
      /\ ~z /\ v[flat.outputs[o]] => SomeDiffers(flat, v)
  BY <1>1, <1>2, <1>3, CollectedReports
<1>5. SomeDiffers(flat, v) <=> DisagreeingVoter
  <2>1. \A g \in VotersOf(flat) :
            Differs(v, Compared(g)) <=>
                Disagree(v[g.in[<<"a">>]], v[g.in[<<"b">>]], v[g.in[<<"c">>]])
    BY DEF Differs, Compared
  <2>2. VotersOf(flat) = Voters
    BY DEF VotersOf, Voters
  <2> QED
    BY <2>1, <2>2, Zenon DEF SomeDiffers, DisagreeingVoter
<1> QED
  BY <1>4, <1>5

(* In a circuit whose netlist collects all error signals when it is        *)
(* powered on, the error output of the top module is high whenever a voter *)
(* sees a difference, whatever the inputs and whichever cells fail.        *)
THEOREM ErrorsReported == Spec /\ []ErrorsCollected => []ErrorsReachTop
<1>1. Init => Reporting
  BY TypedInit DEF Init, Reporting, Running
<1>2. Reporting => ErrorsReachTop
  BY ReportingReports
<1> QED
  BY <1>1, <1>2, ReportingNext, PTL DEF Spec

(* ... and it is low while all voters agree, where nets without a driver   *)
(* read as 0.                                                              *)
THEOREM NoFalseErrors == Spec /\ []ErrorsCollected => []ErrorOnlyOnDisagreement
<1>1. Init => Reporting
  BY TypedInit DEF Init, Reporting, Running
<1>2. Reporting => ErrorOnlyOnDisagreement
  BY ReportingReports
<1> QED
  BY <1>1, <1>2, ReportingNext, PTL DEF Spec

-----------------------------------------------------------------------------
(* The control ports of custom voters.  A net with the symbol of an input  *)
(* has its value: compare the circuit with one that only has this input.   *)
LEMMA InputValue ==
    ASSUME NEW circ, NEW names, WellFormed(circ, names),
           NEW rs, NEW ins \in [names -> BOOLEAN], NEW hit, hit = NoFault, NEW z \in BOOLEAN,
           NEW v, v = Values(circ, rs, ins, hit, z),
           NEW sym, sym = Symbols(circ, Ids(circ.ffs)),
           NEW x \in circ.nets, NEW w, sym[x] = <<"input", w>>
    PROVE  v[x] = ins[w]
<1> PICK abs, broken : abs = rs /\ broken = Ids(circ.ffs)
  OBVIOUS
<1>1. Determined(circ, rs, abs, hit, broken)
  BY DEF Determined
<1>2. PICK n \in Nat : \E f, s : /\ Explains(circ.nets, n, f, s, abs, ins)
                                 /\ Values(circ, rs, ins, hit, z) = f[n]
                                 /\ Symbols(circ, broken) = s[n]
  BY <1>1, CircuitExplained
<1>3. PICK f, s : Explains(circ.nets, n, f, s, abs, ins) /\ v = f[n] /\ sym = s[n]
  BY <1>2
<1> PICK N, m, f2, s2 : /\ N = {x} /\ m = 0
                        /\ f2 = [k \in {0} |-> [y \in {x} |-> ins[w]]]
                        /\ s2 = [k \in {0} |-> [y \in {x} |-> <<"input", w>>]]
  OBVIOUS
<1>4. f2[m][x] = ins[w] /\ s2[m][x] = <<"input", w>>
  OBVIOUS
<1>5. Explains(N, m, f2, s2, abs, ins)
  <2>1. ASSUME NEW k \in 0..m, NEW y \in N PROVE Explained(N, f2, s2, k, y, abs, ins)
    <3>1. k = m /\ y = x
      OBVIOUS
    <3>2. Given(s2[m][x], f2[m][x], abs, ins)
      BY <1>4, Zenon DEF Given
    <3> QED
      BY <3>1, <3>2 DEF Explained
  <2> QED
    BY <2>1, Zenon DEF Explains
<1>6. Agree(circ.nets, N, f[n], s[n], f2[m], s2[m])
  <2>1. m \in Nat
    OBVIOUS
  <2> QED
    BY <1>3, <1>5, <2>1, SameSymbolSameValue
<1>7. sym[x] # Unknown
  <2>1. Len(<<"input", w>>) = 2 /\ Len(<<"unknown">>) = 1
    OBVIOUS
  <2> QED
    BY <2>1 DEF Unknown
<1>8. x \in N
  OBVIOUS
<1> QED
  BY <1>3, <1>4, <1>6, <1>7, <1>8 DEF Agree

Wired ==
    /\ Typed
    /\ Running => /\ WellFormed(flat, DOMAIN in)
                  /\ \A p \in KnownControls, v \in Voters :
                       /\ p \in DOMAIN v.in
                       /\ Symbols(flat, Ids(flat.ffs))[v.in[p]] = <<"input", ControlInput[p]>>
                  /\ val = Values(flat, regs, in, fault, float)

LEMMA WiredNext == Wired /\ VotersWired' /\ [Next]_vars => Wired'
<1> SUFFICES ASSUME Wired, VotersWired', [Next]_vars PROVE Wired'
  OBVIOUS
<1>1. Typed /\ Typed'
  BY TypedNext DEF Wired
<1>2. CASE PowerOn
  <2>1. /\ phase = "process" /\ phase' = "run" /\ in' = in /\ fault' = fault
        /\ regs' = ResetState(flat') /\ val' = Values(flat', regs', in, NoFault, float')
    BY <1>2 DEF PowerOn
  <2>2. fault' = NoFault
    BY <1>1, <2>1 DEF Typed, Running
  <2>3. PoweredOn'
    BY <2>1, <2>2 DEF PoweredOn, Running
  <2> QED
    BY <1>1, <2>1, <2>2, <2>3 DEF Wired, VotersWired
<1>3. ASSUME Running, flat' = flat, choice' = choice
      PROVE  /\ WellFormed(flat', DOMAIN in')
             /\ \A p \in KnownControls', v \in Voters' :
                  /\ p \in DOMAIN v.in
                  /\ Symbols(flat', Ids(flat'.ffs))[v.in[p]] = <<"input", ControlInput[p]>>
  <2>1. DOMAIN in' = DOMAIN in
    <3>1. in \in Stimuli /\ in' \in Stimuli'
      BY <1>1 DEF Typed, TypeOK
    <3>2. Stimuli' = Stimuli
      BY <1>3 DEF Stimuli, Cfg
    <3> QED
      BY <3>1, <3>2, InputType
  <2>2. KnownControls' = KnownControls /\ Voters' = Voters
    BY <1>3 DEF KnownControls, KnownControl, Cfg, Voters
  <2> QED
    BY <1>3, <2>1, <2>2 DEF Wired
<1>4. ASSUME phase = "run", NEW i \in Stimuli, Tick(i) PROVE Wired'
  <2>1. /\ flat' = flat /\ choice' = choice /\ in' = i /\ fault' = NoFault
        /\ float' = float /\ val' = Values(flat, regs', i, NoFault, float)
    BY <1>4 DEF Tick
  <2> QED
    BY <1>1, <1>3, <1>4, <2>1 DEF Wired, Running
<1>5. ASSUME phase = "run", NEW g \in {c.id : c \in flat.ffs} \cup {c.id : c \in Gates(flat)},
             Upset(g)
      PROVE  Wired'
  <2>1. /\ flat' = flat /\ choice' = choice /\ in' = in /\ fault' = g
        /\ float' = float /\ regs' = regs /\ val' = Values(flat, regs, in, g, float)
    BY <1>5 DEF Upset
  <2> QED
    BY <1>1, <1>3, <1>5, <2>1 DEF Wired, Running
<1>6. CASE UNCHANGED <<choice, golden, circuit>> /\ Running' = Running
  <2>1. /\ flat' = flat /\ choice' = choice /\ in' = in /\ fault' = fault
        /\ float' = float /\ regs' = regs /\ val' = val
    BY <1>6 DEF circuit
  <2> QED
    BY <1>1, <1>3, <1>6, <2>1 DEF Wired
<1> QED
  BY <1>1, <1>2, <1>4, <1>5, <1>6, PassIdle

(* In a circuit whose custom voters are wired to the clock and reset when  *)
(* it is powered on, they have the values of these inputs while no cell    *)
(* fails, also when registers still hold what an earlier upset left.       *)
THEOREM VotersAreControlled == Spec /\ []VotersWired => []VotersControlled
<1>1. Init => Wired
  BY TypedInit DEF Init, Wired, Running
<1>2. Wired => VotersControlled
  <2> SUFFICES ASSUME Wired, Running, fault = NoFault,
                      NEW p \in KnownControls, NEW v \in Voters
               PROVE  p \in DOMAIN v.in /\ val[v.in[p]] = in[ControlInput[p]]
    BY DEF VotersControlled
  <2> PICK names, u, sym, x, w : /\ names = DOMAIN in /\ u = val /\ x = v.in[p]
                                 /\ sym = Symbols(flat, Ids(flat.ffs)) /\ w = ControlInput[p]
    OBVIOUS
  <2>1. in \in [names -> BOOLEAN] /\ float \in BOOLEAN
    BY InputType DEF Wired, Typed, TypeOK
  <2>2. /\ WellFormed(flat, names) /\ p \in DOMAIN v.in /\ sym[x] = <<"input", w>>
        /\ u = Values(flat, regs, in, fault, float)
    BY DEF Wired
  <2>3. x \in flat.nets
    BY <2>2 DEF WellFormed, Cells, Voters
  <2>4. u[x] = in[w]
    BY <2>1, <2>2, <2>3, InputValue
  <2> QED
    BY <2>2, <2>4
<1> QED
  BY <1>1, <1>2, WiredNext, PTL DEF Spec
===============================================================================
