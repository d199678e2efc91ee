---------------------- MODULE TmrxPassProtectionProofs ----------------------
(***************************************************************************)
(* The logic below each top module is replicated as the documentation says:*)
(* ProtectionInv is inductive, and what the contents of the modules add up *)
(* to, level by level, is what `Actual' counts.                            *)
(***************************************************************************)
EXTENDS TmrxPassWorkerProofs, FiniteSetTheorems

-----------------------------------------------------------------------------
(* Sums.                                                                   *)

Pairs(f)   == UNION {{s} \X (1..f[s]) : s \in DOMAIN f}
Numbers(f) == IsFiniteSet(DOMAIN f) /\ \A s \in DOMAIN f : f[s] \in Nat

(* What it is to be one to one and onto. *)
LEMMA BijectionFacts ==
    ASSUME NEW S, NEW T, NEW b
    PROVE  b \in Bijection(S, T) <=>
             /\ b \in [S -> T]
             /\ \A s, k \in S : b[s] = b[k] => s = k
             /\ \A t \in T : \E s \in S : b[s] = t
BY DEF Bijection, Injection, Surjection, IsInjective

(* An element of the disjoint union. *)
LEMMA PairsElement ==
    ASSUME NEW f, NEW p
    PROVE  p \in Pairs(f) <=> \E s \in DOMAIN f : \E i \in 1..f[s] : p = <<s, i>>
BY DEF Pairs

LEMMA PairsFinite ==
    ASSUME NEW f, Numbers(f)
    PROVE  IsFiniteSet(Pairs(f))
<1> DEFINE P(s) == {s} \X (1..f[s])
           T == {P(s) : s \in DOMAIN f}
           g == [s \in DOMAIN f |-> P(s)]
<1>1. IsFiniteSet(T)
  <2>1. g \in Surjection(DOMAIN f, T)
    BY DEF Surjection
  <2> QED
    BY <2>1, FS_Surjection DEF Numbers
<1>2. \A t \in T : IsFiniteSet(t)
  <2> TAKE t \in T
  <2>1. PICK s \in DOMAIN f : t = P(s)
    OBVIOUS
  <2>2. f[s] \in Int /\ 1 \in Int
    BY DEF Numbers
  <2>3. IsFiniteSet(1..f[s]) /\ IsFiniteSet({s})
    BY <2>2, FS_Interval, FS_Singleton
  <2> QED
    BY <2>1, <2>3, FS_Product
<1>3. IsFiniteSet(UNION T)
  BY <1>1, <1>2, FS_UNION
<1> QED
  BY <1>3 DEF Pairs

LEMMA SumNumber ==
    ASSUME NEW f, Numbers(f)
    PROVE  SumOf(f) \in Nat /\ SumOf(f) = Cardinality(Pairs(f))
BY PairsFinite, FS_CardinalityType DEF SumOf, Pairs

LEMMA SumOne ==
    ASSUME NEW f, NEW s, DOMAIN f = {s}, f[s] \in Nat
    PROVE  SumOf(f) = f[s]
<1> DEFINE b == [i \in 1..f[s] |-> <<s, i>>]
<1>1. \A p : p \in Pairs(f) <=> \E i \in 1..f[s] : p = <<s, i>>
  BY PairsElement
<1>2. b \in Bijection(1..f[s], Pairs(f))
  <2>1. b \in [1..f[s] -> Pairs(f)]
    BY <1>1
  <2>2. \A i, j \in 1..f[s] : b[i] = b[j] => i = j
    OBVIOUS
  <2>3. \A p \in Pairs(f) : \E i \in 1..f[s] : b[i] = p
    BY <1>1
  <2> HIDE DEF b
  <2> QED
    BY <2>1, <2>2, <2>3, BijectionFacts
<1>3. ExistsBijection(1..f[s], Pairs(f))
  BY <1>2 DEF ExistsBijection
<1>4. Cardinality(Pairs(f)) = f[s]
  BY <1>3, FS_CountingElements
<1> QED
  BY <1>4 DEF SumOf, Pairs

(* Numbers that are put apart.                                             *)
LEMMA SumSplit ==
    ASSUME NEW f, NEW g, NEW h, Numbers(g), Numbers(h),
           DOMAIN f = DOMAIN g \cup DOMAIN h, DOMAIN g \cap DOMAIN h = {},
           \A s \in DOMAIN g : f[s] = g[s], \A s \in DOMAIN h : f[s] = h[s]
    PROVE  SumOf(f) = SumOf(g) + SumOf(h)
<1>1. /\ IsFiniteSet(Pairs(g)) /\ IsFiniteSet(Pairs(h))
      /\ SumOf(g) = Cardinality(Pairs(g)) /\ SumOf(h) = Cardinality(Pairs(h))
      /\ SumOf(g) \in Nat /\ SumOf(h) \in Nat
  BY PairsFinite, SumNumber
<1>2. Pairs(f) = Pairs(g) \cup Pairs(h)
  <2>1. ASSUME NEW p PROVE p \in Pairs(f) <=> p \in Pairs(g) \/ p \in Pairs(h)
    BY PairsElement
  <2> QED
    BY <2>1
<1>3. Pairs(g) \cap Pairs(h) = {}
  <2> SUFFICES ASSUME NEW p, p \in Pairs(g), p \in Pairs(h) PROVE FALSE
    OBVIOUS
  <2>1. PICK s \in DOMAIN g : \E i \in 1..g[s] : p = <<s, i>>
    BY PairsElement
  <2>2. PICK k \in DOMAIN h : \E i \in 1..h[k] : p = <<k, i>>
    BY PairsElement
  <2> QED
    BY <2>1, <2>2
<1>4. /\ Cardinality(Pairs(f)) = Cardinality(Pairs(g)) + Cardinality(Pairs(h))
                                   - Cardinality(Pairs(g) \cap Pairs(h))
  BY <1>1, <1>2, FS_Union
<1>5. Cardinality(Pairs(g) \cap Pairs(h)) = 0
  BY <1>3, FS_EmptySet
<1> QED
  BY <1>1, <1>4, <1>5 DEF SumOf, Pairs

(* Numbers under other names.                                              *)
LEMMA SumSame ==
    ASSUME NEW f, NEW g, Numbers(f), NEW b \in Bijection(DOMAIN f, DOMAIN g),
           \A s \in DOMAIN f : g[b[s]] = f[s]
    PROVE  Numbers(g) /\ SumOf(g) = SumOf(f)
<1>1. /\ b \in [DOMAIN f -> DOMAIN g]
      /\ \A s, k \in DOMAIN f : b[s] = b[k] => s = k
      /\ \A t \in DOMAIN g : \E s \in DOMAIN f : b[s] = t
  BY BijectionFacts
<1>2. Numbers(g)
  <2>1. ExistsBijection(DOMAIN f, DOMAIN g)
    BY DEF ExistsBijection
  <2>2. IsFiniteSet(DOMAIN g)
    BY <2>1, FS_Bijection DEF Numbers
  <2> QED
    BY <1>1, <2>2 DEF Numbers
<1> DEFINE c == [p \in Pairs(f) |-> <<b[p[1]], p[2]>>]
<1>3. c \in Bijection(Pairs(f), Pairs(g))
  <2>1. ASSUME NEW p \in Pairs(f)
        PROVE  \E s \in DOMAIN f : \E i \in 1..f[s] :
                  p = <<s, i>> /\ c[p] = <<b[s], i>> /\ c[p] \in Pairs(g)
    <3>0. PICK s \in DOMAIN f : \E i \in 1..f[s] : p = <<s, i>>
      BY PairsElement
    <3>1. PICK i \in 1..f[s] : p = <<s, i>>
      BY <3>0
    <3>2. c[p] = <<b[s], i>>
      BY <3>1
    <3>3. b[s] \in DOMAIN g /\ i \in 1..g[b[s]]
      BY <1>1, <3>1
    <3>4. c[p] \in Pairs(g)
      BY <3>2, <3>3, PairsElement
    <3> HIDE DEF c
    <3> QED
      BY <3>1, <3>2, <3>4
  <2>2. c \in [Pairs(f) -> Pairs(g)]
    BY <2>1
  <2>3. ASSUME NEW p \in Pairs(f), NEW q \in Pairs(f), c[p] = c[q] PROVE p = q
    BY <1>1, <2>1, <2>3
  <2>4. ASSUME NEW q \in Pairs(g) PROVE \E p \in Pairs(f) : c[p] = q
    <3>0. PICK t \in DOMAIN g : \E i \in 1..g[t] : q = <<t, i>>
      BY PairsElement
    <3>1. PICK i \in 1..g[t] : q = <<t, i>>
      BY <3>0
    <3>2. PICK s \in DOMAIN f : b[s] = t
      BY <1>1
    <3>3. <<s, i>> \in Pairs(f)
      BY <3>1, <3>2, PairsElement
    <3> QED
      BY <3>1, <3>2, <3>3
  <2> HIDE DEF c
  <2> QED
    BY <2>2, <2>3, <2>4, BijectionFacts
<1>4. ExistsBijection(Pairs(f), Pairs(g))
  BY <1>3 DEF ExistsBijection
<1>5. Cardinality(Pairs(g)) = Cardinality(Pairs(f))
  BY <1>4, PairsFinite, FS_Bijection
<1> QED
  BY <1>2, <1>5 DEF SumOf, Pairs

(* The same for the counts of all user modules at once.                    *)
Count      == [UserName -> Nat]
Weights(w) == IsFiniteSet(DOMAIN w) /\ \A s \in DOMAIN w : w[s] \in Count
Part(w, x) == [s \in DOMAIN w |-> w[s][x]]

LEMMA PartFacts ==
    ASSUME NEW w, Weights(w), NEW x \in UserName
    PROVE  /\ DOMAIN Part(w, x) = DOMAIN w /\ Numbers(Part(w, x))
           /\ \A s \in DOMAIN w : Part(w, x)[s] = w[s][x]
BY DEF Part, Weights, Numbers, Count

LEMMA TotalFacts ==
    ASSUME NEW w
    PROVE  Total(w) = [x \in UserName |-> SumOf(Part(w, x))]
BY DEF Total, Part

LEMMA CountType ==
    /\ \A n : Tally(n) \in Count
    /\ \A f, g \in Count : Plus(f, g) \in Count
    /\ \A f \in Count : Times(3, f) \in Count
BY DEF Count, Tally, Plus, Times

LEMMA TotalType ==
    ASSUME NEW w, Weights(w)
    PROVE  Total(w) \in Count
<1>1. \A x \in UserName : SumOf(Part(w, x)) \in Nat
  BY PartFacts, SumNumber
<1> QED
  BY <1>1, TotalFacts DEF Count

LEMMA TotalOne ==
    ASSUME NEW w, NEW s, DOMAIN w = {s}, w[s] \in Count
    PROVE  Total(w) = w[s]
<1>1. \A x \in UserName : SumOf(Part(w, x)) = w[s][x]
  <2> TAKE x \in UserName
  <2>1. DOMAIN Part(w, x) = {s} /\ Part(w, x)[s] = w[s][x] /\ w[s][x] \in Nat
    BY DEF Part, Count
  <2> QED
    BY <2>1, SumOne
<1> QED
  BY <1>1, TotalFacts DEF Count

LEMMA TotalSplit ==
    ASSUME NEW w, NEW u, NEW v, Weights(u), Weights(v),
           DOMAIN w = DOMAIN u \cup DOMAIN v, DOMAIN u \cap DOMAIN v = {},
           \A s \in DOMAIN u : w[s] = u[s], \A s \in DOMAIN v : w[s] = v[s]
    PROVE  Total(w) = Plus(Total(u), Total(v))
<1>1. \A x \in UserName : SumOf(Part(w, x)) = SumOf(Part(u, x)) + SumOf(Part(v, x))
  <2> TAKE x \in UserName
  <2>1. /\ Numbers(Part(u, x)) /\ Numbers(Part(v, x))
        /\ DOMAIN Part(u, x) = DOMAIN u /\ DOMAIN Part(v, x) = DOMAIN v
    BY PartFacts
  <2>2. DOMAIN Part(w, x) = DOMAIN w
    BY DEF Part
  <2>3. /\ \A s \in DOMAIN u : Part(w, x)[s] = Part(u, x)[s]
        /\ \A s \in DOMAIN v : Part(w, x)[s] = Part(v, x)[s]
    BY DEF Part
  <2> QED
    BY <2>1, <2>2, <2>3, SumSplit
<1> QED
  BY <1>1, TotalFacts DEF Plus

LEMMA TotalSame ==
    ASSUME NEW w, NEW u, Weights(w), NEW b \in Bijection(DOMAIN w, DOMAIN u),
           \A s \in DOMAIN w : u[b[s]] = w[s]
    PROVE  Weights(u) /\ Total(u) = Total(w)
<1>1. b \in [DOMAIN w -> DOMAIN u] /\ \A t \in DOMAIN u : \E s \in DOMAIN w : b[s] = t
  BY BijectionFacts
<1>2. Weights(u)
  <2>1. ExistsBijection(DOMAIN w, DOMAIN u)
    BY DEF ExistsBijection
  <2>2. IsFiniteSet(DOMAIN u)
    BY <2>1, FS_Bijection DEF Weights
  <2> QED
    BY <1>1, <2>2 DEF Weights
<1>3. \A x \in UserName : SumOf(Part(u, x)) = SumOf(Part(w, x))
  <2> TAKE x \in UserName
  <2>1. DOMAIN Part(u, x) = DOMAIN u /\ DOMAIN Part(w, x) = DOMAIN w /\ Numbers(Part(w, x))
    BY <1>2, PartFacts
  <2>2. \A s \in DOMAIN w : Part(u, x)[b[s]] = Part(w, x)[s]
    BY <1>1 DEF Part
  <2> QED
    BY <2>1, <2>2, SumSame
<1> QED
  BY <1>2, <1>3, TotalFacts

(* One element is exchanged for another one of the same weight.            *)
LEMMA TotalExchange ==
    ASSUME NEW w, NEW u, Weights(w), NEW c \in DOMAIN w, NEW k,
           k \notin DOMAIN w \ {c}, DOMAIN u = (DOMAIN w \ {c}) \cup {k},
           u[k] = w[c], \A s \in DOMAIN w \ {c} : u[s] = w[s]
    PROVE  Total(u) = Total(w)
<1> DEFINE b == [s \in DOMAIN w |-> IF s = c THEN k ELSE s]
<1>1. b \in Bijection(DOMAIN w, DOMAIN u)
  <2>1. b \in [DOMAIN w -> DOMAIN u]
    OBVIOUS
  <2>2. \A s, t \in DOMAIN w : b[s] = b[t] => s = t
    OBVIOUS
  <2>3. \A t \in DOMAIN u : \E s \in DOMAIN w : b[s] = t
    OBVIOUS
  <2> HIDE DEF b
  <2> QED
    BY <2>1, <2>2, <2>3, BijectionFacts
<1>2. \A s \in DOMAIN w : u[b[s]] = w[s]
  OBVIOUS
<1> HIDE DEF b
<1> QED
  BY <1>1, <1>2, TotalSame

-----------------------------------------------------------------------------
(* The documented counts: a recursion over the levels of the design.       *)

LEMMA InputFacts ==
    ASSUME NEW i \in Inputs, NEW m \in UserName
    PROVE  /\ IsFiniteSet(i.cells[m[1]]) /\ IsFiniteSet(Logic(i, m)) /\ IsFiniteSet(Subs(i, m))
           /\ \A e \in i.cells[m[1]] : /\ e[1] \in Instance /\ e[2] \in UserName \cup {BuiltinFf}
                                       /\ e = <<e[1], e[2]>>
           /\ \A e, f \in i.cells[m[1]] : e[1] = f[1] => e = f
           /\ \A e \in Subs(i, m) : /\ e[2] \in UserName /\ e[2] \notin i.bb
                                    /\ LevelOf(e[2]) < LevelOf(m)
                                    /\ Default(i, e[2]) \in Version
           /\ \A e \in Logic(i, m) : e[2] = BuiltinFf \/ e[2] \in i.bb
           /\ LevelOf(m) \in Nat /\ i.cfg[m] \in Config /\ i.bb \subseteq UserName
           /\ m \in i.bb => i.cells[m[1]] = {}
           /\ i.cfg[m].mode = "None" => i.cfg[m].preserve
<1>1. m[1] \in User /\ m = <<m[1]>>
  BY DEF UserName
<1>2. InputType(i)
  BY InputsAssumption
<1>3. i.cells[m[1]] \subseteq Instance \X (UserName \cup {BuiltinFf})
  BY <1>1, <1>2 DEF InputType
<1>4. IsFiniteSet(i.cells[m[1]]) /\ IsFiniteSet(Logic(i, m)) /\ IsFiniteSet(Subs(i, m))
  <2>1. IsFiniteSet(i.cells[m[1]])
    BY <1>1, FiniteAssumption
  <2>2. Logic(i, m) \in SUBSET i.cells[m[1]] /\ Subs(i, m) \in SUBSET i.cells[m[1]]
    BY DEF Logic, Subs
  <2> QED
    BY <2>1, <2>2, FS_Subset
<1>5. \A e \in i.cells[m[1]] : /\ e[1] \in Instance /\ e[2] \in UserName \cup {BuiltinFf}
                               /\ e = <<e[1], e[2]>>
  BY <1>3
<1>6. \A e, f \in i.cells[m[1]] : e[1] = f[1] => e = f
  BY <1>1, <1>2 DEF InputType
<1>7. ASSUME NEW e \in Subs(i, m)
      PROVE  /\ e[2] \in UserName /\ e[2] \notin i.bb
             /\ LevelOf(e[2]) < LevelOf(m)
             /\ Default(i, e[2]) \in Version
  <2>1. e \in i.cells[m[1]] /\ e[2] \notin Primitive /\ e[2] \notin i.bb
    BY DEF Subs, Logic
  <2>2. e[2] \in UserName
    BY <1>5, <2>1, PrimitiveFacts
  <2>3. PICK v \in User : e[2] = <<v>>
    BY <2>2 DEF UserName
  <2>4. Level[v] < Level[m[1]]
    BY <1>1, <2>1, <2>3, LevelAssumption
  <2> QED
    BY <2>1, <2>2, <2>3, <2>4 DEF LevelOf, Default, Version
<1>8. \A e \in Logic(i, m) : e[2] = BuiltinFf \/ e[2] \in i.bb
  BY <1>2, <1>5, PrimitiveFacts DEF Logic, InputType
<1>9. LevelOf(m) \in Nat
  BY <1>1, LevelAssumption DEF LevelOf
<1>10. /\ i.cfg[m] \in Config /\ i.bb \subseteq UserName
       /\ m \in i.bb => i.cells[m[1]] = {}
       /\ i.cfg[m].mode = "None" => i.cfg[m].preserve
  BY <1>1, <1>2 DEF InputType, Validated
<1> QED
  BY <1>4, <1>5, <1>6, <1>7, <1>8, <1>9, <1>10

LEMMA LogicCountType ==
    ASSUME NEW i \in Inputs, NEW m \in UserName
    PROVE  LogicCount(i, m) \in Count
<1> DEFINE w == [e \in Logic(i, m) |-> Tally(IF e[2] \in Primitive THEN m ELSE e[2])]
<1>1. Weights(w)
  BY InputFacts, CountType DEF Weights
<1> QED
  BY <1>1, TotalType DEF LogicCount

(* What a version counts to depends on lower levels only.                  *)
LEMMA CountAgrees ==
    ASSUME NEW i \in Inputs, NEW m \in UserName, NEW v \in Version, NEW f, NEW g,
           \A k \in UserName, w \in Version :
             LevelOf(k) < LevelOf(m) => f[<<k, w>>] = g[<<k, w>>]
    PROVE  CountOf(i, f, m, v) = CountOf(i, g, m, v)
<1>1. \A e \in Subs(i, m) : /\ f[<<e[2], "tmr">>] = g[<<e[2], "tmr">>]
                            /\ f[<<e[2], Default(i, e[2])>>] = g[<<e[2], Default(i, e[2])>>]
  <2> TAKE e \in Subs(i, m)
  <2>1. e[2] \in UserName /\ LevelOf(e[2]) < LevelOf(m) /\ Default(i, e[2]) \in Version
    BY InputFacts
  <2>2. "tmr" \in Version
    BY DEF Version
  <2> QED
    BY <2>1, <2>2
<1>2. /\ [e \in Subs(i, m) |-> f[<<e[2], "tmr">>]] = [e \in Subs(i, m) |-> g[<<e[2], "tmr">>]]
      /\ [e \in Subs(i, m) |-> f[<<e[2], Default(i, e[2])>>]]
           = [e \in Subs(i, m) |-> g[<<e[2], Default(i, e[2])>>]]
  BY <1>1
<1>3. AsWritten(i, f, m) = AsWritten(i, g, m) /\ Triplicated(i, f, m) = Triplicated(i, g, m)
  BY <1>2 DEF AsWritten, Triplicated
<1> QED
  BY <1>3 DEF CountOf

LEMMA CountTyped ==
    ASSUME NEW i \in Inputs, NEW m \in UserName, NEW v \in Version, NEW f,
           \A k \in UserName, w \in Version : LevelOf(k) < LevelOf(m) => f[<<k, w>>] \in Count
    PROVE  CountOf(i, f, m, v) \in Count
<1>1. \A e \in Subs(i, m) : /\ f[<<e[2], "tmr">>] \in Count
                            /\ f[<<e[2], Default(i, e[2])>>] \in Count
  <2> TAKE e \in Subs(i, m)
  <2>1. e[2] \in UserName /\ LevelOf(e[2]) < LevelOf(m) /\ Default(i, e[2]) \in Version
    BY InputFacts
  <2>2. "tmr" \in Version
    BY DEF Version
  <2> QED
    BY <2>1, <2>2
<1> DEFINE w == [e \in Subs(i, m) |-> f[<<e[2], "tmr">>]]
           u == [e \in Subs(i, m) |-> f[<<e[2], Default(i, e[2])>>]]
<1>2. Weights(w) /\ Weights(u)
  BY <1>1, InputFacts DEF Weights
<1>3. Total(w) \in Count /\ Total(u) \in Count
  BY <1>2, TotalType
<1> HIDE DEF w, u
<1>4. LogicCount(i, m) \in Count
  BY LogicCountType
<1>5. AsWritten(i, f, m) \in Count /\ Triplicated(i, f, m) \in Count
  <2>1. AsWritten(i, f, m) = Plus(LogicCount(i, m), Total(u))
    BY DEF AsWritten, u
  <2>2. Triplicated(i, f, m) = Plus(Times(3, LogicCount(i, m)), Total(w))
    BY DEF Triplicated, w
  <2> QED
    BY <1>3, <1>4, <2>1, <2>2, CountType
<1>6. i.cfg[m].mode \in Mode
  BY InputFacts DEF Config
<1> DEFINE mode == IF v = "tmr" THEN i.cfg[m].mode ELSE "None"
<1>7. mode \in Mode
  BY <1>6 DEF Mode
<1>8. /\ m \in i.bb => CountOf(i, f, m, v) = Tally(m)
      /\ m \notin i.bb /\ mode = "None" => CountOf(i, f, m, v) = AsWritten(i, f, m)
      /\ m \notin i.bb /\ mode = "Full" => CountOf(i, f, m, v) = Times(3, AsWritten(i, f, m))
      /\ m \notin i.bb /\ mode = "Logic" => CountOf(i, f, m, v) = Triplicated(i, f, m)
  BY DEF CountOf
<1> HIDE DEF mode
<1> QED
  BY <1>5, <1>7, <1>8, CountType DEF Mode

(* A solution of the recursion below level k.                              *)
Solves(i, f, k) ==
    \A m \in UserName, v \in Version :
        LevelOf(m) < k => f[<<m, v>>] = CountOf(i, f, m, v)

LEMMA SolutionsAgree ==
    ASSUME NEW i \in Inputs, NEW f, NEW g, NEW k \in Nat, NEW h \in Nat,
           Solves(i, f, k), Solves(i, g, h),
           NEW m \in UserName, LevelOf(m) < k, LevelOf(m) < h, NEW v \in Version
    PROVE  f[<<m, v>>] = g[<<m, v>>]
<1> DEFINE Bad(n) == \E w \in Version : f[<<n, w>>] # g[<<n, w>>]
           T == {l \in Nat : l < k /\ l < h /\ \E n \in UserName : LevelOf(n) = l /\ Bad(n)}
<1> SUFFICES ASSUME Bad(m) PROVE FALSE
  OBVIOUS
<1>1. LevelOf(m) \in T
  BY InputFacts
<1>2. PICK l \in T : \A y \in T : ~(y < l)
  <2>1. T \subseteq Nat /\ T # {}
    BY <1>1
  <2> HIDE DEF T
  <2> QED
    BY <2>1, LeastNumber
<1>3. PICK n \in UserName : LevelOf(n) = l /\ Bad(n)
  BY <1>2
<1>4. ASSUME NEW x \in UserName, NEW w \in Version, LevelOf(x) < LevelOf(n)
      PROVE  f[<<x, w>>] = g[<<x, w>>]
  <2>1. LevelOf(x) \in Nat /\ l \in Nat /\ l < k /\ l < h
    BY <1>2, InputFacts
  <2>2. LevelOf(x) < l /\ LevelOf(x) < k /\ LevelOf(x) < h
    BY <1>3, <1>4, <2>1
  <2>3. ~Bad(x)
    BY <1>2, <2>1, <2>2
  <2> QED
    BY <2>3
<1>5. \A w \in Version : CountOf(i, f, n, w) = CountOf(i, g, n, w)
  BY <1>4, CountAgrees
<1>6. LevelOf(n) < k /\ LevelOf(n) < h
  BY <1>2, <1>3
<1>7. \A w \in Version : f[<<n, w>>] = g[<<n, w>>]
  BY <1>5, <1>6 DEF Solves
<1> QED
  BY <1>3, <1>7

LEMMA SolutionExists ==
    ASSUME NEW i \in Inputs, NEW k \in Nat
    PROVE  \E f : Solves(i, f, k)
<1> DEFINE T == {l \in Nat : ~\E f : Solves(i, f, l)}
<1> SUFFICES ASSUME k \in T PROVE FALSE
  OBVIOUS
<1>1. PICK l \in T : \A y \in T : ~(y < l)
  <2>1. T \subseteq Nat /\ T # {}
    OBVIOUS
  <2> HIDE DEF T
  <2> QED
    BY <2>1, LeastNumber
<1>2. l \in Nat /\ ~\E f : Solves(i, f, l)
  BY <1>1
<1>3. \A m \in UserName : LevelOf(m) \in Nat
  BY InputFacts
<1>4. l # 0
  <2> SUFFICES ASSUME l = 0 PROVE FALSE
    OBVIOUS
  <2>1. \A m \in UserName : ~(LevelOf(m) < l)
    BY <1>3
  <2>2. Solves(i, [x \in {} |-> 0], l)
    BY <2>1 DEF Solves
  <2> QED
    BY <1>2, <2>2
<1>5. l - 1 \in Nat /\ l - 1 < l
  BY <1>2, <1>4
<1>6. PICK f : Solves(i, f, l - 1)
  <2>1. l - 1 \notin T
    BY <1>1, <1>5
  <2> QED
    BY <1>5, <2>1
<1> DEFINE g == [x \in UserName \X Version |->
                    IF LevelOf(x[1]) < l - 1 THEN f[x] ELSE CountOf(i, f, x[1], x[2])]
<1>7. ASSUME NEW m \in UserName, NEW v \in Version
      PROVE  g[<<m, v>>] = IF LevelOf(m) < l - 1 THEN f[<<m, v>>] ELSE CountOf(i, f, m, v)
  <2>1. <<m, v>> \in UserName \X Version /\ <<m, v>>[1] = m /\ <<m, v>>[2] = v
    OBVIOUS
  <2> QED
    BY <2>1
<1> HIDE DEF g
<1>8. ASSUME NEW m \in UserName, NEW v \in Version, LevelOf(m) < l
      PROVE  g[<<m, v>>] = CountOf(i, g, m, v)
  <2>1. ASSUME NEW n \in UserName, NEW w \in Version, LevelOf(n) < LevelOf(m)
        PROVE  f[<<n, w>>] = g[<<n, w>>]
    <3>1. LevelOf(n) < l - 1
      BY <1>2, <1>3, <1>8, <2>1
    <3> QED
      BY <1>7, <3>1
  <2>2. CountOf(i, f, m, v) = CountOf(i, g, m, v)
    BY <2>1, CountAgrees
  <2>3. LevelOf(m) < l - 1 => f[<<m, v>>] = CountOf(i, f, m, v)
    BY <1>6 DEF Solves
  <2> QED
    BY <1>7, <2>2, <2>3
<1>9. Solves(i, g, l)
  BY <1>8 DEF Solves
<1> QED
  BY <1>2, <1>9

(* The documented counts solve it.                                         *)
LEMMA DocumentedFacts ==
    ASSUME NEW i \in Inputs, NEW m \in UserName, NEW v \in Version
    PROVE  /\ Documented(i)[<<m, v>>] = CountOf(i, Documented(i), m, v)
           /\ Documented(i)[<<m, v>>] \in Count
<1> DEFINE D == Documented(i)
           S(x) == CHOOSE f : Solves(i, f, LevelOf(x[1]) + 1)
           F == [x \in UserName \X Version |-> S(x)[x]]
<1>1. ASSUME NEW n \in UserName, NEW w \in Version
      PROVE  /\ Solves(i, S(<<n, w>>), LevelOf(n) + 1)
             /\ F[<<n, w>>] = S(<<n, w>>)[<<n, w>>]
             /\ LevelOf(n) + 1 \in Nat /\ LevelOf(n) < LevelOf(n) + 1 /\ LevelOf(n) \in Nat
  <2>1. <<n, w>> \in UserName \X Version /\ <<n, w>>[1] = n
    OBVIOUS
  <2>2. LevelOf(n) \in Nat /\ LevelOf(n) + 1 \in Nat /\ LevelOf(n) < LevelOf(n) + 1
    <3>1. LevelOf(n) \in Nat
      BY InputFacts
    <3> QED
      BY <3>1
  <2>3. \E f : Solves(i, f, LevelOf(n) + 1)
    BY <2>2, SolutionExists
  <2>4. Solves(i, S(<<n, w>>), LevelOf(n) + 1)
    BY <2>1, <2>3
  <2>5. F[<<n, w>>] = S(<<n, w>>)[<<n, w>>]
    BY <2>1
  <2> QED
    BY <2>2, <2>4, <2>5
<1> HIDE DEF S, F
<1>2. ASSUME NEW n \in UserName, NEW w \in Version
      PROVE  F[<<n, w>>] = CountOf(i, F, n, w)
  <2> DEFINE s == S(<<n, w>>)
  <2>1. ASSUME NEW x \in UserName, NEW u \in Version, LevelOf(x) < LevelOf(n)
        PROVE  s[<<x, u>>] = F[<<x, u>>]
    <3>1. LevelOf(x) \in Nat /\ LevelOf(n) \in Nat
      BY InputFacts
    <3>2. PICK k \in Nat : k = LevelOf(x) + 1
      BY <3>1
    <3>3. PICK h \in Nat : h = LevelOf(n) + 1
      BY <3>1
    <3>4. LevelOf(x) < k /\ LevelOf(x) < h
      BY <2>1, <3>1, <3>2, <3>3
    <3>5. PICK r : r = S(<<x, u>>)
      OBVIOUS
    <3>6. Solves(i, r, k) /\ F[<<x, u>>] = r[<<x, u>>]
      BY <1>1, <3>2, <3>5
    <3>7. Solves(i, s, h)
      BY <1>1, <3>3
    <3> HIDE DEF s
    <3>8. s[<<x, u>>] = r[<<x, u>>]
      BY <3>4, <3>6, <3>7, SolutionsAgree
    <3> QED
      BY <3>6, <3>8
  <2>2. Solves(i, s, LevelOf(n) + 1) /\ LevelOf(n) < LevelOf(n) + 1 /\ F[<<n, w>>] = s[<<n, w>>]
    BY <1>1
  <2> HIDE DEF s
  <2>3. s[<<n, w>>] = CountOf(i, s, n, w)
    BY <2>2 DEF Solves
  <2>4. CountOf(i, s, n, w) = CountOf(i, F, n, w)
    BY <2>1, CountAgrees
  <2> QED
    BY <2>2, <2>3, <2>4
<1>3. F = [x \in UserName \X Version |-> CountOf(i, F, x[1], x[2])]
  <2>1. F = [x \in UserName \X Version |-> F[x]]
    BY DEF F
  <2>2. \A x \in UserName \X Version : F[x] = CountOf(i, F, x[1], x[2])
    BY <1>2
  <2> QED
    BY <2>1, <2>2
<1>4. D = [x \in UserName \X Version |-> CountOf(i, D, x[1], x[2])]
  <2> DEFINE E == CHOOSE count : count = [x \in UserName \X Version |-> CountOf(i, count, x[1], x[2])]
  <2>1. E = [x \in UserName \X Version |-> CountOf(i, E, x[1], x[2])]
    BY <1>3, Zenon
  <2>2. D = E
    BY Zenon DEF Documented
  <2> HIDE DEF D, E
  <2> QED
    BY <2>1, <2>2
<1> HIDE DEF D
<1>5. ASSUME NEW n \in UserName, NEW w \in Version
      PROVE  D[<<n, w>>] = CountOf(i, D, n, w)
  <2>1. <<n, w>> \in UserName \X Version /\ <<n, w>>[1] = n /\ <<n, w>>[2] = w
    OBVIOUS
  <2> QED
    BY <1>4, <2>1
<1> DEFINE T == {l \in Nat : \E n \in UserName, w \in Version : LevelOf(n) = l /\ D[<<n, w>>] \notin Count}
<1>6. T = {}
  <2> SUFFICES ASSUME T # {} PROVE FALSE
    OBVIOUS
  <2>1. PICK l \in T : \A y \in T : ~(y < l)
    <3>1. T \subseteq Nat
      OBVIOUS
    <3> HIDE DEF T
    <3> QED
      BY <3>1, LeastNumber
  <2>2. PICK n \in UserName, w \in Version : LevelOf(n) = l /\ D[<<n, w>>] \notin Count
    BY <2>1
  <2>3. \A x \in UserName, u \in Version : LevelOf(x) < LevelOf(n) => D[<<x, u>>] \in Count
    BY <1>1, <2>1, <2>2
  <2>4. CountOf(i, D, n, w) \in Count
    BY <2>3, CountTyped
  <2> QED
    BY <1>5, <2>2, <2>4
<1>7. D[<<m, v>>] \in Count
  BY <1>1, <1>6
<1> QED
  BY <1>5, <1>7 DEF D

-----------------------------------------------------------------------------
(* Names and the versions they stand for.                                  *)

LEMMA LongerName ==
    ASSUME NEW n \in Name, NEW s \in Token
    PROVE  /\ Len(n) \in Nat /\ Len(Append(n, s)) = Len(n) + 1
           /\ Append(n, s)[Len(n) + 1] = s
           /\ \A k \in 1..Len(n) : Append(n, s)[k] = n[k]
BY DEF Name

LEMMA PathSame ==
    ASSUME NEW n \in Name, n # <<>>, n[1] \in User, NEW p \in PathSuffixes
    PROVE  SameAs(Append(n, p), n)
<1> DEFINE b == Append(n, p)
<1>1. /\ Len(n) \in Nat /\ Len(b) = Len(n) + 1 /\ b[Len(n) + 1] = p
      /\ \A k \in 1..Len(n) : b[k] = n[k]
  BY AppendTokens
<1>2. p # WorkerSuffix /\ p # ImplSuffix /\ p \in Token
  BY SuffixFacts
<1>3. Base(b) = Base(n)
  BY <1>2, SecondToken
<1>4. Rank(b) = Rank(n)
  BY RankFacts
<1> HIDE DEF b
<1>5. \A s : s # p =>
         ((\E k \in 1..Len(b) : b[k] = s) <=> (\E k \in 1..Len(n) : n[k] = s))
  <2>1. \A k \in 1..Len(b) : k \in 1..Len(n) \/ k = Len(n) + 1
    BY <1>1
  <2>2. \A k \in 1..Len(n) : k \in 1..Len(b)
    BY <1>1
  <2> QED
    BY <1>1, <2>1, <2>2
<1>6. Variant(b) = Variant(n)
  <2>1. (\A k \in 1..Len(b) : b[k] # WorkerSuffix) <=> (\A k \in 1..Len(n) : n[k] # WorkerSuffix)
    BY <1>2, <1>5
  <2>2. (\E k \in 1..Len(b) : b[k] = ImplSuffix) <=> (\E k \in 1..Len(n) : n[k] = ImplSuffix)
    BY <1>2, <1>5
  <2> QED
    BY <1>3, <2>1, <2>2 DEF Variant
<1> QED
  BY <1>3, <1>4, <1>6 DEF SameAs, b

(* A user's module and its clone.                                          *)
LEMMA UserSame ==
    ASSUME NEW m \in UserName
    PROVE  /\ Base(m) = m /\ m[1] \in User
           /\ Variant(m) = IF ~Instantiated(m) \/ input.cfg[m].preserve THEN "tmr" ELSE "original"
           /\ Rank(m) = 2 * LevelOf(m) + 1
           /\ Base(Append(m, ImplSuffix)) = m
           /\ Variant(Append(m, ImplSuffix)) = "tmr"
           /\ Rank(Append(m, ImplSuffix)) = 2 * LevelOf(m) + 1
<1> DEFINE b == Append(m, ImplSuffix)
<1>1. m \in Name /\ m # <<>> /\ Len(m) = 1 /\ Base(m) = m /\ m[1] \in User
  BY UserNameFacts, BaseOfUser DEF UserName
<1>2. ImplSuffix \in Token /\ ImplSuffix \in Suffix /\ WorkerSuffix \in Suffix /\ ImplSuffix # WorkerSuffix
  BY SuffixFacts DEF ImplSuffix, WorkerSuffix
<1>3. m[1] # ImplSuffix /\ m[1] # WorkerSuffix
  BY <1>1, <1>2, UserAssumption
<1>4. Len(b) = 2 /\ b[1] = m[1] /\ b[2] = ImplSuffix /\ Base(b) = m
  <2>1. /\ Len(b) = Len(m) + 1 /\ b[Len(m) + 1] = ImplSuffix
        /\ \A k \in 1..Len(m) : b[k] = m[k]
    BY <1>1, <1>2, LongerName
  <2>2. Base(b) = Base(m)
    BY <1>1, <1>2, SecondToken
  <2> QED
    BY <1>1, <2>1, <2>2
<1> HIDE DEF b
<1>5. Variant(m) = IF ~Instantiated(m) \/ input.cfg[m].preserve THEN "tmr" ELSE "original"
  BY <1>1, <1>3 DEF Variant
<1>6. Variant(b) = "tmr"
  BY <1>2, <1>3, <1>4 DEF Variant
<1>7. LevelOf(b) = LevelOf(m)
  BY <1>4 DEF LevelOf
<1>8. Rank(m) = 2 * LevelOf(m) + 1 /\ Rank(b) = 2 * LevelOf(m) + 1
  BY <1>1, <1>2, <1>3, <1>4, <1>7 DEF Rank
<1> QED
  BY <1>1, <1>4, <1>5, <1>6, <1>8 DEF b

(* A template counts as the original, below its wrapper.                   *)
LEMMA TemplateSame ==
    ASSUME NEW n \in Name, n # <<>>, n[1] \in User
    PROVE  /\ Base(Template(n)) = Base(n) /\ Variant(Template(n)) = "original"
           /\ LevelOf(Template(n)) = LevelOf(n)
           /\ Rank(Template(n)) = 2 * LevelOf(n)
<1> DEFINE b == Append(n, WorkerSuffix)
<1>1. WorkerSuffix \in Token
  BY SuffixFacts
<1>2. /\ Len(n) \in Nat /\ Len(b) = Len(n) + 1 /\ b[Len(n) + 1] = WorkerSuffix
      /\ \A k \in 1..Len(n) : b[k] = n[k]
      /\ Base(b) = Base(n)
  BY <1>1, LongerName, SecondToken
<1>3. Len(n) + 1 \in 1..Len(b) /\ 1 \in 1..Len(n)
  BY <1>2 DEF Name
<1> HIDE DEF b
<1>4. Variant(b) = "original"
  BY <1>2, <1>3 DEF Variant
<1>5. LevelOf(b) = LevelOf(n)
  BY <1>2, <1>3 DEF LevelOf
<1>6. Rank(b) = 2 * LevelOf(n)
  <2>1. LevelOf(n) \in Nat
    BY LevelAssumption DEF LevelOf
  <2>2. \E k \in 1..Len(b) : b[k] = WorkerSuffix
    BY <1>2, <1>3
  <2> QED
    BY <1>5, <2>1, <2>2 DEF Rank
<1> QED
  BY <1>2, <1>4, <1>5, <1>6 DEF b, Template

LEMMA ExpectedFacts ==
    ASSUME input \in Inputs, NEW n \in Name, n # <<>>, n[1] \in User
    PROVE  /\ Base(n) \in UserName /\ Variant(n) \in Version
           /\ Expected(n) \in Count
           /\ Expected(n) = CountOf(input, Documented(input), Base(n), Variant(n))
<1>1. Base(n) \in UserName /\ Variant(n) \in Version
  BY DEF Base, UserName, Variant, Version
<1> QED
  BY <1>1, DocumentedFacts DEF Expected

(* All of this depends on the input alone.                                 *)
LEMMA ExpectedKept ==
    ASSUME UNCHANGED input
    PROVE  /\ \A n : Instantiated(n)' <=> Instantiated(n)
           /\ \A n : Variant(n)' = Variant(n)
           /\ \A n : Expected(n)' = Expected(n)
           /\ \A n, c : Weight(n, c)' = Weight(n, c)
           /\ \A n, k : SameAs(n, k)' <=> SameAs(n, k)
<1>1. \A n : Instantiated(n)' <=> Instantiated(n)
  BY DEF Instantiated
<1>2. \A n : Variant(n)' = Variant(n)
  BY <1>1 DEF Variant, Base
<1>3. Documented(input)' = Documented(input)
  OBVIOUS
<1>4. \A n : Expected(n)' = Expected(n)
  BY <1>2, <1>3 DEF Expected, Base
<1>5. \A n, c : Weight(n, c)' = Weight(n, c)
  BY <1>4 DEF Weight, Base, Tally
<1>6. \A n, k : SameAs(n, k)' <=> SameAs(n, k)
  BY <1>2 DEF SameAs, Base, Rank, LevelOf
<1> QED
  BY <1>1, <1>2, <1>4, <1>5, <1>6

-----------------------------------------------------------------------------
(* The contents of a module before it is expanded.                         *)

LEMMA SourceCellFacts ==
    ASSUME NEW e
    PROVE  /\ SourceCell(e).inst = e[1] /\ SourceCell(e).path = ""
           /\ SourceCell(e).type = IF e[2] = BuiltinFf THEN RegisterType ELSE e[2]
           /\ RegisterType \in Primitive
BY DEF SourceCell, UserCell, RegisterType, Primitive

(* What a module of the user is expected to count to.                      *)
LEMMA UserExpected ==
    ASSUME input \in Inputs, NEW k \in UserName
    PROVE  /\ Expected(k) = Documented(input)[<<k, Variant(k)>>]
           /\ Expected(Append(k, ImplSuffix)) = Documented(input)[<<k, "tmr">>]
           /\ \A v \in Version : Documented(input)[<<k, v>>] = CountOf(input, Documented(input), k, v)
           /\ \A v \in Version : Documented(input)[<<k, v>>] \in Count
           /\ k \in input.bb => Expected(k) = Tally(k)
           /\ Instantiated(k) => Variant(k) = Default(input, k)
           /\ Expected(k) \in Count
<1>1. /\ Base(k) = k /\ Base(Append(k, ImplSuffix)) = k
      /\ Variant(k) = IF ~Instantiated(k) \/ input.cfg[k].preserve THEN "tmr" ELSE "original"
      /\ Variant(Append(k, ImplSuffix)) = "tmr"
  BY UserSame
<1>2. \A v \in Version : /\ Documented(input)[<<k, v>>] = CountOf(input, Documented(input), k, v)
                         /\ Documented(input)[<<k, v>>] \in Count
  BY DocumentedFacts
<1>3. Variant(k) \in Version
  BY <1>1 DEF Version
<1>4. /\ Expected(k) = Documented(input)[<<k, Variant(k)>>]
      /\ Expected(Append(k, ImplSuffix)) = Documented(input)[<<k, "tmr">>]
  BY <1>1 DEF Expected
<1>5. k \in input.bb => \A v : CountOf(input, Documented(input), k, v) = Tally(k)
  BY DEF CountOf
<1>6. Instantiated(k) => Variant(k) = Default(input, k)
  BY <1>1 DEF Default
<1> QED
  BY <1>2, <1>3, <1>4, <1>5, <1>6

LEMMA SubsInstantiated ==
    ASSUME input \in Inputs, NEW m \in UserName, NEW e \in input.cells[m[1]], e[2] \in UserName
    PROVE  Instantiated(e[2])
<1>1. m[1] \in User
  BY DEF UserName
<1> QED
  BY <1>1 DEF Instantiated

LEMMA SourceWeight ==
    ASSUME input \in Inputs, NEW m \in UserName, NEW n, Base(n) = m,
           NEW e \in input.cells[m[1]]
    PROVE  /\ e \in Logic(input, m) =>
                Weight(n, SourceCell(e)) = Tally(IF e[2] \in Primitive THEN m ELSE e[2])
           /\ e \notin Logic(input, m) =>
                Weight(n, SourceCell(e)) = Documented(input)[<<e[2], Default(input, e[2])>>]
           /\ Weight(n, SourceCell(e)) \in Count
<1> DEFINE c == SourceCell(e)
<1>1. /\ c.type = IF e[2] = BuiltinFf THEN RegisterType ELSE e[2]
      /\ RegisterType \in Primitive /\ BuiltinFf \in Primitive
  BY SourceCellFacts, PrimitiveFacts
<1>2. /\ e[2] \in UserName \cup {BuiltinFf}
      /\ \A k \in Logic(input, m) : k[2] = BuiltinFf \/ k[2] \in input.bb
      /\ input.bb \subseteq UserName
  BY InputFacts
<1>3. UserName \cap Primitive = {}
  BY PrimitiveFacts
<1> HIDE DEF c
<1>4. CASE e[2] = BuiltinFf
  <2>1. Weight(n, c) = Tally(m) /\ e[2] \in Primitive
    BY <1>1, <1>4 DEF Weight
  <2>2. e \in Logic(input, m)
    BY <2>1 DEF Logic
  <2> QED
    BY <2>1, <2>2, CountType DEF c
<1>5. CASE e[2] \in UserName
  <2>1. e[2] \notin Primitive /\ Weight(n, c) = Expected(e[2])
    BY <1>1, <1>3, <1>5 DEF Weight
  <2>2. Instantiated(e[2])
    BY <1>5, SubsInstantiated
  <2>3. /\ Expected(e[2]) = Documented(input)[<<e[2], Default(input, e[2])>>]
        /\ e[2] \in input.bb => Expected(e[2]) = Tally(e[2])
        /\ Expected(e[2]) \in Count
    BY <1>5, <2>2, UserExpected
  <2>4. e \in Logic(input, m) => e[2] \in input.bb
    BY <1>1, <1>2, <2>1
  <2> QED
    BY <2>1, <2>3, <2>4 DEF c
<1> QED
  BY <1>2, <1>4, <1>5

(* Cells that can be added up. *)
Counted(n, C) == IsFiniteSet(C) /\ \A c \in C : Weight(n, c) \in Count

LEMMA CountedFacts ==
    ASSUME NEW n, NEW C
    PROVE  /\ Counted(n, C) <=> Weights([c \in C |-> Weight(n, c)])
           /\ Counted(n, C) => Amount(n, C) \in Count
BY TotalType DEF Counted, Weights, Amount

(* They add up to what is documented of the original.                      *)
LEMMA SourceTotal ==
    ASSUME input \in Inputs, NEW m \in UserName, NEW n, Base(n) = m,
           NEW C, C = {SourceCell(e) : e \in input.cells[m[1]]}
    PROVE  /\ Amount(n, C) = AsWritten(input, Documented(input), m)
           /\ Counted(n, C)
<1>0. PICK S : S = input.cells[m[1]]
  OBVIOUS
<1> DEFINE w == [e \in S |-> Weight(n, SourceCell(e))]
           u == [c \in C |-> Weight(n, c)]
           b == [e \in S |-> SourceCell(e)]
           l == [e \in Logic(input, m) |-> Tally(IF e[2] \in Primitive THEN m ELSE e[2])]
           r == [e \in Subs(input, m) |-> Documented(input)[<<e[2], Default(input, e[2])>>]]
<1>1. /\ IsFiniteSet(S) /\ IsFiniteSet(Logic(input, m)) /\ IsFiniteSet(Subs(input, m))
      /\ \A e, f \in S : e[1] = f[1] => e = f
      /\ S = Logic(input, m) \cup Subs(input, m) /\ Logic(input, m) \cap Subs(input, m) = {}
  <2>1. S = Logic(input, m) \cup Subs(input, m) /\ Logic(input, m) \cap Subs(input, m) = {}
    BY <1>0 DEF Logic, Subs
  <2>2. /\ IsFiniteSet(S) /\ IsFiniteSet(Logic(input, m)) /\ IsFiniteSet(Subs(input, m))
        /\ \A e, f \in S : e[1] = f[1] => e = f
    BY <1>0, InputFacts
  <2> QED
    BY <2>1, <2>2
<1>2. \A e \in S : Weight(n, SourceCell(e)) \in Count
  BY <1>0, SourceWeight
<1>3. b \in Bijection(S, C)
  <2>1. ASSUME NEW e \in S, NEW f \in S, b[e] = b[f] PROVE e = f
    <3>1. SourceCell(e) = SourceCell(f)
      BY <2>1
    <3>2. e[1] = f[1]
      BY <3>1, SourceCellFacts
    <3> QED
      BY <1>1, <3>2
  <2>2. b \in [S -> C]
    BY <1>0
  <2>3. \A c \in C : \E e \in S : b[e] = c
    BY <1>0
  <2> HIDE DEF b
  <2> QED
    BY <2>1, <2>2, <2>3, BijectionFacts
<1>4. DOMAIN w = S /\ DOMAIN u = C /\ Weights(w) /\ \A e \in S : u[b[e]] = w[e]
  BY <1>0, <1>1, <1>2 DEF Weights
<1>5. ASSUME NEW e \in Logic(input, m) PROVE w[e] = l[e]
  <2>1. e \in S /\ e \in input.cells[m[1]]
    BY <1>0, <1>1
  <2>2. Weight(n, SourceCell(e)) = Tally(IF e[2] \in Primitive THEN m ELSE e[2])
    BY <2>1, SourceWeight
  <2> QED
    BY <2>1, <2>2
<1>6. ASSUME NEW e \in Subs(input, m) PROVE w[e] = r[e]
  <2>1. e \in S /\ e \in input.cells[m[1]] /\ e \notin Logic(input, m)
    BY <1>0, <1>1
  <2>2. Weight(n, SourceCell(e)) = Documented(input)[<<e[2], Default(input, e[2])>>]
    BY <2>1, SourceWeight
  <2> QED
    BY <2>1, <2>2
<1>7. DOMAIN l = Logic(input, m) /\ DOMAIN r = Subs(input, m)
  OBVIOUS
<1>8. LogicCount(input, m) = Total(l) /\ AsWritten(input, Documented(input), m) = Plus(Total(l), Total(r))
  BY DEF LogicCount, AsWritten
<1>9. ExistsBijection(S, C)
  BY <1>3 DEF ExistsBijection
<1> HIDE DEF w, u, b, l, r
<1>10. Weights(u) /\ Total(u) = Total(w)
  BY <1>3, <1>4, TotalSame
<1>11. Weights(l) /\ Weights(r)
  BY <1>1, <1>4, <1>5, <1>6, <1>7 DEF Weights
<1>12. Total(w) = Plus(Total(l), Total(r))
  BY <1>1, <1>4, <1>5, <1>6, <1>7, <1>11, TotalSplit
<1>13. IsFiniteSet(C) /\ \A c \in C : u[c] \in Count
  BY <1>4, <1>10 DEF Weights
<1>14. Amount(n, C) = Total(u) /\ \A c \in C : u[c] = Weight(n, c)
  BY DEF Amount, u
<1> QED
  BY <1>8, <1>10, <1>12, <1>13, <1>14 DEF Counted

-----------------------------------------------------------------------------
(* The contents of a module that LogicTMR has expanded.                    *)

LEMMA ImageTotal ==
    ASSUME NEW w, NEW u, NEW g, Weights(w),
           DOMAIN u = {g[s] : s \in DOMAIN w},
           \A s, k \in DOMAIN w : g[s] = g[k] => s = k,
           \A s \in DOMAIN w : u[g[s]] = w[s]
    PROVE  Weights(u) /\ Total(u) = Total(w)
<1> DEFINE b == [s \in DOMAIN w |-> g[s]]
<1>1. /\ b \in [DOMAIN w -> DOMAIN u]
      /\ \A s, k \in DOMAIN w : b[s] = b[k] => s = k
      /\ \A t \in DOMAIN u : \E s \in DOMAIN w : b[s] = t
      /\ \A s \in DOMAIN w : u[b[s]] = w[s]
  OBVIOUS
<1> HIDE DEF b
<1>2. b \in Bijection(DOMAIN w, DOMAIN u)
  BY <1>1, BijectionFacts
<1> QED
  BY <1>1, <1>2, TotalSame

Halves(D, A, B) == D = A \cup B /\ A \cap B = {}

LEMMA SplitAmount ==
    ASSUME NEW n, NEW A, NEW B, NEW D, Halves(D, A, B), Counted(n, A), Counted(n, B)
    PROVE  Counted(n, D) /\ Amount(n, D) = Plus(Amount(n, A), Amount(n, B))
<1> DEFINE w == [c \in D |-> Weight(n, c)]
           u == [c \in A |-> Weight(n, c)]
           v == [c \in B |-> Weight(n, c)]
<1>1. /\ DOMAIN w = DOMAIN u \cup DOMAIN v /\ DOMAIN u \cap DOMAIN v = {}
      /\ \A s \in DOMAIN u : w[s] = u[s]
      /\ \A s \in DOMAIN v : w[s] = v[s]
  BY DEF Halves
<1>2. Weights(u) /\ Weights(v)
  BY CountedFacts
<1>3. Amount(n, D) = Total(w) /\ Amount(n, A) = Total(u) /\ Amount(n, B) = Total(v)
  BY DEF Amount
<1>4. Counted(n, D)
  BY FS_Union DEF Counted, Halves
<1> HIDE DEF w, u, v
<1>5. Total(w) = Plus(Total(u), Total(v))
  BY <1>1, <1>2, TotalSplit
<1> QED
  BY <1>3, <1>4, <1>5

(* C in four parts.                                                        *)
Parts(C, A1, A2, A3, B) ==
    /\ C = A1 \cup A2 \cup A3 \cup B
    /\ A1 \cap A2 = {} /\ (A1 \cup A2) \cap A3 = {} /\ (A1 \cup A2 \cup A3) \cap B = {}

LEMMA PartsAmount ==
    ASSUME NEW n, NEW C, NEW A1, NEW A2, NEW A3, NEW B, Parts(C, A1, A2, A3, B),
           Counted(n, A1), Counted(n, A2), Counted(n, A3), Counted(n, B)
    PROVE  /\ Counted(n, C)
           /\ Amount(n, C) = Plus(Plus(Plus(Amount(n, A1), Amount(n, A2)), Amount(n, A3)),
                                  Amount(n, B))
<1>1. PICK D : D = A1 \cup A2
  OBVIOUS
<1>2. PICK E : E = D \cup A3
  OBVIOUS
<1>3. Halves(D, A1, A2) /\ Halves(E, D, A3) /\ Halves(C, E, B)
  BY <1>1, <1>2 DEF Parts, Halves
<1>4. Counted(n, D) /\ Amount(n, D) = Plus(Amount(n, A1), Amount(n, A2))
  BY <1>3, SplitAmount
<1>5. Counted(n, E) /\ Amount(n, E) = Plus(Amount(n, D), Amount(n, A3))
  BY <1>3, <1>4, SplitAmount
<1>6. Counted(n, C) /\ Amount(n, C) = Plus(Amount(n, E), Amount(n, B))
  BY <1>3, <1>5, SplitAmount
<1> QED
  BY <1>4, <1>5, <1>6

(* A set of cells that are one for each element of the domain of w.        *)
LEMMA ImageAmount ==
    ASSUME NEW w, Weights(w), NEW n, NEW g, NEW C,
           C = {g[s] : s \in DOMAIN w},
           \A s, k \in DOMAIN w : g[s] = g[k] => s = k,
           \A s \in DOMAIN w : Weight(n, g[s]) = w[s]
    PROVE  Counted(n, C) /\ Amount(n, C) = Total(w)
<1> DEFINE u == [c \in C |-> Weight(n, c)]
<1>1. /\ DOMAIN u = {g[s] : s \in DOMAIN w}
      /\ \A s \in DOMAIN w : u[g[s]] = w[s]
  OBVIOUS
<1>2. Amount(n, C) = Total(u)
  BY DEF Amount
<1> HIDE DEF u
<1>3. Weights(u) /\ Total(u) = Total(w)
  BY <1>1, ImageTotal
<1>4. Counted(n, C)
  BY <1>3, CountedFacts DEF u
<1> QED
  BY <1>2, <1>3, <1>4

LEMMA ThreeTimes ==
    ASSUME NEW f \in Count, NEW g \in Count
    PROVE  Plus(Plus(Plus(f, f), f), g) = Plus(Times(3, f), g) /\ Plus(Plus(f, f), f) = Times(3, f)
BY DEF Plus, Times, Count

(* The cells C are three copies f of each element of L and one cell r for  *)
(* each of S, all different.                                               *)
Tripled(C, f, r, L, S) ==
    C = {f[e][1] : e \in L} \cup {f[e][2] : e \in L} \cup {f[e][3] : e \in L}
          \cup {r[e] : e \in S}

Apart(f, r, L, S) ==
    /\ \A e, d \in L, i, j \in 1..3 : f[e][i] = f[d][j] => e = d /\ i = j
    /\ \A e, d \in S : r[e] = r[d] => e = d
    /\ \A e \in L, d \in S, i \in 1..3 : f[e][i] # r[d]

LEMMA TriplicatedTotal ==
    ASSUME input \in Inputs, NEW m \in UserName, NEW n, Base(n) = m,
           NEW f, NEW r, NEW C, NEW L, NEW S, L = Logic(input, m), S = Subs(input, m),
           Tripled(C, f, r, L, S), Apart(f, r, L, S),
           \A e \in L, i \in 1..3 :
             Weight(n, f[e][i]) = Tally(IF e[2] \in Primitive THEN m ELSE e[2]),
           \A e \in S : Weight(n, r[e]) = Documented(input)[<<e[2], "tmr">>]
    PROVE  /\ Amount(n, C) = Triplicated(input, Documented(input), m)
           /\ Counted(n, C)
<1>1. /\ \A e, d \in L, i, j \in 1..3 : f[e][i] = f[d][j] => e = d /\ i = j
      /\ \A e, d \in S : r[e] = r[d] => e = d
      /\ \A e \in L, d \in S, i \in 1..3 : f[e][i] # r[d]
  BY DEF Apart
<1>2. C = {f[e][1] : e \in L} \cup {f[e][2] : e \in L} \cup {f[e][3] : e \in L}
            \cup {r[e] : e \in S}
  BY DEF Tripled
<1> DEFINE l == [e \in L |-> Tally(IF e[2] \in Primitive THEN m ELSE e[2])]
           s == [e \in S |-> Documented(input)[<<e[2], "tmr">>]]
           F(i) == {f[e][i] : e \in L}
           R == {r[e] : e \in S}
<1>3. /\ IsFiniteSet(L) /\ IsFiniteSet(S)
      /\ \A e \in S : e[2] \in UserName
  BY InputFacts
<1>4. Weights(l)
  BY <1>3, CountType DEF Weights
<1>5. Weights(s)
  <2>1. \A e \in S : Documented(input)[<<e[2], "tmr">>] \in Count
    BY <1>3, UserExpected DEF Version
  <2> QED
    BY <1>3, <2>1 DEF Weights
<1>6. ASSUME NEW i \in 1..3
      PROVE  Counted(n, F(i)) /\ Amount(n, F(i)) = Total(l)
  <2> DEFINE g == [e \in L |-> f[e][i]]
  <2>1. PICK D : D = F(i)
    OBVIOUS
  <2>2. /\ D = {g[e] : e \in DOMAIN l}
        /\ \A e, d \in DOMAIN l : g[e] = g[d] => e = d
        /\ \A e \in DOMAIN l : Weight(n, g[e]) = l[e]
    BY <1>1, <2>1
  <2> HIDE DEF g, l
  <2>3. Counted(n, D) /\ Amount(n, D) = Total(l)
    BY <1>4, <2>2, ImageAmount
  <2> QED
    BY <2>1, <2>3
<1>7. Counted(n, R) /\ Amount(n, R) = Total(s)
  <2>1. PICK D : D = R
    OBVIOUS
  <2>2. /\ D = {r[e] : e \in DOMAIN s}
        /\ \A e, d \in DOMAIN s : r[e] = r[d] => e = d
        /\ \A e \in DOMAIN s : Weight(n, r[e]) = s[e]
    BY <1>1, <2>1
  <2> HIDE DEF s
  <2>3. Counted(n, D) /\ Amount(n, D) = Total(s)
    BY <1>5, <2>2, ImageAmount
  <2> QED
    BY <2>1, <2>3
<1>8. /\ F(1) \cap F(2) = {} /\ (F(1) \cup F(2)) \cap F(3) = {}
      /\ (F(1) \cup F(2) \cup F(3)) \cap R = {}
      /\ C = F(1) \cup F(2) \cup F(3) \cup R
  <2>1. \A i, j \in 1..3 : i # j => F(i) \cap F(j) = {}
    BY <1>1
  <2>2. \A i \in 1..3 : F(i) \cap R = {}
    BY <1>1, <1>2
  <2>3. C = F(1) \cup F(2) \cup F(3) \cup R
    BY <1>1, <1>2
  <2>4. 1 \in 1..3 /\ 2 \in 1..3 /\ 3 \in 1..3 /\ 1 # 2 /\ 1 # 3 /\ 2 # 3
    OBVIOUS
  <2> HIDE DEF F, R
  <2> QED
    BY <2>1, <2>2, <2>3, <2>4
<1>9. PICK A1, A2, A3 : A1 = F(1) /\ A2 = F(2) /\ A3 = F(3)
  OBVIOUS
<1>10. PICK B : B = R
  OBVIOUS
<1>11. /\ Counted(n, A1) /\ Counted(n, A2) /\ Counted(n, A3) /\ Counted(n, B)
       /\ Amount(n, A1) = Total(l) /\ Amount(n, A2) = Total(l) /\ Amount(n, A3) = Total(l)
       /\ Amount(n, B) = Total(s)
  <2>1. 1 \in 1..3 /\ 2 \in 1..3 /\ 3 \in 1..3
    OBVIOUS
  <2> HIDE DEF l, s, F, R
  <2> QED
    BY <1>6, <1>7, <1>9, <1>10, <2>1
<1>12. Parts(C, A1, A2, A3, B)
  BY <1>8, <1>9, <1>10 DEF Parts
<1>17. Total(l) \in Count /\ Total(s) \in Count
  BY <1>4, <1>5, TotalType
<1>18. Triplicated(input, Documented(input), m) = Plus(Times(3, Total(l)), Total(s))
  BY DEF Triplicated, LogicCount
<1> HIDE DEF l, s, F, R
<1>19. Counted(n, A1) /\ Counted(n, A2) /\ Counted(n, A3) /\ Counted(n, B)
  BY <1>11
<1>20. /\ Counted(n, C)
       /\ Amount(n, C) = Plus(Plus(Plus(Amount(n, A1), Amount(n, A2)), Amount(n, A3)),
                              Amount(n, B))
  BY <1>12, <1>19, PartsAmount
<1>21. Amount(n, C) = Plus(Plus(Plus(Total(l), Total(l)), Total(l)), Total(s))
  BY <1>11, <1>20
<1>22. Amount(n, C) = Plus(Times(3, Total(l)), Total(s))
  BY <1>17, <1>21, ThreeTimes
<1> QED
  BY <1>18, <1>20, <1>22

-----------------------------------------------------------------------------
(* What is kept of the modules that a step does not touch.                 *)

LEMMA KeptAccount ==
    ASSUME UNCHANGED input, NEW x, design'[x].cells = design[x].cells
    PROVE  /\ Accounted(x)' <=> Accounted(x)
           /\ CellsOf(x, design[x].cells)' <=> CellsOf(x, design[x].cells)
<1>1. (\A c : Weight(x, c)' = Weight(x, c)) /\ Expected(x)' = Expected(x)
  BY ExpectedKept
<1>2. [c \in design[x].cells |-> Weight(x, c)]' = [c \in design[x].cells |-> Weight(x, c)]
  BY <1>1
<1>3. Amount(x, design[x].cells)' = Amount(x, design[x].cells)
  BY <1>2 DEF Amount
<1>4. Accounted(x)' <=> Accounted(x)
  BY <1>1, <1>3 DEF Accounted
<1>5. CellsOf(x, design[x].cells)' <=> CellsOf(x, design[x].cells)
  BY DEF CellsOf, Rank, LevelOf
<1> QED
  BY <1>4, <1>5

LEMMA KeptSource ==
    ASSUME UNCHANGED input, RegisterType' = RegisterType
    PROVE  \A e : SourceCell(e)' = SourceCell(e)
BY DEF SourceCell, UserCell

(* Cells that the design has can be added up.                              *)
LEMMA DesignCounted ==
    ASSUME HierarchyInv, NEW n \in DOMAIN design, CellsOf(n, design[n].cells)
    PROVE  Counted(n, design[n].cells)
<1>1. input \in Inputs
  BY DEF HierarchyInv
<1>2. ASSUME NEW c \in design[n].cells
      PROVE  Weight(n, c) \in Count
  <2>1. CASE c.type \in Primitive
    BY <2>1, CountType DEF Weight
  <2>2. CASE c.type \notin Primitive
    <3>1. PICK k \in DOMAIN design : k = c.type
      BY <2>2, OldType
    <3>2. k \in Name /\ k # <<>> /\ k[1] \in User
      BY DesignNames
    <3>3. Expected(k) \in Count
      BY <1>1, <3>2, ExpectedFacts
    <3> QED
      BY <2>2, <3>1, <3>3 DEF Weight
  <2> QED
    BY <2>1, <2>2
<1> QED
  BY <1>2 DEF Counted, CellsOf

(* What holds of a module that has been reached.                           *)
Reached(x) ==
    /\ ~design[x].bb => Accounted(x)
    /\ CellsOf(x, design[x].cells)
    /\ \A c \in design[x].cells : c.type \notin todo
    /\ x \in input.bb => design[x].bb
    /\ (x \in UserName /\ Instantiated(x) /\ ~input.cfg[x].preserve /\ x \notin input.bb) =>
         design[x].impl # NoName

Late == {"process", "full", "cleanup", "done"}

LEMMA LateFacts ==
    ASSUME HierarchyInv, pc \in Late
    PROVE  pc \notin {"mark", "synth", "plan"}
BY DEF Late

LEMMA GrownProtection ==
    ASSUME HierarchyInv, HierarchyInv', ProtectionInv, UNCHANGED <<input, edges>>,
           pc \in Late, pc' \in Late, pc' \in {"process", "full"} => pc \in {"process", "full"},
           todo' \subseteq todo, NEW S,
           \A x \in DOMAIN design' \ S :
             /\ x \in DOMAIN design
             /\ x \in todo => x \in todo'
             /\ design'[x].cells = design[x].cells
             /\ design'[x].bb <=> design[x].bb
             /\ design'[x].proper <=> design[x].proper
             /\ design'[x].impl = design[x].impl,
           \A x \in S : x \notin todo' /\ Reached(x)'
    PROVE  AccountsOK' /\ SourceOK' /\ MarkedOK' /\ ReachedOK' /\ CellsOK'
<1>1. pc \notin {"mark", "synth", "plan"} /\ pc' \notin {"mark", "synth", "plan"}
  BY DEF Late
<1>2. RegisterType' = RegisterType
  BY <1>1 DEF RegisterType
<1>3. AccountsOK'
  <2> SUFFICES ASSUME NEW x \in DOMAIN design', x \notin todo', ~design'[x].bb
               PROVE  Accounted(x)'
    BY DEF AccountsOK
  <2>1. CASE x \in S
    BY <2>1 DEF Reached
  <2>2. CASE x \notin S
    <3>1. x \in DOMAIN design /\ x \notin todo /\ ~design[x].bb /\ design'[x].cells = design[x].cells
      BY <2>2
    <3>2. Accounted(x)
      BY <1>1, <3>1 DEF ProtectionInv, AccountsOK
    <3> QED
      BY <3>1, <3>2, KeptAccount
  <2> QED
    BY <2>1, <2>2
<1>4. SourceOK'
  <2> SUFFICES ASSUME NEW n \in UserName, n \in DOMAIN design', n \in todo'
               PROVE  /\ design'[n].cells = {SourceCell(e)' : e \in input'.cells[n[1]]}
                      /\ design'[n].proper <=> Instantiated(n)'
    BY <1>1 DEF SourceOK
  <2>1. n \in DOMAIN design /\ design'[n].cells = design[n].cells
        /\ (design'[n].proper <=> design[n].proper) /\ n \in todo
    OBVIOUS
  <2>2. /\ design[n].cells = {SourceCell(e) : e \in input.cells[n[1]]}
        /\ design[n].proper <=> Instantiated(n)
    BY <1>1, <2>1 DEF ProtectionInv, SourceOK
  <2>3. \A e : SourceCell(e)' = SourceCell(e)
    BY <1>2, KeptSource
  <2>4. Instantiated(n)' <=> Instantiated(n)
    BY ExpectedKept
  <2> QED
    BY <2>1, <2>2, <2>3, <2>4
<1>5. MarkedOK'
  BY DEF MarkedOK, ProtectionInv, Reached
<1>6. CellsOK'
  <2> SUFFICES ASSUME NEW x \in DOMAIN design' PROVE CellsOf(x, design[x].cells)'
    BY DEF CellsOK
  <2>1. CASE x \in S
    BY <2>1 DEF Reached
  <2>2. CASE x \notin S
    <3>1. x \in DOMAIN design /\ design'[x].cells = design[x].cells
      BY <2>2
    <3>2. CellsOf(x, design[x].cells)
      BY <3>1 DEF ProtectionInv, CellsOK
    <3> QED
      BY <3>1, <3>2, KeptAccount
  <2> QED
    BY <2>1, <2>2
<1>7. ReachedOK'
  <2> SUFFICES ASSUME pc' \in {"process", "full"} PROVE ReachedOK'
    BY DEF ReachedOK
  <2>1. /\ \A m \in todo : \A c \in design[m].cells : c.type \in todo => <<m, c.type>> \in edges
        /\ \A n \in DOMAIN design \ todo : \A c \in design[n].cells : c.type \notin todo
        /\ \A n \in (UserName \cap DOMAIN design) \ todo :
             (Instantiated(n) /\ ~input.cfg[n].preserve /\ n \notin input.bb) =>
                 design[n].impl # NoName
    BY DEF ProtectionInv, ReachedOK
  <2>2. todo' \subseteq DOMAIN design'
    BY DEF HierarchyInv, TodoOK
  <2>3. \A m \in todo' : \A c \in design'[m].cells :
           c.type \in todo' => <<m, c.type>> \in edges'
    BY <2>1, <2>2
  <2>4. \A n \in DOMAIN design' \ todo' : \A c \in design'[n].cells : c.type \notin todo'
    BY <2>1 DEF Reached
  <2>5. ASSUME NEW n \in UserName, n \in DOMAIN design', n \notin todo',
               Instantiated(n)', ~input'.cfg[n].preserve, n \notin input'.bb
        PROVE  design'[n].impl # NoName
    <3>1. Instantiated(n)
      BY <2>5, ExpectedKept
    <3>2. CASE n \in S
      BY <2>5, <3>1, <3>2 DEF Reached
    <3>3. CASE n \notin S
      BY <2>1, <2>5, <3>1, <3>3
    <3> QED
      BY <3>2, <3>3
  <2> QED
    BY <2>3, <2>4, <2>5 DEF ReachedOK
<1> QED
  BY <1>3, <1>4, <1>5, <1>6, <1>7

LEMMA TopsKept ==
    ASSUME TopsOK, UNCHANGED input,
           \A x \in Tops : (x \in DOMAIN design /\ x \notin toRemove) =>
             x \in DOMAIN design' /\ design'[x].impl = design[x].impl /\ x \notin toRemove'
    PROVE  TopsOK'
<1>1. Tops' = Tops
  BY ExpectedKept DEF Tops
<1> QED
  BY <1>1 DEF TopsOK

LEMMA NoFrames ==
    ASSUME stack = <<>>, pc # "full"
    PROVE  FramesOK
BY DEF FramesOK

(* The activations after a step, d of them more than before.               *)
Shifted(d) ==
    /\ Len(stack') = Len(stack) + d
    /\ \A h \in 1..Len(stack) : h + d >= 1 =>
         /\ stack'[h + d].mod = stack[h].mod
         /\ stack'[h + d].owner = stack[h].owner
         /\ stack'[h + d].cell = stack[h].cell
         /\ stack'[h + d].cells \subseteq stack[h].cells

LEMMA FrameCellsKept ==
    ASSUME HierarchyInv, UNCHANGED <<input, wrapper>>,
           NEW d \in {-1, 0, 1}, Shifted(d),
           NEW i \in 1..Len(stack), NEW j \in 1..Len(stack'), j = i + d, FrameCells(i),
           DOMAIN design \subseteq DOMAIN design',
           \A c \in stack'[j].cells : c \in design'[stack[i].mod].cells,
           stack[i].cell \in design'[stack[i].owner].cells
    PROVE  FrameCells(j)'
<1>1. Len(stack) \in Nat /\ Len(stack') = Len(stack) + d
  BY DEF HierarchyInv, TypeOK, Shifted
<1>2. /\ stack'[j].mod = stack[i].mod /\ stack'[j].owner = stack[i].owner
      /\ stack'[j].cell = stack[i].cell /\ stack'[j].cells \subseteq stack[i].cells
  BY <1>1 DEF Shifted
<1>3. \A h \in j + 1..Len(stack') : \E g \in i + 1..Len(stack) :
         h = g + d /\ stack'[h].mod = stack[g].mod /\ stack'[h].cells \subseteq stack[g].cells
  <2> TAKE h \in j + 1..Len(stack')
  <2>1. PICK g \in i + 1..Len(stack) : h = g + d
    <3>1. h - d \in i + 1..Len(stack) /\ h = (h - d) + d
      BY <1>1
    <3> QED
      BY <3>1
  <2>2. g \in 1..Len(stack) /\ g + d >= 1
    BY <1>1, <2>1
  <2>3. stack'[g + d].mod = stack[g].mod /\ stack'[g + d].cells \subseteq stack[g].cells
    BY <2>2 DEF Shifted
  <2> QED
    BY <2>1, <2>3
<1>4. \A n, k : SameAs(n, k)' <=> SameAs(n, k)
  BY ExpectedKept
<1>5. \A h \in j + 1..Len(stack') : Rank(stack[i].mod) < Rank(stack'[h].mod)
  BY <1>3 DEF FrameCells
<1>6. j < Len(stack') =>
        stack[i].owner = stack'[j + 1].mod /\ stack[i].cell \notin stack'[j + 1].cells
  <2> SUFFICES ASSUME j < Len(stack')
               PROVE  stack[i].owner = stack'[j + 1].mod /\ stack[i].cell \notin stack'[j + 1].cells
    OBVIOUS
  <2>1. j + 1 \in j + 1..Len(stack')
    BY <1>1
  <2>2. PICK g \in i + 1..Len(stack) :
          j + 1 = g + d /\ stack'[j + 1].mod = stack[g].mod /\ stack'[j + 1].cells \subseteq stack[g].cells
    BY <1>3, <2>1
  <2>3. g = i + 1 /\ i < Len(stack)
    BY <1>1, <2>2
  <2> QED
    BY <2>2, <2>3 DEF FrameCells
<1>7. /\ \A c \in stack'[j].cells : c \in design'[stack'[j].mod].cells
      /\ stack'[j].cell \in design'[stack'[j].owner].cells
      /\ stack'[j].cell.type \in DOMAIN design'
      /\ SameAs(stack[i].mod, stack[i].cell.type)
      /\ Rank(stack[i].mod) < Rank(wrapper)
  BY <1>2 DEF FrameCells
<1>8. \A h \in j + 1..Len(stack') : Rank(stack'[j].mod) < Rank(stack'[h].mod)
  BY <1>2, <1>5
<1>9. PICK o : o = stack[i].mod
  OBVIOUS
<1>10. PICK k : k = stack[i].cell.type
  OBVIOUS
<1>11. SameAs(o, k)'
  BY <1>4, <1>7, <1>9, <1>10
<1>12. o = stack'[j].mod /\ k = stack'[j].cell.type
  BY <1>2, <1>9, <1>10
<1>13. SameAs(stack[j].mod, stack[j].cell.type)'
  BY <1>11, <1>12
<1>14. Rank(stack'[j].mod) < Rank(wrapper')
  BY <1>2, <1>7
<1> QED
  BY <1>2, <1>6, <1>7, <1>8, <1>13, <1>14 DEF FrameCells

LEMMA NextAccount ==
    ASSUME UNCHANGED input, NEW x, NEW D, D = design'[x].cells
    PROVE  /\ Accounted(x)' <=> Amount(x, D) = Expected(x)
           /\ CellsOf(x, design[x].cells)' <=> CellsOf(x, D)
<1>1. (\A c : Weight(x, c)' = Weight(x, c)) /\ Expected(x)' = Expected(x)
  BY ExpectedKept
<1>2. [c \in design[x].cells |-> Weight(x, c)]' = [c \in D |-> Weight(x, c)]
  BY <1>1
<1>3. Amount(x, design[x].cells)' = Amount(x, D)
  BY <1>2 DEF Amount
<1>4. Accounted(x)' <=> Amount(x, D) = Expected(x)
  BY <1>1, <1>3 DEF Accounted
<1>5. CellsOf(x, design[x].cells)' <=> CellsOf(x, D)
  BY DEF CellsOf, Rank, LevelOf
<1> QED
  BY <1>4, <1>5

(* A cell is exchanged for one of a module that stands for the same.       *)
LEMMA ExchangeCell ==
    ASSUME HierarchyInv, NEW o \in DOMAIN design, NEW c \in design[o].cells,
           NEW k \in Cell, k.inst = c.inst, k.path = c.path,
           c.type \notin Primitive, k.type \notin Primitive, SameAs(k.type, c.type),
           NEW D, D = (design[o].cells \ {c}) \cup {k}, CellsOf(o, design[o].cells)
    PROVE  CellsOf(o, D) /\ Amount(o, D) = Amount(o, design[o].cells)
<1>1. PICK C : C = design[o].cells
  OBVIOUS
<1>2. /\ IsFiniteSet(C) /\ c \in C /\ D = (C \ {c}) \cup {k}
      /\ \A s, r \in C : s.inst = r.inst /\ s.path = r.path => s = r
      /\ \A s \in C : s.type \notin Primitive => Rank(s.type) < Rank(o)
  BY <1>1 DEF CellsOf
<1>3. IsFiniteSet(D)
  <2>1. IsFiniteSet(C \ {c})
    BY <1>2, FS_RemoveElement
  <2> QED
    BY <1>2, <2>1, FS_AddElement
<1>4. \A s, r \in D : s.inst = r.inst /\ s.path = r.path => s = r
  BY <1>2
<1>5. Rank(k.type) = Rank(c.type) /\ Rank(c.type) < Rank(o)
  BY <1>2 DEF SameAs
<1>6. CellsOf(o, D)
  BY <1>2, <1>3, <1>4, <1>5 DEF CellsOf
<1> DEFINE w == [s \in C |-> Weight(o, s)]
           u == [s \in D |-> Weight(o, s)]
<1>7. Weight(o, k) = Weight(o, c)
  BY DEF Weight, SameAs, Expected
<1>8. /\ DOMAIN w = C /\ DOMAIN u = D /\ k \notin C \ {c} /\ u[k] = w[c]
      /\ \A s \in C \ {c} : u[s] = w[s]
  BY <1>2, <1>7
<1>9. Weights(w)
  BY <1>1, DesignCounted, CountedFacts
<1>10. Amount(o, C) = Total(w) /\ Amount(o, D) = Total(u)
  BY DEF Amount
<1> HIDE DEF w, u
<1>11. Total(u) = Total(w)
  BY <1>2, <1>8, <1>9, TotalExchange
<1> QED
  BY <1>1, <1>6, <1>10, <1>11

LEMMA RetypeReached ==
    ASSUME HierarchyInv, ProtectionInv, pc = "full", UNCHANGED <<input, todo>>,
           NEW o \in DOMAIN design, o \notin todo, NEW c \in design[o].cells, c \in Cell,
           c.type \in DOMAIN design,
           NEW un \in DOMAIN design, un \notin UserName, SameAs(un, c.type),
           design'[o].cells = (design[o].cells \ {c}) \cup {[c EXCEPT !.type = un]},
           design'[o].bb = design[o].bb, design'[o].impl = design[o].impl
    PROVE  Reached(o)'
<1>1. PICK D : D = design'[o].cells
  OBVIOUS
<1>2. PICK k : k = [c EXCEPT !.type = un]
  OBVIOUS
<1>3. un \in Name /\ un \notin Primitive /\ c.type \notin Primitive
  BY DesignNames
<1>4. k \in Cell /\ k.inst = c.inst /\ k.path = c.path /\ k.type = un
  BY <1>2, <1>3 DEF Cell
<1>5. CellsOf(o, design[o].cells)
  BY DEF ProtectionInv, CellsOK
<1>6. D = (design[o].cells \ {c}) \cup {k}
  BY <1>1, <1>2
<1>7. CellsOf(o, D) /\ Amount(o, D) = Amount(o, design[o].cells)
  BY <1>3, <1>4, <1>5, <1>6, ExchangeCell
<1>8. (Accounted(o)' <=> Amount(o, D) = Expected(o)) /\ CellsOf(o, design[o].cells)'
  BY <1>1, <1>7, NextAccount
<1>9. ~design'[o].bb => Accounted(o)'
  BY <1>7, <1>8 DEF ProtectionInv, AccountsOK, Accounted
<1>10. \A s \in design'[o].cells : s.type \notin todo'
  <2>1. \A s \in design[o].cells : s.type \notin todo
    BY DEF ProtectionInv, ReachedOK
  <2>2. un \notin todo
    BY DEF HierarchyInv, TypeOK
  <2> QED
    BY <1>1, <1>4, <1>6, <2>1, <2>2
<1>11. o \in input'.bb => design'[o].bb
  BY DEF ProtectionInv, MarkedOK
<1>12. (o \in UserName /\ Instantiated(o)' /\ ~input'.cfg[o].preserve /\ o \notin input'.bb) =>
          design'[o].impl # NoName
  BY ExpectedKept DEF ProtectionInv, ReachedOK
<1> QED
  BY <1>8, <1>9, <1>10, <1>11, <1>12 DEF Reached

-----------------------------------------------------------------------------
(* The recursion.                                                          *)

(* No activation works in the module that another one or the wrapper is.   *)
LEMMA FrameFacts ==
    ASSUME HierarchyInv, ProtectionInv, NEW i \in 1..Len(stack)
    PROVE  /\ FrameCells(i) /\ Len(stack) \in Nat
           /\ stack[i].mod \in DOMAIN design /\ stack[i].mod # wrapper
           /\ stack[i].owner \in DOMAIN design
           /\ \A j \in i + 1..Len(stack) : stack[i].mod # stack[j].mod
           /\ stack[i].owner = wrapper \/ (i < Len(stack) /\ stack[i].owner = stack[i + 1].mod)
           /\ \A j \in 1..i : stack[i].owner # stack[j].mod
<1>1. FrameCells(i) /\ FrameOK(i) /\ Len(stack) \in Nat
  BY DEF ProtectionInv, FramesOK, HierarchyInv, StackOK, TypeOK
<1>2. \A j \in 1..Len(stack) :
        /\ stack[j].mod \in DOMAIN design /\ Rank(stack[j].mod) \in Nat
        /\ Rank(stack[j].mod) < Rank(wrapper)
        /\ \A h \in j + 1..Len(stack) : Rank(stack[j].mod) < Rank(stack[h].mod)
  <2> TAKE j \in 1..Len(stack)
  <2>1. FrameCells(j) /\ FrameOK(j)
    BY DEF ProtectionInv, FramesOK, HierarchyInv, StackOK
  <2>2. stack[j].mod \in DOMAIN design
    BY <2>1 DEF FrameOK
  <2>3. PICK n \in DOMAIN design : n = stack[j].mod
    BY <2>2
  <2>4. n \in Name /\ n # <<>> /\ n[1] \in User
    BY DesignNames
  <2>5. Rank(n) \in Nat
    BY <2>4, RankFacts
  <2> QED
    BY <2>1, <2>2, <2>3, <2>5 DEF FrameCells
<1>3. Rank(wrapper) \in Nat
  <2>1. pc = "full"
    BY <1>1 DEF HierarchyInv, StackOK
  <2>2. wrapper \in Name /\ wrapper # <<>> /\ wrapper[1] \in User
    BY <2>1, FullFacts
  <2> QED
    BY <2>2, RankFacts
<1>4. stack[i].mod # wrapper /\ \A j \in i + 1..Len(stack) : stack[i].mod # stack[j].mod
  BY <1>1, <1>2, <1>3
<1>5. stack[i].owner = wrapper \/ (i < Len(stack) /\ stack[i].owner = stack[i + 1].mod)
  BY <1>1 DEF FrameOK, FrameCells
<1>6. \A j \in 1..i : stack[i].owner # stack[j].mod
  <2> TAKE j \in 1..i
  <2>1. j \in 1..Len(stack) /\ stack[j].mod # wrapper
    BY <1>1, <1>2, <1>3
  <2>2. i < Len(stack) => i + 1 \in j + 1..Len(stack)
    BY <1>1
  <2>3. i < Len(stack) => Rank(stack[j].mod) < Rank(stack[i + 1].mod)
    BY <1>2, <2>1, <2>2
  <2>4. i < Len(stack) => stack[j].mod # stack[i + 1].mod
    BY <1>2, <2>1, <2>3
  <2> QED
    BY <1>5, <2>1, <2>4
<1> QED
  BY <1>1, <1>2, <1>4, <1>5, <1>6 DEF FrameOK

LEMMA VisitedShifted ==
    ASSUME HierarchyInv, stack # <<>>, NEW c \in stack[1].cells, stack' = Visited(c)
    PROVE  Shifted(0) /\ Len(stack') = Len(stack) /\ stack'[1].cells = stack[1].cells \ {c}
<1>1. stack \in Seq(Frame) /\ Len(stack) \in Nat /\ 1 \in 1..Len(stack) /\ stack[1] \in Frame
  BY TopFacts
<1>2. stack'[1].cells = stack[1].cells \ {c}
  BY <1>1 DEF Visited, Frame
<1> QED
  BY <1>1, <1>2, VisitedFacts DEF Shifted

LEMMA LeaveCellProtection ==
    ASSUME HierarchyInv, HierarchyInv', ProtectionInv, VisitCell,
           NEW c \in stack[1].cells, LeaveCell(c)
    PROVE  ProtectionInv'
<1>1. /\ UNCHANGED <<input, pc, design, edges, todo, wrapper, path, toRemove>>
      /\ pc = "full" /\ stack # <<>> /\ stack' = Visited(c)
  BY DEF VisitCell, LeaveCell
<1>2. AccountsOK' /\ SourceOK' /\ MarkedOK' /\ ReachedOK' /\ CellsOK'
  <2> DEFINE S == {}
  <2>1. /\ pc \in Late /\ pc' \in Late /\ todo' \subseteq todo
        /\ \A x \in S : x \notin todo' /\ Reached(x)'
    BY <1>1 DEF Late
  <2>2. \A x \in DOMAIN design' \ S :
             /\ x \in DOMAIN design
             /\ x \in todo => x \in todo'
             /\ design'[x].cells = design[x].cells
             /\ design'[x].bb <=> design[x].bb
             /\ design'[x].proper <=> design[x].proper
             /\ design'[x].impl = design[x].impl
    BY <1>1
  <2> HIDE DEF S
  <2> QED
    BY <1>1, <2>1, <2>2, GrownProtection
<1>3. TopsOK'
  BY <1>1, TopsKept DEF ProtectionInv
<1>4. FramesOK'
  <2>1. Shifted(0) /\ Len(stack') = Len(stack)
    BY <1>1, VisitedShifted
  <2>2. ASSUME NEW j \in 1..Len(stack') PROVE FrameCells(j)'
    <3>1. PICK i \in 1..Len(stack) : i = j
      BY <2>1
    <3>2. FrameCells(i) /\ Len(stack) \in Nat
      BY FrameFacts
    <3>3. stack'[j].cells \subseteq stack[i].cells
      BY <2>1, <3>1, <3>2 DEF Shifted
    <3>4. /\ \A k \in stack'[j].cells : k \in design'[stack[i].mod].cells
          /\ stack[i].cell \in design'[stack[i].owner].cells
      BY <1>1, <3>2, <3>3 DEF FrameCells
    <3>5. 0 \in {-1, 0, 1} /\ j = i + 0 /\ DOMAIN design \subseteq DOMAIN design'
      BY <1>1, <3>1
    <3> QED
      BY <1>1, <2>1, <3>2, <3>4, <3>5, FrameCellsKept
  <2>3. \A i \in path'..3 : Duplicate(Template(wrapper'), i) \in design'[wrapper'].cells
    BY <1>1 DEF ProtectionInv, FramesOK
  <2> QED
    BY <2>2, <2>3 DEF FramesOK
<1> QED
  BY <1>2, <1>3, <1>4 DEF ProtectionInv

LEMMA ReuseCloneProtection ==
    ASSUME HierarchyInv, HierarchyInv', ProtectionInv, VisitCell,
           NEW c \in stack[1].cells, ReuseClone(c)
    PROVE  ProtectionInv'
<1>0. PICK o, un : o = stack[1].mod /\ un = UniqueName(c)
  OBVIOUS
<1>1. /\ pc = "full" /\ stack # <<>>
      /\ UNCHANGED <<input, pc, edges, todo, wrapper, path, toRemove>>
      /\ c \in Cell /\ c.type \in DOMAIN design /\ c.type \in Name /\ c.type # <<>>
      /\ PathSuffix[path] \in PathSuffixes /\ un = Append(c.type, PathSuffix[path])
      /\ un \in DOMAIN design /\ un \notin UserName
      /\ o \in DOMAIN design /\ o \notin UserName
      /\ DOMAIN design' = DOMAIN design
      /\ \A x \in DOMAIN design : x # o => design'[x] = design[x]
      /\ design'[o].cells = (design[o].cells \ {c}) \cup {[c EXCEPT !.type = un]}
      /\ design'[o].bb = design[o].bb /\ design'[o].impl = design[o].impl
  BY <1>0, ReuseCloneStep
<1>2. stack' = Visited(c)
  BY DEF ReuseClone
<1>3. Shifted(0) /\ Len(stack') = Len(stack) /\ stack'[1].cells = stack[1].cells \ {c}
  BY <1>1, <1>2, VisitedShifted
<1>4. 1 \in 1..Len(stack)
  BY <1>1, TopFacts
<1>5. FrameCells(1) /\ o # wrapper /\ \A i \in 2..Len(stack) : stack[i].mod # o
  <2>1. FrameCells(1) /\ o # wrapper /\ \A i \in 1 + 1..Len(stack) : stack[i].mod # o
    BY <1>0, <1>4, FrameFacts
  <2> QED
    BY <2>1
<1>6. c \in design[o].cells /\ o \notin todo
  <2>1. o \notin todo
    BY <1>1 DEF HierarchyInv, TypeOK
  <2> QED
    BY <1>0, <1>5, <2>1 DEF FrameCells
<1>7. SameAs(un, c.type)
  <2>1. PICK n \in DOMAIN design : n = c.type
    BY <1>1
  <2>2. n \in Name /\ n # <<>> /\ n[1] \in User
    BY DesignNames
  <2>3. SameAs(Append(n, PathSuffix[path]), n)
    BY <1>1, <2>2, PathSame
  <2> QED
    BY <1>1, <2>1, <2>3
<1>8. Reached(o)'
  BY <1>1, <1>6, <1>7, RetypeReached
<1>9. AccountsOK' /\ SourceOK' /\ MarkedOK' /\ ReachedOK' /\ CellsOK'
  <2> DEFINE S == {o}
  <2>1. /\ pc \in Late /\ pc' \in Late /\ todo' \subseteq todo
        /\ \A x \in S : x \notin todo' /\ Reached(x)'
    BY <1>1, <1>6, <1>8 DEF Late
  <2>2. \A x \in DOMAIN design' \ S :
             /\ x \in DOMAIN design
             /\ x \in todo => x \in todo'
             /\ design'[x].cells = design[x].cells
             /\ design'[x].bb <=> design[x].bb
             /\ design'[x].proper <=> design[x].proper
             /\ design'[x].impl = design[x].impl
    BY <1>1
  <2> HIDE DEF S
  <2> QED
    BY <1>1, <2>1, <2>2, GrownProtection
<1>10. TopsOK'
  BY <1>1, TopsKept DEF ProtectionInv
<1>11. FramesOK'
  <2>1. ASSUME NEW j \in 1..Len(stack') PROVE FrameCells(j)'
    <3>1. PICK i \in 1..Len(stack) : i = j
      BY <1>3
    <3>2. /\ FrameCells(i) /\ Len(stack) \in Nat
          /\ stack[i].mod \in DOMAIN design /\ stack[i].owner \in DOMAIN design
      BY FrameFacts
    <3>3. stack'[j].cells \subseteq stack[i].cells /\ (i = 1 => c \notin stack'[j].cells)
      BY <1>3, <3>1, <3>2 DEF Shifted
    <3>4. \A k \in stack'[j].cells : k \in design'[stack[i].mod].cells
      <4>1. CASE i = 1
        BY <1>0, <1>1, <3>2, <3>3, <4>1 DEF FrameCells
      <4>2. CASE i # 1
        BY <1>1, <1>5, <3>2, <3>3, <4>2 DEF FrameCells
      <4> QED
        BY <4>1, <4>2
    <3>5. stack[i].owner # o
      <4>1. \A h \in 1..i : stack[i].owner # stack[h].mod
        BY FrameFacts
      <4> QED
        BY <1>0, <4>1
    <3>6. stack[i].cell \in design'[stack[i].owner].cells
      BY <1>1, <3>2, <3>5 DEF FrameCells
    <3>7. 0 \in {-1, 0, 1} /\ j = i + 0 /\ DOMAIN design \subseteq DOMAIN design'
      BY <1>1, <3>1
    <3> QED
      BY <1>1, <1>3, <3>2, <3>4, <3>6, <3>7, FrameCellsKept
  <2>2. wrapper \in DOMAIN design
    BY <1>1, FullFacts
  <2>3. \A i \in path'..3 : Duplicate(Template(wrapper'), i) \in design'[wrapper'].cells
    BY <1>1, <1>5, <2>2 DEF ProtectionInv, FramesOK
  <2> QED
    BY <2>1, <2>3 DEF FramesOK
<1> QED
  BY <1>9, <1>10, <1>11 DEF ProtectionInv

LEMMA ReturnProtection ==
    ASSUME HierarchyInv, HierarchyInv', ProtectionInv, Return
    PROVE  ProtectionInv'
<1>0. PICK o, f, c : o = stack[1].owner /\ f = stack[1].mod /\ c = stack[1].cell
  OBVIOUS
<1>1. /\ pc = "full" /\ stack # <<>> /\ path \in 1..3
      /\ UNCHANGED <<input, pc, edges, todo, wrapper, toRemove>>
      /\ c \in Cell /\ f \in DOMAIN design /\ f \notin UserName
      /\ o \in DOMAIN design /\ (o = wrapper \/ o \notin UserName)
      /\ DOMAIN design' = DOMAIN design
      /\ \A x \in DOMAIN design : x # o => design'[x] = design[x]
      /\ design'[o].cells = (design[o].cells \ {c}) \cup {[c EXCEPT !.type = f]}
      /\ design'[o].bb = design[o].bb /\ design'[o].impl = design[o].impl
      /\ Len(stack) \in Nat /\ Len(stack) >= 1 /\ Len(stack') = Len(stack) - 1
      /\ \A i \in 1..Len(stack') : stack'[i] = stack[i + 1]
      /\ path' = IF Len(stack) = 1 THEN path + 1 ELSE path
  BY <1>0, ReturnStep
<1>2. Shifted(-1)
  <2>1. Len(stack') = Len(stack) + -1
    BY <1>1
  <2>2. ASSUME NEW h \in 1..Len(stack), h + -1 >= 1 PROVE stack'[h + -1] = stack[h]
    <3>1. PICK i \in 1..Len(stack') : i = h + -1 /\ h = i + 1
      <4>1. h + -1 \in 1..Len(stack') /\ h = (h + -1) + 1
        BY <1>1, <2>2
      <4> QED
        BY <4>1
    <3> QED
      BY <1>1, <3>1
  <2> QED
    BY <2>1, <2>2 DEF Shifted
<1>3. 1 \in 1..Len(stack)
  BY <1>1
<1>4. /\ c \in design[o].cells /\ c.type \in DOMAIN design /\ SameAs(f, c.type)
      /\ Len(stack) > 1 => o = stack[2].mod /\ c \notin stack[2].cells
  <2>1. FrameCells(1)
    BY <1>3, FrameFacts
  <2> QED
    BY <1>0, <1>1, <2>1 DEF FrameCells
<1>5. o \notin todo
  BY <1>1 DEF HierarchyInv, TypeOK, TodoOK
<1>6. Reached(o)'
  BY <1>1, <1>4, <1>5, RetypeReached
<1>7. AccountsOK' /\ SourceOK' /\ MarkedOK' /\ ReachedOK' /\ CellsOK'
  <2> DEFINE S == {o}
  <2>1. /\ pc \in Late /\ pc' \in Late /\ todo' \subseteq todo
        /\ \A x \in S : x \notin todo' /\ Reached(x)'
    BY <1>1, <1>5, <1>6 DEF Late
  <2>2. \A x \in DOMAIN design' \ S :
             /\ x \in DOMAIN design
             /\ x \in todo => x \in todo'
             /\ design'[x].cells = design[x].cells
             /\ design'[x].bb <=> design[x].bb
             /\ design'[x].proper <=> design[x].proper
             /\ design'[x].impl = design[x].impl
    BY <1>1
  <2> HIDE DEF S
  <2> QED
    BY <1>1, <2>1, <2>2, GrownProtection
<1>8. TopsOK'
  BY <1>1, TopsKept DEF ProtectionInv
<1>9. ASSUME NEW j \in 1..Len(stack') PROVE FrameCells(j)'
  <2>1. PICK i \in 1..Len(stack) : i = j + 1
    <3>1. j + 1 \in 1..Len(stack)
      BY <1>1
    <3> QED
      BY <3>1
  <2>2. /\ FrameCells(i) /\ stack[i].mod \in DOMAIN design /\ stack[i].owner \in DOMAIN design
        /\ stack[i].mod # wrapper
        /\ \A h \in 1..i : stack[i].owner # stack[h].mod
        /\ stack[i].owner = wrapper \/ (i < Len(stack) /\ stack[i].owner = stack[i + 1].mod)
    BY FrameFacts
  <2>3. i >= 2 /\ Len(stack) > 1 /\ o = stack[2].mod /\ stack'[j] = stack[i]
    BY <1>1, <1>4, <2>1
  <2>4. stack[i].owner # o
    BY <2>2, <2>3
  <2>5. \A k \in stack'[j].cells : k \in design'[stack[i].mod].cells
    <3>1. stack[i].cells \subseteq design[stack[i].mod].cells
      BY <2>2 DEF FrameCells
    <3>2. CASE i = 2
      BY <1>1, <1>4, <2>3, <3>1, <3>2
    <3>3. CASE i # 2
      <4>1. 2 \in 1..Len(stack) /\ i \in 2 + 1..Len(stack)
        BY <2>3, <3>3
      <4>2. stack[2].mod # stack[i].mod
        BY <4>1, FrameFacts
      <4> QED
        BY <1>1, <2>2, <2>3, <3>1, <4>2
    <3> QED
      BY <3>2, <3>3
  <2>6. stack[i].cell \in design'[stack[i].owner].cells
    BY <1>1, <2>2, <2>4 DEF FrameCells
  <2>7. -1 \in {-1, 0, 1} /\ j = i + -1 /\ DOMAIN design \subseteq DOMAIN design'
    BY <1>1, <2>1
  <2> QED
    BY <1>1, <1>2, <2>2, <2>5, <2>6, <2>7, FrameCellsKept
<1>10. \A i \in path'..3 : Duplicate(Template(wrapper'), i) \in design'[wrapper'].cells
  <2> TAKE i \in path'..3
  <2>1. i \in path..3 /\ (Len(stack) = 1 => i # path)
    BY <1>1
  <2>2. Duplicate(Template(wrapper), i) \in design[wrapper].cells
    BY <1>1, <2>1 DEF ProtectionInv, FramesOK
  <2>3. wrapper \in DOMAIN design /\ wrapper \in Name /\ wrapper # <<>>
    BY <1>1, FullFacts
  <2>4. CASE Len(stack) = 1
    <3>1. FrameOK(1)
      BY <1>1, TopFacts
    <3>2. c = Duplicate(Template(wrapper), path)
      BY <1>0, <2>4, <3>1 DEF FrameOK
    <3>3. i \in 1..3
      BY <1>1, <2>1
    <3>4. Duplicate(Template(wrapper), i) # c
      BY <1>1, <2>1, <2>3, <2>4, <3>2, <3>3, TemplateFacts
    <3> QED
      BY <1>1, <2>2, <2>3, <3>4
  <2>5. CASE Len(stack) # 1
    <3>1. Len(stack) > 1 /\ 2 \in 1..Len(stack)
      BY <1>1, <2>5
    <3>2. stack[2].mod # wrapper
      BY <3>1, FrameFacts
    <3> QED
      BY <1>1, <1>4, <2>2, <2>3, <3>1, <3>2
  <2> QED
    BY <2>4, <2>5
<1>11. FramesOK'
  BY <1>9, <1>10 DEF FramesOK
<1> QED
  BY <1>7, <1>8, <1>11 DEF ProtectionInv

LEMMA CloneReached ==
    ASSUME HierarchyInv, ProtectionInv, pc = "full", UNCHANGED <<input, todo>>,
           NEW src \in DOMAIN design, src \notin todo,
           NEW un, un \notin UserName, SameAs(un, src),
           design'[un].cells = design[src].cells, design'[un].bb = design[src].bb
    PROVE  Reached(un)'
<1>1. PICK D : D = design[src].cells
  OBVIOUS
<1>2. /\ Base(un) = Base(src) /\ Rank(un) = Rank(src) /\ Expected(un) = Expected(src)
  BY DEF SameAs, Expected
<1>3. \A c : Weight(un, c) = Weight(src, c)
  BY <1>2 DEF Weight
<1>4. Amount(un, D) = Amount(src, D)
  BY <1>3 DEF Amount
<1>5. CellsOf(src, D) /\ (~design[src].bb => Amount(src, D) = Expected(src))
  BY <1>1 DEF ProtectionInv, CellsOK, AccountsOK, Accounted
<1>6. CellsOf(un, D)
  BY <1>2, <1>5 DEF CellsOf
<1>7. (Accounted(un)' <=> Amount(un, D) = Expected(un)) /\ CellsOf(un, design[un].cells)'
  BY <1>1, <1>6, NextAccount
<1>8. ~design'[un].bb => Accounted(un)'
  BY <1>2, <1>4, <1>5, <1>7
<1>9. \A c \in design'[un].cells : c.type \notin todo'
  BY DEF ProtectionInv, ReachedOK
<1>10. un \notin input'.bb
  BY DEF HierarchyInv, TypeOK, InputType
<1> QED
  BY <1>7, <1>8, <1>9, <1>10 DEF Reached

LEMMA CloneWorkerProtection ==
    ASSUME HierarchyInv, HierarchyInv', IdentityInv, ProtectionInv, CloneWorker
    PROVE  ProtectionInv'
<1>0. PICK t, un : t = Template(wrapper) /\ un = WorkerName(path)
  OBVIOUS
<1>1. /\ pc = "full" /\ path \in 1..3 /\ stack = <<>>
      /\ UNCHANGED <<input, pc, edges, todo, wrapper, path, toRemove>>
      /\ t \in DOMAIN design /\ t \notin UserName
      /\ un = Append(t, PathSuffix[path]) /\ PathSuffix[path] \in PathSuffixes
      /\ un \notin UserName /\ un # t /\ un # wrapper
      /\ DOMAIN design' = DOMAIN design \cup {un}
      /\ design'[un].cells = design[t].cells
      /\ design'[un].bb = design[t].bb
      /\ \A x \in DOMAIN design : x # un => design'[x] = design[x]
      /\ stack' = <<[mod |-> un, cells |-> design[t].cells, owner |-> wrapper,
                     cell |-> Duplicate(t, path)]>>
  BY <1>0, CloneWorkerStep
<1>2. t \in Name /\ t # <<>> /\ t[1] \in User /\ t \notin todo /\ t \notin Primitive
  <2>1. t \in Name /\ t # <<>> /\ t[1] \in User /\ t \notin Primitive
    BY <1>1, DesignNames
  <2> QED
    BY <1>1, <2>1 DEF HierarchyInv, TypeOK
<1>3. SameAs(un, t)
  BY <1>1, <1>2, PathSame
<1>4. Reached(un)'
  BY <1>1, <1>2, <1>3, CloneReached
<1>5. AccountsOK' /\ SourceOK' /\ MarkedOK' /\ ReachedOK' /\ CellsOK'
  <2> DEFINE S == {un}
  <2>1. /\ pc \in Late /\ pc' \in Late /\ todo' \subseteq todo
        /\ \A x \in S : x \notin todo' /\ Reached(x)'
    <3>1. un \notin todo'
      BY <1>1 DEF HierarchyInv, TypeOK
    <3> QED
      BY <1>1, <1>4, <3>1 DEF Late
  <2>2. \A x \in DOMAIN design' \ S :
             /\ x \in DOMAIN design
             /\ x \in todo => x \in todo'
             /\ design'[x].cells = design[x].cells
             /\ design'[x].bb <=> design[x].bb
             /\ design'[x].proper <=> design[x].proper
             /\ design'[x].impl = design[x].impl
    BY <1>1
  <2> HIDE DEF S
  <2> QED
    BY <1>1, <2>1, <2>2, GrownProtection
<1>6. TopsOK'
  BY <1>1, TopsKept DEF ProtectionInv, Tops
<1>7. wrapper \in DOMAIN design /\ design'[wrapper] = design[wrapper]
  BY <1>1, FullFacts
<1>8. \A i \in path..3 : Duplicate(t, i) \in design[wrapper].cells
  BY <1>0, <1>1 DEF ProtectionInv, FramesOK
<1>9. FrameCells(1)'
  <2>1. PICK d : d = Duplicate(t, path)
    OBVIOUS
  <2>2. d \in design[wrapper].cells /\ d.type = t
    <3>1. path \in path..3
      BY <1>1
    <3>2. d.type = t
      BY <2>1 DEF Duplicate
    <3> QED
      BY <1>8, <2>1, <3>1, <3>2
  <2>3. Rank(t) < Rank(wrapper)
    BY <1>2, <1>7, <2>2 DEF ProtectionInv, CellsOK, CellsOf
  <2>4. Rank(un) < Rank(wrapper) /\ SameAs(un, t)'
    BY <1>1, <1>3, <2>3, ExpectedKept DEF SameAs
  <2>5. /\ Len(stack') = 1 /\ stack'[1].mod = un /\ stack'[1].cells = design[t].cells
        /\ stack'[1].owner = wrapper /\ stack'[1].cell = d
    BY <1>1, <2>1
  <2>6. SameAs(stack[1].mod, stack[1].cell.type)'
    BY <2>2, <2>4, <2>5
  <2>7. /\ stack'[1].cells \subseteq design'[stack'[1].mod].cells
        /\ stack'[1].cell \in design'[stack'[1].owner].cells
        /\ stack'[1].cell.type \in DOMAIN design'
        /\ Rank(stack'[1].mod) < Rank(wrapper')
    BY <1>1, <1>7, <2>2, <2>4, <2>5
  <2>8. ~(1 < Len(stack')) /\ 1 + 1..Len(stack') = {}
    BY <2>5
  <2> QED
    BY <2>6, <2>7, <2>8 DEF FrameCells
<1>10. FramesOK'
  <2>1. \A i \in 1..Len(stack') : i = 1
    BY <1>1
  <2>2. \A i \in path'..3 : Duplicate(Template(wrapper'), i) \in design'[wrapper'].cells
    BY <1>0, <1>1, <1>7, <1>8
  <2> QED
    BY <1>9, <2>1, <2>2 DEF FramesOK
<1> QED
  BY <1>5, <1>6, <1>10 DEF ProtectionInv

LEMMA CloneSubmoduleProtection ==
    ASSUME HierarchyInv, HierarchyInv', ProtectionInv, VisitCell,
           NEW c \in stack[1].cells, CloneSubmodule(c)
    PROVE  ProtectionInv'
<1>0. PICK un, src, o : un = UniqueName(c) /\ src = c.type /\ o = stack[1].mod
  OBVIOUS
<1>1. /\ pc = "full" /\ stack # <<>>
      /\ UNCHANGED <<input, pc, edges, todo, wrapper, path, toRemove>>
      /\ src \in DOMAIN design
      /\ PathSuffix[path] \in PathSuffixes
      /\ un = Append(src, PathSuffix[path]) /\ un \notin DOMAIN design /\ un \notin UserName
      /\ DOMAIN design' = DOMAIN design \cup {un}
      /\ design'[un].cells = design[src].cells
      /\ design'[un].bb = design[src].bb
      /\ \A x \in DOMAIN design : x # un => design'[x] = design[x]
      /\ Len(stack') = Len(stack) + 1 /\ Len(stack) \in Nat
      /\ stack'[1] = [mod |-> un, cells |-> design[src].cells, owner |-> o, cell |-> c]
  BY <1>0, CloneSubmoduleStep
<1>2. Shifted(1) /\ c \notin stack'[2].cells
  <2>1. \A i \in 1..Len(stack) :
          /\ stack'[i + 1].mod = stack[i].mod
          /\ stack'[i + 1].owner = stack[i].owner
          /\ stack'[i + 1].cell = stack[i].cell
          /\ stack'[i + 1].cells \subseteq stack[i].cells
    BY CloneSubmoduleStep
  <2>2. c \notin stack'[2].cells
    <3>1. PICK v : v = Visited(c)
      OBVIOUS
    <3>2. v \in Seq(Frame) /\ Len(v) = Len(stack) /\ 1 \in 1..Len(stack)
      BY <1>1, <3>1, VisitedFacts, TopFacts
    <3>3. v[1].cells = stack[1].cells \ {c}
      <4>1. stack \in Seq(Frame) /\ stack[1] \in Frame
        BY <1>1, TopFacts
      <4> QED
        BY <3>1, <3>2, <4>1 DEF Visited, Frame
    <3>4. PICK f : f = [mod |-> un, cells |-> design[src].cells, owner |-> o, cell |-> c]
      OBVIOUS
    <3>5. stack' = <<f>> \o v
      BY <1>0, <3>1, <3>4 DEF CloneSubmodule
    <3>6. stack'[2] = v[1]
      BY <3>2, <3>5
    <3> QED
      BY <3>3, <3>6
  <2> QED
    BY <1>1, <2>1, <2>2 DEF Shifted
<1>3. 1 \in 1..Len(stack) /\ o \in DOMAIN design /\ o \notin UserName
  BY <1>0, <1>1, TopFacts DEF FrameOK
<1>4. FrameCells(1) /\ c \in design[o].cells /\ Rank(o) < Rank(wrapper)
  <2>1. FrameCells(1)
    BY <1>3, FrameFacts
  <2> QED
    BY <1>0, <2>1 DEF FrameCells
<1>5. /\ src \in Name /\ src # <<>> /\ src[1] \in User /\ src \notin Primitive
  BY <1>1, DesignNames
<1>6. src \notin todo /\ o \notin todo
  <2>1. o \notin todo
    BY <1>3 DEF HierarchyInv, TypeOK
  <2> QED
    BY <1>0, <1>1, <1>3, <1>4, <2>1 DEF ProtectionInv, ReachedOK
<1>7. SameAs(un, src)
  BY <1>1, <1>5, PathSame
<1>8. Reached(un)'
  BY <1>1, <1>6, <1>7, CloneReached
<1>9. AccountsOK' /\ SourceOK' /\ MarkedOK' /\ ReachedOK' /\ CellsOK'
  <2> DEFINE S == {un}
  <2>1. /\ pc \in Late /\ pc' \in Late /\ todo' \subseteq todo
        /\ \A x \in S : x \notin todo' /\ Reached(x)'
    <3>1. un \notin todo'
      BY <1>1 DEF HierarchyInv, TypeOK
    <3> QED
      BY <1>1, <1>8, <3>1 DEF Late
  <2>2. \A x \in DOMAIN design' \ S :
             /\ x \in DOMAIN design
             /\ x \in todo => x \in todo'
             /\ design'[x].cells = design[x].cells
             /\ design'[x].bb <=> design[x].bb
             /\ design'[x].proper <=> design[x].proper
             /\ design'[x].impl = design[x].impl
    BY <1>1
  <2> HIDE DEF S
  <2> QED
    BY <1>1, <2>1, <2>2, GrownProtection
<1>10. TopsOK'
  BY <1>1, TopsKept DEF ProtectionInv, Tops
<1>11. Rank(un) = Rank(src) /\ Rank(src) < Rank(o)
  BY <1>0, <1>3, <1>4, <1>5, <1>7 DEF SameAs, ProtectionInv, CellsOK, CellsOf
<1>12. \A n \in DOMAIN design : Rank(n) \in Nat
  <2> TAKE n \in DOMAIN design
  <2>1. n \in Name /\ n # <<>> /\ n[1] \in User
    BY DesignNames
  <2> QED
    BY <2>1, RankFacts
<1>13. \A j \in 1..Len(stack) : Rank(un) < Rank(stack[j].mod)
  <2> TAKE j \in 1..Len(stack)
  <2>1. j = 1 \/ j \in 1 + 1..Len(stack)
    OBVIOUS
  <2>2. Rank(o) < Rank(stack[j].mod) \/ o = stack[j].mod
    BY <1>0, <1>4, <2>1 DEF FrameCells
  <2>3. stack[j].mod \in DOMAIN design
    BY FrameFacts
  <2> QED
    BY <1>1, <1>3, <1>11, <1>12, <2>2, <2>3
<1>14. Rank(un) < Rank(wrapper)
  <2>1. wrapper \in DOMAIN design
    BY <1>1, FullFacts
  <2> QED
    BY <1>1, <1>3, <1>4, <1>11, <1>12, <2>1
<1>15. FrameCells(1)'
  <2>1. /\ stack'[1].mod = un /\ stack'[1].cells = design[src].cells
        /\ stack'[1].owner = o /\ stack'[1].cell = c
    BY <1>1
  <2>2. SameAs(un, src)'
    BY <1>1, <1>7, ExpectedKept
  <2>3. SameAs(stack[1].mod, stack[1].cell.type)'
    BY <1>0, <2>1, <2>2
  <2>4. /\ stack'[1].cells \subseteq design'[stack'[1].mod].cells
        /\ stack'[1].cell \in design'[stack'[1].owner].cells
        /\ stack'[1].cell.type \in DOMAIN design'
        /\ Rank(stack'[1].mod) < Rank(wrapper')
    BY <1>0, <1>1, <1>3, <1>4, <1>14, <2>1
  <2>5. stack'[1 + 1].mod = o
    BY <1>0, <1>1, <1>2, <1>3 DEF Shifted
  <2>6. \A h \in 1 + 1..Len(stack') : Rank(un) < Rank(stack'[h].mod)
    <3> TAKE h \in 1 + 1..Len(stack')
    <3>1. PICK j \in 1..Len(stack) : h = j + 1
      <4>1. h - 1 \in 1..Len(stack) /\ h = (h - 1) + 1
        BY <1>1
      <4> QED
        BY <4>1
    <3>2. stack'[h].mod = stack[j].mod
      BY <3>1, <1>2 DEF Shifted
    <3> QED
      BY <1>13, <3>2
  <2> QED
    BY <1>2, <2>1, <2>3, <2>4, <2>5, <2>6 DEF FrameCells
<1>16. ASSUME NEW j \in 1..Len(stack'), j # 1 PROVE FrameCells(j)'
  <2>1. PICK i \in 1..Len(stack) : j = i + 1
    <3>1. j - 1 \in 1..Len(stack) /\ j = (j - 1) + 1
      BY <1>1, <1>16
    <3> QED
      BY <3>1
  <2>2. FrameCells(i) /\ stack[i].mod \in DOMAIN design /\ stack[i].owner \in DOMAIN design
    BY FrameFacts
  <2>3. stack'[j].cells \subseteq stack[i].cells
    BY <1>2, <2>1 DEF Shifted
  <2>4. /\ \A k \in stack'[j].cells : k \in design'[stack[i].mod].cells
        /\ stack[i].cell \in design'[stack[i].owner].cells
    BY <1>1, <2>2, <2>3 DEF FrameCells
  <2>5. 1 \in {-1, 0, 1} /\ DOMAIN design \subseteq DOMAIN design'
    BY <1>1
  <2> QED
    BY <1>1, <1>2, <2>1, <2>2, <2>4, <2>5, FrameCellsKept
<1>17. FramesOK'
  <2>1. wrapper \in DOMAIN design
    BY <1>1, FullFacts
  <2>2. \A i \in path'..3 : Duplicate(Template(wrapper'), i) \in design'[wrapper'].cells
    BY <1>1, <2>1 DEF ProtectionInv, FramesOK
  <2> QED
    BY <1>15, <1>16, <2>2 DEF FramesOK
<1> QED
  BY <1>9, <1>10, <1>17 DEF ProtectionInv

LEMMA FinishFullProtection ==
    ASSUME HierarchyInv, HierarchyInv', ProtectionInv, FinishFull
    PROVE  ProtectionInv'
<1>0. PICK k : k = Template(wrapper)
  OBVIOUS
<1>1. /\ pc = "full" /\ pc' = "process" /\ stack = <<>>
      /\ UNCHANGED <<input, edges, todo, stack, toRemove>>
      /\ k \notin UserName
      /\ DOMAIN design' = DOMAIN design \ {k}
      /\ \A x \in DOMAIN design' : x \in DOMAIN design /\ design'[x] = design[x]
  BY <1>0, FinishFullStep
<1>2. AccountsOK' /\ SourceOK' /\ MarkedOK' /\ ReachedOK' /\ CellsOK'
  <2> DEFINE S == {}
  <2>1. /\ pc \in Late /\ pc' \in Late /\ todo' \subseteq todo
        /\ \A x \in S : x \notin todo' /\ Reached(x)'
    BY <1>1 DEF Late
  <2>2. \A x \in DOMAIN design' \ S :
             /\ x \in DOMAIN design
             /\ x \in todo => x \in todo'
             /\ design'[x].cells = design[x].cells
             /\ design'[x].bb <=> design[x].bb
             /\ design'[x].proper <=> design[x].proper
             /\ design'[x].impl = design[x].impl
    BY <1>1
  <2> HIDE DEF S
  <2> QED
    BY <1>1, <2>1, <2>2, GrownProtection
<1>3. TopsOK'
  BY <1>1, TopsKept DEF ProtectionInv, Tops
<1>4. FramesOK'
  BY <1>1 DEF FramesOK
<1> QED
  BY <1>2, <1>3, <1>4 DEF ProtectionInv

LEMMA CleanupOneProtection ==
    ASSUME HierarchyInv, HierarchyInv', ProtectionInv, NEW n \in toRemove, CleanupOne(n)
    PROVE  ProtectionInv'
<1>1. /\ pc = "cleanup" /\ todo = {} /\ stack = <<>> /\ toRemove' = toRemove \ {n}
      /\ UNCHANGED <<input, pc, edges, todo, wrapper, path, stack>>
      /\ DOMAIN design \ {n} \subseteq DOMAIN design'
      /\ \A x \in DOMAIN design' : x \in DOMAIN design /\ design'[x] = design[x]
  BY CleanupOneStep
<1>2. AccountsOK' /\ SourceOK' /\ MarkedOK' /\ ReachedOK' /\ CellsOK'
  <2> DEFINE S == {}
  <2>1. /\ pc \in Late /\ pc' \in Late /\ todo' \subseteq todo
        /\ \A x \in S : x \notin todo' /\ Reached(x)'
    BY <1>1 DEF Late
  <2>2. \A x \in DOMAIN design' \ S :
             /\ x \in DOMAIN design
             /\ x \in todo => x \in todo'
             /\ design'[x].cells = design[x].cells
             /\ design'[x].bb <=> design[x].bb
             /\ design'[x].proper <=> design[x].proper
             /\ design'[x].impl = design[x].impl
    BY <1>1
  <2> HIDE DEF S
  <2> QED
    BY <1>1, <2>1, <2>2, GrownProtection
<1>3. TopsOK'
  BY <1>1, TopsKept DEF ProtectionInv
<1>4. FramesOK'
  BY <1>1 DEF FramesOK
<1> QED
  BY <1>2, <1>3, <1>4 DEF ProtectionInv

(* Steps that leave the design and the modules that wait alone.            *)
LEMMA IdleProtection ==
    ASSUME HierarchyInv, HierarchyInv', ProtectionInv, pc \in Late,
           StartCleanup \/ Finish \/ UNCHANGED vars
    PROVE  ProtectionInv'
<1>1. /\ UNCHANGED <<input, design, edges, todo, wrapper, path, stack>>
      /\ pc' \in Late
      /\ pc' \in {"process", "full"} => pc' = pc
      /\ pc' = pc \/ pc \in {"process", "cleanup"}
  BY DEF StartCleanup, Finish, vars, Late
<1>2. AccountsOK' /\ SourceOK' /\ MarkedOK' /\ ReachedOK' /\ CellsOK'
  <2> DEFINE S == {}
  <2>1. /\ todo' \subseteq todo
        /\ \A x \in S : x \notin todo' /\ Reached(x)'
    BY <1>1
  <2>2. \A x \in DOMAIN design' \ S :
             /\ x \in DOMAIN design
             /\ x \in todo => x \in todo'
             /\ design'[x].cells = design[x].cells
             /\ design'[x].bb <=> design[x].bb
             /\ design'[x].proper <=> design[x].proper
             /\ design'[x].impl = design[x].impl
    BY <1>1
  <2> HIDE DEF S
  <2> QED
    BY <1>1, <2>1, <2>2, GrownProtection
<1>3. TopsOK'
  <2>1. \A x \in Tops : (x \in DOMAIN design /\ x \notin toRemove) =>
             x \in DOMAIN design' /\ design'[x].impl = design[x].impl /\ x \notin toRemove'
    <3>1. \A x \in Tops : x \in DOMAIN design /\ x \notin toRemove /\ design[x].impl = NoName
      BY DEF ProtectionInv, TopsOK
    <3>2. CASE StartCleanup
      BY <1>1, <3>1, <3>2 DEF StartCleanup
    <3>3. CASE Finish
      BY <1>1, <3>1, <3>3 DEF Finish
    <3>4. CASE UNCHANGED vars
      BY <1>1, <3>1, <3>4 DEF vars
    <3> QED
      BY <3>2, <3>3, <3>4
  <2> QED
    BY <1>1, <2>1, TopsKept DEF ProtectionInv
<1>4. FramesOK'
  <2>1. CASE pc' = pc
    <3>1. \A i : FrameCells(i)' <=> FrameCells(i)
      BY <1>1, ExpectedKept DEF FrameCells, SameAs, Variant, Instantiated
    <3> QED
      BY <1>1, <2>1, <3>1 DEF ProtectionInv, FramesOK
  <2>2. CASE pc' # pc
    <3>1. pc # "full" /\ pc' # "full"
      BY <1>1, <2>2
    <3>2. stack = <<>>
      BY <3>1 DEF HierarchyInv, StackOK
    <3> QED
      BY <1>1, <3>1, <3>2 DEF FramesOK
  <2> QED
    BY <2>1, <2>2
<1> QED
  BY <1>2, <1>3, <1>4 DEF ProtectionInv

-----------------------------------------------------------------------------
(* The main loop: a module that is reached is as the user wrote it.        *)

LEMMA ReadyFacts ==
    ASSUME HierarchyInv, IdentityInv, ProtectionInv, pc = "process",
           NEW m \in todo, Ready(m)
    PROVE  /\ m \in UserName /\ m \in DOMAIN design /\ input \in Inputs
           /\ ConfigOf(m) = input.cfg[m]
           /\ design[m].cells = {SourceCell(e) : e \in input.cells[m[1]]}
           /\ design[m].proper <=> Instantiated(m)
           /\ design[m].bb <=> m \in input.bb
           /\ \A c \in design[m].cells : c.type \notin todo
           /\ CellsOf(m, design[m].cells)
           /\ Amount(m, design[m].cells) = AsWritten(input, Documented(input), m)
           /\ Counted(m, design[m].cells)
<1>1. m \in UserName /\ m \in DOMAIN design /\ input \in Inputs
  BY DEF HierarchyInv, TypeOK, TodoOK
<1>2. ConfigOf(m) = input.cfg[m]
  BY <1>1 DEF ConfigOf
<1>3. /\ design[m].cells = {SourceCell(e) : e \in input.cells[m[1]]}
      /\ design[m].proper <=> Instantiated(m)
  BY <1>1 DEF ProtectionInv, SourceOK
<1>4. design[m].bb <=> m \in input.bb
  BY <1>1 DEF ProtectionInv, MarkedOK, IdentityInv, BlackboxOK
<1>5. \A c \in design[m].cells : c.type \notin todo
  <2> TAKE c \in design[m].cells
  <2>1. c.type \in todo => <<m, c.type>> \in edges
    BY DEF ProtectionInv, ReachedOK
  <2> QED
    BY <2>1 DEF Ready
<1>6. CellsOf(m, design[m].cells)
  BY <1>1 DEF ProtectionInv, CellsOK
<1>7. PICK C : C = design[m].cells
  OBVIOUS
<1>8. Amount(m, C) = AsWritten(input, Documented(input), m) /\ Counted(m, C)
  <2>1. Base(m) = m
    BY <1>1, UserSame
  <2>2. C = {SourceCell(e) : e \in input.cells[m[1]]}
    BY <1>3, <1>7
  <2> QED
    BY <1>1, <2>1, <2>2, SourceTotal
<1> QED
  BY <1>1, <1>2, <1>3, <1>4, <1>5, <1>6, <1>7, <1>8

LEMMA SkipModuleProtection ==
    ASSUME HierarchyInv, HierarchyInv', IdentityInv, ProtectionInv,
           NEW m \in todo, SkipModule(m)
    PROVE  ProtectionInv'
<1>1. /\ pc = "process" /\ Ready(m) /\ Skipped(m) /\ todo' = todo \ {m}
      /\ UNCHANGED <<input, pc, design, edges, wrapper, path, stack, toRemove>>
  BY DEF SkipModule
<1>2. PICK D : D = design[m].cells
  OBVIOUS
<1>3. /\ m \in UserName /\ m \in DOMAIN design /\ input \in Inputs
      /\ ConfigOf(m) = input.cfg[m]
      /\ design[m].bb <=> m \in input.bb
      /\ \A c \in D : c.type \notin todo
      /\ CellsOf(m, D)
      /\ Amount(m, D) = AsWritten(input, Documented(input), m)
  BY <1>1, <1>2, ReadyFacts
<1>4. m \in input.bb \/ (input.cfg[m].mode = "None" /\ input.cfg[m].preserve)
  <2>1. input.cfg[m].mode = "None" => input.cfg[m].preserve
    BY <1>3, InputFacts
  <2> QED
    BY <1>1, <1>3, <2>1 DEF Skipped
<1>5. ~design[m].bb => Amount(m, D) = Expected(m)
  <2>1. SUFFICES ASSUME m \notin input.bb PROVE Amount(m, D) = Expected(m)
    BY <1>3
  <2>2. Variant(m) = "tmr" /\ Base(m) = m
    BY <1>3, <1>4, <2>1, UserSame
  <2>3. m \in Name /\ m # <<>> /\ m[1] \in User
    BY <1>3, UserNameFacts
  <2>4. Expected(m) = CountOf(input, Documented(input), m, "tmr")
    BY <1>3, <2>2, <2>3, ExpectedFacts
  <2> QED
    BY <1>3, <1>4, <2>1, <2>4 DEF CountOf
<1>6. Reached(m)'
  <2>1. D = design'[m].cells
    BY <1>1, <1>2
  <2>2. (Accounted(m)' <=> Amount(m, D) = Expected(m)) /\ CellsOf(m, design[m].cells)'
    BY <1>1, <1>2, <1>3, <2>1, NextAccount
  <2>3. ~design'[m].bb => Accounted(m)'
    BY <1>1, <1>5, <2>2
  <2>4. \A c \in design'[m].cells : c.type \notin todo'
    BY <1>1, <1>3, <2>1
  <2>5. m \in input'.bb => design'[m].bb
    BY <1>1, <1>3
  <2>6. (~input.cfg[m].preserve /\ m \notin input.bb)' => FALSE
    BY <1>1, <1>4
  <2> QED
    BY <2>2, <2>3, <2>4, <2>5, <2>6 DEF Reached
<1>7. AccountsOK' /\ SourceOK' /\ MarkedOK' /\ ReachedOK' /\ CellsOK'
  <2> DEFINE S == {m}
  <2>1. /\ pc \in Late /\ pc' \in Late /\ todo' \subseteq todo
        /\ \A x \in S : x \notin todo' /\ Reached(x)'
    BY <1>1, <1>6 DEF Late
  <2>2. \A x \in DOMAIN design' \ S :
             /\ x \in DOMAIN design
             /\ x \in todo => x \in todo'
             /\ design'[x].cells = design[x].cells
             /\ design'[x].bb <=> design[x].bb
             /\ design'[x].proper <=> design[x].proper
             /\ design'[x].impl = design[x].impl
    BY <1>1
  <2> HIDE DEF S
  <2> QED
    BY <1>1, <2>1, <2>2, GrownProtection
<1>8. TopsOK'
  BY <1>1, TopsKept DEF ProtectionInv
<1>9. FramesOK'
  <2>1. stack = <<>>
    BY <1>1 DEF HierarchyInv, StackOK
  <2> QED
    BY <1>1, <2>1 DEF FramesOK
<1> QED
  BY <1>7, <1>8, <1>9 DEF ProtectionInv

(* What is expanded is the TMR version of the module; the original stays   *)
(* as another version exactly when the module is instantiated and may not  *)
(* keep its ports.                                                         *)
LEMMA TargetVersion ==
    ASSUME HierarchyInv, IdentityInv, ProtectionInv, pc = "process",
           NEW m \in todo, Ready(m), NEW t, t = Target(m)
    PROVE  /\ t \in Name /\ t # <<>> /\ t[1] \in User /\ t \notin Primitive
           /\ Base(t) = m /\ Variant(t) = "tmr" /\ Rank(t) = 2 * LevelOf(m) + 1
           /\ LevelOf(t) = LevelOf(m)
           /\ Expected(t) = CountOf(input, Documented(input), m, "tmr")
           /\ t = m \/ (t = Append(m, ImplSuffix) /\ t \notin UserName /\ t \notin DOMAIN design)
           /\ t # m => Instantiated(m) /\ ~input.cfg[m].preserve /\ Variant(m) = "original"
           /\ t = m => ~Instantiated(m) \/ input.cfg[m].preserve
<1>1. /\ m \in UserName /\ m \in DOMAIN design /\ input \in Inputs
      /\ ConfigOf(m) = input.cfg[m]
      /\ design[m].proper <=> Instantiated(m)
  BY ReadyFacts
<1>2. /\ t \in Name /\ t # <<>> /\ t[1] = m[1] /\ t \notin Primitive
      /\ t = m \/ (t = Append(m, ImplSuffix) /\ t \notin UserName)
  BY TargetFacts
<1>3. t # m => t \notin DOMAIN design
  BY FreshTarget DEF IdentityInv
<1>4. m[1] \in User
  BY <1>1, UserNameFacts
<1>5. t = m <=> (~Instantiated(m) \/ input.cfg[m].preserve)
  <2>1. m \in Name /\ ImplSuffix \in Token
    BY <1>1, UserNameFacts, SuffixFacts
  <2>2. Append(m, ImplSuffix) # m
    <3>1. Len(Append(m, ImplSuffix)) = Len(m) + 1 /\ Len(m) \in Nat
      BY <2>1, LongerName
    <3> QED
      BY <3>1
  <2> QED
    BY <1>1, <2>2 DEF Target
<1>6. /\ Base(m) = m /\ Rank(m) = 2 * LevelOf(m) + 1
      /\ Variant(m) = IF ~Instantiated(m) \/ input.cfg[m].preserve THEN "tmr" ELSE "original"
      /\ Base(Append(m, ImplSuffix)) = m
      /\ Variant(Append(m, ImplSuffix)) = "tmr"
      /\ Rank(Append(m, ImplSuffix)) = 2 * LevelOf(m) + 1
  BY <1>1, UserSame
<1>7. Base(t) = m /\ Variant(t) = "tmr" /\ Rank(t) = 2 * LevelOf(m) + 1
  BY <1>2, <1>5, <1>6
<1>8. Expected(t) = CountOf(input, Documented(input), m, "tmr")
  BY <1>1, <1>2, <1>4, <1>7, ExpectedFacts
<1> QED
  BY <1>2, <1>3, <1>4, <1>5, <1>6, <1>7, <1>8 DEF LevelOf

LEMMA ImplRecorded ==
    ASSUME HierarchyInv, pc = "process", NEW m \in todo, NEW t, t = Target(m), t # m,
           design' = LogicTmrExpansion(WithTarget(m), t, ConfigOf(m))
             \/ design' = Wrap(WithTarget(m), t, ConfigOf(m))
    PROVE  design'[m].impl = t
<1>1. m \in DOMAIN design /\ design[m] \in Module
  <2>1. m \in DOMAIN design
    BY DEF HierarchyInv, TodoOK
  <2> QED
    BY <2>1, DesignNames
<1>2. PICK w : w = WithTarget(m)
  OBVIOUS
<1>3. w = Put([design EXCEPT ![m].impl = t], t, [design[m] EXCEPT !.proper = TRUE])
  BY <1>2 DEF WithTarget
<1>4. m \in DOMAIN w /\ w[m].impl = t
  BY <1>1, <1>3 DEF Put, Module
<1>5. CASE design' = LogicTmrExpansion(w, t, ConfigOf(m))
  BY <1>4, <1>5 DEF LogicTmrExpansion
<1>6. CASE design' = Wrap(w, t, ConfigOf(m))
  <2>1. m # Template(t)
    <3>1. m \in UserName /\ t \in Name /\ t # <<>>
      BY TargetFacts
    <3> QED
      BY <3>1, TemplateFacts
  <2> QED
    BY <1>4, <1>6, <2>1 DEF Wrap, Put
<1> QED
  BY <1>2, <1>5, <1>6

(* The original of a clone is left as the user wrote it.                   *)
LEMMA OriginalReached ==
    ASSUME HierarchyInv, IdentityInv, ProtectionInv, pc = "process",
           NEW m \in todo, Ready(m), NEW t, t = Target(m), t # m,
           UNCHANGED input, todo' = todo \ {m},
           design'[m].cells = design[m].cells, design'[m].bb <=> design[m].bb,
           design'[m].impl = t
    PROVE  Reached(m)'
<1>1. PICK D : D = design[m].cells
  OBVIOUS
<1>2. /\ m \in UserName /\ m \in DOMAIN design /\ input \in Inputs
      /\ design[m].bb <=> m \in input.bb
      /\ \A c \in D : c.type \notin todo
      /\ CellsOf(m, D)
      /\ Amount(m, D) = AsWritten(input, Documented(input), m)
  BY <1>1, ReadyFacts
<1>3. t # <<>> /\ Variant(m) = "original"
  BY TargetVersion
<1>4. ~design[m].bb => Amount(m, D) = Expected(m)
  <2>1. m \in Name /\ m # <<>> /\ m[1] \in User /\ Base(m) = m
    BY <1>2, UserNameFacts, UserSame
  <2>2. Expected(m) = CountOf(input, Documented(input), m, "original")
    BY <1>2, <1>3, <2>1, ExpectedFacts
  <2> QED
    BY <1>2, <2>2 DEF CountOf
<1>5. D = design'[m].cells
  BY <1>1
<1>6. (Accounted(m)' <=> Amount(m, D) = Expected(m)) /\ CellsOf(m, design[m].cells)'
  BY <1>1, <1>2, <1>5, NextAccount
<1>7. ~design'[m].bb => Accounted(m)'
  BY <1>4, <1>6
<1>8. \A c \in design'[m].cells : c.type \notin todo'
  BY <1>2, <1>5
<1>9. m \in input'.bb => design'[m].bb
  BY <1>2
<1>10. design'[m].impl # NoName
  BY <1>3 DEF NoName
<1> QED
  BY <1>6, <1>7, <1>8, <1>9, <1>10 DEF Reached

LEMMA SourceRanks ==
    ASSUME input \in Inputs, NEW m \in UserName, NEW e \in input.cells[m[1]],
           e[2] \notin Primitive
    PROVE  /\ e[2] \in UserName
           /\ Rank(e[2]) < 2 * LevelOf(m) /\ Rank(e[2]) = 2 * LevelOf(e[2]) + 1
           /\ LevelOf(e[2]) \in Nat /\ LevelOf(m) \in Nat
<1>1. e[2] \in UserName
  BY InputFacts DEF Primitive
<1>2. LevelOf(e[2]) \in Nat /\ LevelOf(m) \in Nat
  BY <1>1, InputFacts
<1>3. LevelOf(e[2]) < LevelOf(m)
  <2>1. PICK v \in User : e[2] = <<v>>
    BY <1>1 DEF UserName
  <2>2. m[1] \in User
    BY UserNameFacts
  <2>3. Level[v] < Level[m[1]]
    BY <2>1, <2>2, LevelAssumption
  <2> QED
    BY <2>1, <2>3 DEF LevelOf
<1>4. Rank(e[2]) = 2 * LevelOf(e[2]) + 1
  BY <1>1, UserSame
<1> QED
  BY <1>1, <1>2, <1>3, <1>4

LEMMA OneAmount ==
    ASSUME NEW n, NEW c, Weight(n, c) \in Count
    PROVE  Counted(n, {c}) /\ Amount(n, {c}) = Weight(n, c)
<1> DEFINE w == [k \in {c} |-> Weight(n, k)]
<1>1. DOMAIN w = {c} /\ w[c] = Weight(n, c)
  OBVIOUS
<1>2. Amount(n, {c}) = Total(w)
  BY DEF Amount
<1>3. IsFiniteSet({c})
  BY FS_Singleton
<1> HIDE DEF w
<1>4. Total(w) = w[c]
  BY <1>1, TotalOne
<1> QED
  BY <1>1, <1>2, <1>3, <1>4 DEF Counted

(* The template keeps what the user wrote and the wrapper has it three     *)
(* times.                                                                  *)
LEMMA ThreeWorkers ==
    ASSUME NEW t \in Name, t # <<>>, t[1] \in User, NEW k, k = Template(t),
           Rank(t) = 2 * LevelOf(t) + 1, LevelOf(t) \in Nat, Expected(k) \in Count,
           NEW C, C = {Duplicate(k, i) : i \in 1..3}
    PROVE  CellsOf(t, C) /\ Amount(t, C) = Times(3, Expected(k))
<1>1. PICK x, y, z : x = Duplicate(k, 1) /\ y = Duplicate(k, 2) /\ z = Duplicate(k, 3)
  OBVIOUS
<1>2. /\ k \notin Primitive
      /\ \A i \in 1..3 : /\ Duplicate(k, i).type = k /\ Duplicate(k, i).inst = "worker"
                         /\ Duplicate(k, i).path = PathSuffix[i]
  BY TemplateFacts DEF Duplicate
<1>3. x # y /\ x # z /\ y # z
  <2>1. \A i, j \in 1..3 : Duplicate(k, i) = Duplicate(k, j) => i = j
    BY TemplateFacts
  <2> QED
    BY <1>1, <2>1
<1>4. C = {x, y, z}
  BY <1>1
<1>5. \A c \in {x, y, z} : Weight(t, c) = Expected(k)
  BY <1>1, <1>2 DEF Weight
<1>6. PICK X, Y, Z, E : X = {x} /\ Y = {y} /\ Z = {z} /\ E = {x, y}
  OBVIOUS
<1>7. /\ Counted(t, X) /\ Amount(t, X) = Expected(k)
      /\ Counted(t, Y) /\ Amount(t, Y) = Expected(k)
      /\ Counted(t, Z) /\ Amount(t, Z) = Expected(k)
  BY <1>5, <1>6, OneAmount
<1>8. Counted(t, E) /\ Amount(t, E) = Plus(Expected(k), Expected(k))
  <2>1. Halves(E, X, Y)
    BY <1>3, <1>6 DEF Halves
  <2>2. Counted(t, E) /\ Amount(t, E) = Plus(Amount(t, X), Amount(t, Y))
    BY <1>7, <2>1, SplitAmount
  <2> QED
    BY <1>7, <2>2
<1>9. Counted(t, C) /\ Amount(t, C) = Plus(Plus(Expected(k), Expected(k)), Expected(k))
  <2>1. Halves(C, E, Z)
    BY <1>3, <1>4, <1>6 DEF Halves
  <2>2. Counted(t, C) /\ Amount(t, C) = Plus(Amount(t, E), Amount(t, Z))
    BY <1>7, <1>8, <2>1, SplitAmount
  <2> QED
    BY <1>7, <1>8, <2>2
<1>10. Plus(Plus(Expected(k), Expected(k)), Expected(k)) = Times(3, Expected(k))
  BY ThreeTimes
<1>11. CellsOf(t, C)
  <2>1. \A c, j \in C : c.inst = j.inst /\ c.path = j.path => c = j
    BY <1>2, PathsDiffer
  <2>2. \A c \in C : Rank(c.type) < Rank(t)
    <3>1. Rank(k) = 2 * LevelOf(t)
      BY TemplateSame
    <3> QED
      BY <1>2, <3>1
  <2> QED
    BY <1>9, <2>1, <2>2 DEF CellsOf, Counted
<1> QED
  BY <1>9, <1>10, <1>11

LEMMA StartFullProtection ==
    ASSUME HierarchyInv, HierarchyInv', IdentityInv, ProtectionInv,
           NEW m \in todo, StartFull(m)
    PROVE  ProtectionInv'
<1>0. PICK t, k, D : t = Target(m) /\ k = Template(t) /\ D = design[m].cells
  OBVIOUS
<1>1. /\ pc = "process" /\ pc' = "full" /\ todo' = todo \ {m} /\ stack = <<>>
      /\ wrapper' = t /\ path' = 1
      /\ UNCHANGED <<input, edges, stack, toRemove>>
      /\ ~design[m].bb /\ k # t /\ k \notin UserName /\ k \notin Primitive
      /\ DOMAIN design' = DOMAIN design \cup {t, k}
      /\ design'[t].cells = {Duplicate(k, i) : i \in 1..3}
      /\ ~design'[t].bb /\ design'[t].impl = NoName
      /\ design'[k].cells = D /\ ~design'[k].bb
      /\ ConfigOf(m).mode = "Full"
  <2>1. /\ pc = "process" /\ pc' = "full" /\ todo' = todo \ {m} /\ stack = <<>>
        /\ wrapper' = t /\ path' = 1
        /\ UNCHANGED <<input, edges, stack, toRemove>>
        /\ k # t /\ k \notin UserName /\ k \notin Primitive
        /\ DOMAIN design' = DOMAIN design \cup {t, k}
        /\ design'[t].impl = NoName /\ design'[k].cells = D
        /\ ConfigOf(m).mode = "Full"
    BY <1>0, StartFullStep
  <2>2. ~design[m].bb
    BY StartFullStep
  <2>3. ~design'[t].bb /\ ~design'[k].bb
    BY <1>0, StartFullStep, Zenon
  <2>4. design'[t].cells = {Duplicate(k, i) : i \in 1..3}
    <3>1. design'[Target(m)].cells = {Duplicate(Template(Target(m)), i) : i \in 1..3}
      BY StartFullStep
    <3>2. k = Template(Target(m))
      BY <1>0
    <3>3. \A i : Duplicate(k, i) = Duplicate(Template(Target(m)), i)
      BY <3>2
    <3> QED
      BY <1>0, <3>1, <3>3
  <2> QED
    BY <2>1, <2>2, <2>3, <2>4
<1>2. \A x \in DOMAIN design : x # t =>
        /\ design'[x].cells = design[x].cells
        /\ design'[x].bb <=> design[x].bb
        /\ design'[x].proper <=> design[x].proper
        /\ design'[x].impl = design[x].impl \/ x = m
  BY <1>0, StartFullOthers
<1>3. Ready(m)
  BY DEF StartFull
<1>4. /\ m \in UserName /\ m \in DOMAIN design /\ input \in Inputs
      /\ input.cfg[m].mode = "Full" /\ m \notin input.bb
      /\ D = {SourceCell(e) : e \in input.cells[m[1]]}
      /\ \A c \in D : c.type \notin todo
      /\ CellsOf(m, D)
      /\ Amount(m, D) = AsWritten(input, Documented(input), m)
  BY <1>0, <1>1, <1>3, ReadyFacts
<1>5. /\ t \in Name /\ t # <<>> /\ t[1] \in User
      /\ Base(t) = m /\ Rank(t) = 2 * LevelOf(m) + 1
      /\ LevelOf(t) = LevelOf(m)
      /\ Expected(t) = CountOf(input, Documented(input), m, "tmr")
      /\ t = m \/ (t \notin UserName /\ t \notin DOMAIN design)
      /\ t # m => Instantiated(m) /\ ~input.cfg[m].preserve
      /\ t = m => ~Instantiated(m) \/ input.cfg[m].preserve
  BY <1>0, <1>1, <1>3, TargetVersion
<1>6. /\ Base(k) = m /\ Variant(k) = "original" /\ Rank(k) = 2 * LevelOf(m)
      /\ k \in Name /\ k # <<>> /\ k[1] \in User
  <2>1. k \in Name /\ k # <<>> /\ k[1] = t[1]
    BY <1>0, <1>5, TemplateFacts
  <2>2. Base(k) = Base(t) /\ Variant(k) = "original" /\ Rank(k) = 2 * LevelOf(t)
    BY <1>0, <1>5, TemplateSame
  <2> QED
    BY <1>5, <2>1, <2>2
<1>7. Expected(k) = AsWritten(input, Documented(input), m) /\ Expected(k) \in Count
  <2>1. Expected(k) = CountOf(input, Documented(input), m, "original") /\ Expected(k) \in Count
    BY <1>4, <1>6, ExpectedFacts
  <2> QED
    BY <1>4, <2>1 DEF CountOf
<1>8. Expected(t) = Times(3, Expected(k))
  BY <1>4, <1>5, <1>7 DEF CountOf
<1>9. Amount(k, D) = Expected(k)
  <2>1. Base(m) = m
    BY <1>4, UserSame
  <2>2. \A c : Weight(k, c) = Weight(m, c)
    BY <1>6, <2>1 DEF Weight
  <2> QED
    BY <1>4, <1>7, <2>2 DEF Amount
<1>10. CellsOf(k, D)
  <2>1. ASSUME NEW c \in D, c.type \notin Primitive PROVE Rank(c.type) < Rank(k)
    <3>1. PICK e \in input.cells[m[1]] : c = SourceCell(e)
      BY <1>4
    <3>2. c.type = e[2]
      BY <2>1, <3>1, SourceCellFacts
    <3>3. Rank(e[2]) < 2 * LevelOf(m)
      BY <1>4, <2>1, <3>2, SourceRanks
    <3> QED
      BY <1>6, <3>2, <3>3
  <2> QED
    BY <1>4, <2>1 DEF CellsOf
<1>11. PICK C : C = {Duplicate(k, i) : i \in 1..3}
  OBVIOUS
<1>12. CellsOf(t, C) /\ Amount(t, C) = Expected(t)
  <2>1. LevelOf(t) \in Nat /\ Rank(t) = 2 * LevelOf(t) + 1
    BY <1>4, <1>5, InputFacts
  <2>2. CellsOf(t, C) /\ Amount(t, C) = Times(3, Expected(k))
    BY <1>0, <1>5, <1>7, <1>11, <2>1, ThreeWorkers
  <2> QED
    BY <1>8, <2>2
<1>13. Reached(t)'
  <2>1. C = design'[t].cells
    BY <1>1, <1>11
  <2>2. (Accounted(t)' <=> Amount(t, C) = Expected(t)) /\ (CellsOf(t, design[t].cells)' <=> CellsOf(t, C))
    BY <1>1, <2>1, NextAccount
  <2>3. \A c \in C : c.type = k
    BY <1>11 DEF Duplicate
  <2>4. \A c \in design'[t].cells : c.type \notin todo'
    <3>1. todo \subseteq UserName
      BY DEF HierarchyInv, TypeOK
    <3> QED
      BY <1>1, <2>1, <2>3, <3>1
  <2>5. t \notin input'.bb
    <3>1. input.bb \subseteq UserName
      BY DEF HierarchyInv, TypeOK, InputType
    <3> QED
      BY <1>1, <1>4, <1>5, <3>1
  <2>6. t \in UserName => ~Instantiated(t)' \/ input'.cfg[t].preserve
    BY <1>1, <1>5, ExpectedKept
  <2>7. Accounted(t)' /\ CellsOf(t, design[t].cells)'
    BY <1>12, <2>2
  <2> QED
    BY <2>4, <2>5, <2>6, <2>7 DEF Reached
<1>14. Reached(k)'
  <2>1. D = design'[k].cells
    BY <1>1
  <2>2. (Accounted(k)' <=> Amount(k, D) = Expected(k)) /\ (CellsOf(k, design[k].cells)' <=> CellsOf(k, D))
    BY <1>1, <2>1, NextAccount
  <2>3. Accounted(k)' /\ CellsOf(k, design[k].cells)'
    BY <1>9, <1>10, <2>2
  <2>4. \A c \in design'[k].cells : c.type \notin todo'
    BY <1>1, <1>4
  <2>5. k \notin input'.bb
    <3>1. input.bb \subseteq UserName
      BY DEF HierarchyInv, TypeOK, InputType
    <3> QED
      BY <1>1, <3>1
  <2> QED
    BY <1>1, <2>3, <2>4, <2>5 DEF Reached
<1>15. t # m => Reached(m)'
  <2> SUFFICES ASSUME t # m PROVE Reached(m)'
    OBVIOUS
  <2>1. design'[m].impl = t
    <3>1. design' = Wrap(WithTarget(m), t, ConfigOf(m))
      BY <1>0 DEF StartFull
    <3> QED
      BY <1>0, <1>1, <3>1, ImplRecorded
  <2>2. design'[m].cells = design[m].cells /\ (design'[m].bb <=> design[m].bb)
    BY <1>2, <1>4
  <2> QED
    BY <1>0, <1>1, <1>3, <2>1, <2>2, OriginalReached
<1>16. AccountsOK' /\ SourceOK' /\ MarkedOK' /\ ReachedOK' /\ CellsOK'
  <2> DEFINE S == {m, t, k}
  <2>1. /\ pc \in Late /\ pc' \in Late /\ todo' \subseteq todo
        /\ \A x \in S : x \notin todo' /\ Reached(x)'
    <3>1. todo \subseteq UserName /\ t \notin todo' /\ k \notin todo'
      BY <1>1, <1>5 DEF HierarchyInv, TypeOK
    <3> QED
      BY <1>1, <1>13, <1>14, <1>15, <3>1 DEF Late
  <2>2. \A x \in DOMAIN design' \ S :
             /\ x \in DOMAIN design
             /\ x \in todo => x \in todo'
             /\ design'[x].cells = design[x].cells
             /\ design'[x].bb <=> design[x].bb
             /\ design'[x].proper <=> design[x].proper
             /\ design'[x].impl = design[x].impl
    BY <1>1, <1>2
  <2> HIDE DEF S
  <2> QED
    BY <1>1, <2>1, <2>2, GrownProtection
<1>17. TopsOK'
  <2>1. \A x \in Tops : x \in DOMAIN design /\ x \notin toRemove /\ design[x].impl = NoName
    BY DEF ProtectionInv, TopsOK
  <2>2. \A x \in Tops : x = m => t = m
    BY <1>5 DEF Tops
  <2>3. \A x \in Tops : design'[x].impl = design[x].impl
    BY <1>1, <1>2, <1>5, <2>1, <2>2
  <2> QED
    BY <1>1, <2>1, <2>3, TopsKept DEF ProtectionInv
<1>18. FramesOK'
  <2>1. \A i \in path'..3 : Duplicate(Template(wrapper'), i) \in design'[wrapper'].cells
    BY <1>0, <1>1
  <2> QED
    BY <1>1, <2>1 DEF FramesOK
<1> QED
  BY <1>16, <1>17, <1>18 DEF ProtectionInv

-----------------------------------------------------------------------------
(* logicTmrExpansion: the logic of the source three times, and the TMR     *)
(* version of what the source instantiates once.                           *)

CopyOf(e, i, t, cfg) ==
    [SourceCell(e) EXCEPT !.path = PathSuffix[i],
                          !.voted = cfg.ffVoter /\ IsFlipFlop(SourceCell(e), t, cfg)]

LEMMA CopyFacts ==
    ASSUME NEW e, NEW i, NEW t, NEW cfg
    PROVE  /\ CopyOf(e, i, t, cfg).inst = e[1]
           /\ CopyOf(e, i, t, cfg).path = PathSuffix[i]
           /\ CopyOf(e, i, t, cfg).type = SourceCell(e).type
BY DEF CopyOf, SourceCell, UserCell

LEMMA ResolveFacts ==
    ASSUME NEW w, NEW e
    PROVE  /\ Resolve(w, SourceCell(e)).inst = e[1]
           /\ Resolve(w, SourceCell(e)).path = ""
           /\ Resolve(w, SourceCell(e)).type =
                IF w[SourceCell(e).type].impl # NoName THEN w[SourceCell(e).type].impl
                ELSE SourceCell(e).type
BY DEF Resolve, SourceCell, UserCell

(* What the code treats as logic is what the documentation does.           *)
LEMMA SourceLogic ==
    ASSUME HierarchyInv, IdentityInv, PortsInv, ProtectionInv, pc = "process",
           NEW m \in todo, Ready(m), NEW w, w = WithTarget(m), NEW e \in input.cells[m[1]]
    PROVE  IsLogicTree(w, SourceCell(e)) <=> e \in Logic(input, m)
<1>1. PICK t, c : t = Target(m) /\ c = SourceCell(e)
  OBVIOUS
<1>2. /\ m \in UserName /\ input \in Inputs
      /\ c \in design[m].cells
  BY <1>1, ReadyFacts
<1>3. /\ c.type = IF e[2] = BuiltinFf THEN RegisterType ELSE e[2]
      /\ RegisterType \in Primitive
      /\ e[2] \in UserName \cup {BuiltinFf}
  BY <1>1, <1>2, SourceCellFacts, InputFacts
<1>4. DOMAIN w = DOMAIN design \cup {t} /\ t \notin Primitive
  BY <1>1, TargetFacts
<1>5. \A x \in DOMAIN design : x # t => w[x].proper = design[x].proper /\ w[x].bb = design[x].bb
  BY <1>1, TargetModules
<1>6. \A x \in DOMAIN w : x \notin Primitive
  BY <1>4, DesignNames
<1>7. CASE e[2] = BuiltinFf
  <2>1. e \in Logic(input, m)
    BY <1>7, PrimitiveFacts DEF Logic
  <2>2. ~IsProper(w, c.type)
    BY <1>3, <1>6, <1>7 DEF IsProper
  <2> QED
    BY <1>1, <2>1, <2>2 DEF IsLogicTree
<1>8. CASE e[2] # BuiltinFf
  <2>1. c.type = e[2] /\ e[2] \in UserName /\ e[2] \notin Primitive
    BY <1>3, <1>8, PrimitiveFacts
  <2>2. /\ c.type \in DOMAIN design /\ c.type # t
        /\ design[c.type].proper \/ LastToken(c.type) = WorkerSuffix
    BY <1>1, <1>2, <2>1, TodoCells
  <2>3. design[c.type].proper
    BY <2>1, <2>2, UserNameFacts, SuffixFacts
  <2>4. design[c.type].bb <=> e[2] \in input.bb
    BY <2>1, <2>2 DEF ProtectionInv, MarkedOK, IdentityInv, BlackboxOK
  <2>5. IsProper(w, c.type) /\ (w[c.type].bb <=> e[2] \in input.bb)
    BY <1>4, <1>5, <2>2, <2>3, <2>4 DEF IsProper
  <2>6. e \in Logic(input, m) <=> e[2] \in input.bb
    BY <2>1 DEF Logic
  <2> QED
    BY <1>1, <2>5, <2>6 DEF IsLogicTree
<1> QED
  BY <1>7, <1>8

(* An instance of a module that has been reached gets its TMR version.     *)
LEMMA ResolvedVersion ==
    ASSUME HierarchyInv, IdentityInv, PortsInv, ProtectionInv, pc = "process",
           NEW m \in todo, Ready(m), NEW w, w = WithTarget(m), NEW e \in Subs(input, m)
    PROVE  LET s == Resolve(w, SourceCell(e)).type
           IN  /\ s \notin Primitive /\ s \notin todo
               /\ Expected(s) = Documented(input)[<<e[2], "tmr">>]
               /\ Rank(s) \in Nat /\ Rank(s) < 2 * LevelOf(m)
<1>1. PICK t, c, k : t = Target(m) /\ c = SourceCell(e) /\ k = e[2]
  OBVIOUS
<1>2. e \in input.cells[m[1]]
  BY DEF Subs
<1>3. /\ m \in UserName /\ input \in Inputs
      /\ c \in design[m].cells /\ c.type \notin todo
  BY <1>1, <1>2, ReadyFacts
<1>4. k \in UserName /\ k \notin input.bb /\ k \notin Primitive
  <2>1. k \in UserName /\ k \notin input.bb
    BY <1>1, <1>3, InputFacts
  <2> QED
    BY <2>1, PrimitiveFacts
<1>5. c.type = k
  <2>1. k # BuiltinFf
    BY <1>4, PrimitiveFacts
  <2> QED
    BY <1>1, <2>1, SourceCellFacts
<1>6. k \in DOMAIN design /\ k # t /\ k # m
  <2>1. k \in DOMAIN design /\ k # t
    BY <1>1, <1>3, <1>4, <1>5, TodoCells
  <2> QED
    BY <1>3, <1>5, <2>1
<1>7. w[k].impl = design[k].impl
  BY <1>1, <1>6, TargetFacts
<1>8. Instantiated(k)
  BY <1>1, <1>2, <1>3, <1>4, SubsInstantiated
<1>9. PICK s : s = IF design[k].impl # NoName THEN design[k].impl ELSE k
  OBVIOUS
<1>10. Resolve(w, SourceCell(e)).type = s
  <2>1. Resolve(w, c).type = IF w[c.type].impl # NoName THEN w[c.type].impl ELSE c.type
    BY <1>1, ResolveFacts
  <2> QED
    BY <1>1, <1>5, <1>7, <1>9, <2>1
<1>11. Rank(k) < 2 * LevelOf(m) /\ Rank(k) = 2 * LevelOf(k) + 1 /\ LevelOf(k) \in Nat
  BY <1>1, <1>2, <1>3, <1>4, SourceRanks
<1>12. CASE design[k].impl = NoName
  <2>1. input.cfg[k].preserve
    BY <1>3, <1>4, <1>5, <1>6, <1>8, <1>12 DEF ProtectionInv, ReachedOK
  <2>2. Variant(k) = "tmr" /\ Expected(k) = Documented(input)[<<k, Variant(k)>>]
    BY <1>3, <1>4, <2>1, UserSame, UserExpected
  <2> QED
    BY <1>1, <1>3, <1>4, <1>5, <1>9, <1>10, <1>11, <1>12, <2>2
<1>13. CASE design[k].impl # NoName
  <2>1. s = Append(k, ImplSuffix)
    BY <1>6, <1>9, <1>13 DEF HierarchyInv, ImplOK
  <2>2. s \notin UserName /\ s \notin Primitive
    <3>1. k \in Name /\ k # <<>> /\ ImplSuffix \in Suffix
      BY <1>4, UserNameFacts, SuffixFacts
    <3> QED
      BY <2>1, <3>1, GeneratedName
  <2>3. s \notin todo
    BY <2>2 DEF HierarchyInv, TypeOK
  <2>4. Expected(s) = Documented(input)[<<k, "tmr">>]
    BY <1>3, <1>4, <2>1, UserExpected
  <2>5. Rank(s) = 2 * LevelOf(k) + 1
    BY <1>4, <2>1, UserSame
  <2> QED
    BY <1>1, <1>10, <1>11, <2>2, <2>3, <2>4, <2>5
<1> QED
  BY <1>12, <1>13

(* The cells of the source after logicTmrExpansion.                        *)
LEMMA ExpandedSource ==
    ASSUME HierarchyInv, IdentityInv, PortsInv, ProtectionInv, pc = "process",
           NEW m \in todo, Ready(m), NEW t, t = Target(m), NEW w, w = WithTarget(m), NEW cfg,
           NEW k
    PROVE  k \in ExpandedCells(w, t, cfg) <=>
             \/ \E e \in Logic(input, m), i \in 1..3 : k = CopyOf(e, i, t, cfg)
             \/ \E e \in Subs(input, m) : k = Resolve(w, SourceCell(e))
<1>1. m \in UserName /\ design[m].cells = {SourceCell(e) : e \in input.cells[m[1]]}
  BY ReadyFacts
<1>2. w[t].cells = design[m].cells
  BY TargetFacts
<1>3. \A e \in input.cells[m[1]] : IsLogicTree(w, SourceCell(e)) <=> e \in Logic(input, m)
  BY SourceLogic
<1>4. \A e : Triplicate(SourceCell(e), t, cfg) = {CopyOf(e, i, t, cfg) : i \in 1..3}
  BY DEF Triplicate, CopyOf
<1>5. /\ Logic(input, m) \subseteq input.cells[m[1]]
      /\ Subs(input, m) = input.cells[m[1]] \ Logic(input, m)
  BY DEF Logic, Subs
<1> DEFINE P(c) == IF IsLogicTree(w, c) THEN Triplicate(c, t, cfg) ELSE {Resolve(w, c)}
<1>6. \A e \in Logic(input, m) : P(SourceCell(e)) = {CopyOf(e, i, t, cfg) : i \in 1..3}
  BY <1>3, <1>4, <1>5
<1>7. \A e \in Subs(input, m) : P(SourceCell(e)) = {Resolve(w, SourceCell(e))}
  BY <1>3, <1>5
<1>8. k \in ExpandedCells(w, t, cfg) <=> \E c \in w[t].cells : k \in P(c)
  BY DEF ExpandedCells
<1> HIDE DEF P
<1>9. (\E c \in w[t].cells : k \in P(c)) <=>
        \E e \in input.cells[m[1]] : k \in P(SourceCell(e))
  BY <1>1, <1>2
<1>10. (\E e \in input.cells[m[1]] : k \in P(SourceCell(e))) <=>
         \/ \E e \in Logic(input, m) : k \in P(SourceCell(e))
         \/ \E e \in Subs(input, m) : k \in P(SourceCell(e))
  BY <1>5
<1>11. \A e \in Logic(input, m) : k \in P(SourceCell(e)) <=> \E i \in 1..3 : k = CopyOf(e, i, t, cfg)
  BY <1>6
<1>12. \A e \in Subs(input, m) : k \in P(SourceCell(e)) <=> k = Resolve(w, SourceCell(e))
  BY <1>7
<1> QED
  BY <1>8, <1>9, <1>10, <1>11, <1>12

LEMMA ExpandedAmount ==
    ASSUME HierarchyInv, IdentityInv, PortsInv, ProtectionInv, pc = "process",
           NEW m \in todo, Ready(m), NEW t, t = Target(m), NEW w, w = WithTarget(m), NEW cfg,
           NEW C, C = ExpandedCells(w, t, cfg)
    PROVE  /\ Amount(t, C) = Triplicated(input, Documented(input), m)
           /\ CellsOf(t, C)
           /\ \A c \in C : c.type \notin todo
<1>1. PICK L, S : L = Logic(input, m) /\ S = Subs(input, m)
  OBVIOUS
<1>2. /\ m \in UserName /\ input \in Inputs
      /\ design[m].cells = {SourceCell(e) : e \in input.cells[m[1]]}
      /\ \A c \in design[m].cells : c.type \notin todo
  BY ReadyFacts
<1>3. L \subseteq input.cells[m[1]] /\ S \subseteq input.cells[m[1]]
  BY <1>1 DEF Logic, Subs
<1>4. \A e, d \in input.cells[m[1]] : e[1] = d[1] => e = d
  BY <1>2, InputFacts
<1>5. Base(t) = m /\ Rank(t) = 2 * LevelOf(m) + 1 /\ LevelOf(m) \in Nat
  <2>1. Base(t) = m /\ Rank(t) = 2 * LevelOf(m) + 1
    BY TargetVersion
  <2> QED
    BY <1>2, <2>1, InputFacts
<1>6. \A i \in 1..3 : PathSuffix[i] # ""
  <2>1. PathSuffix[1] # "" /\ PathSuffix[2] # "" /\ PathSuffix[3] # ""
    BY DEF PathSuffix
  <2>2. \A i \in 1..3 : i = 1 \/ i = 2 \/ i = 3
    OBVIOUS
  <2> QED
    BY <2>1, <2>2
<1> DEFINE f == [e \in L |-> [i \in 1..3 |-> CopyOf(e, i, t, cfg)]]
           r == [e \in S |-> Resolve(w, SourceCell(e))]
<1>7. \A e \in L, i \in 1..3 : f[e][i] = CopyOf(e, i, t, cfg)
  OBVIOUS
<1>8. \A e \in S : r[e] = Resolve(w, SourceCell(e))
  OBVIOUS
<1> HIDE DEF f, r
<1>9. \A e \in L, i \in 1..3 : f[e][i].inst = e[1] /\ f[e][i].path = PathSuffix[i]
  BY <1>7, CopyFacts
<1>10. \A e \in L, i \in 1..3 : f[e][i].type = SourceCell(e).type
  BY <1>7, CopyFacts
<1>11. \A e \in S : r[e].inst = e[1] /\ r[e].path = ""
  <2> TAKE e \in S
  <2>1. PICK k : k = Resolve(w, SourceCell(e))
    OBVIOUS
  <2>2. k.inst = e[1] /\ k.path = ""
    BY <2>1, ResolveFacts, Zenon
  <2> QED
    BY <1>8, <2>1, <2>2
<1>12. \A e \in S : /\ r[e].type \notin Primitive /\ r[e].type \notin todo
                    /\ Expected(r[e].type) = Documented(input)[<<e[2], "tmr">>]
                    /\ Rank(r[e].type) \in Nat /\ Rank(r[e].type) < 2 * LevelOf(m)
  <2> TAKE e \in S
  <2>1. e \in Subs(input, m)
    BY <1>1
  <2>2. PICK s : s = Resolve(w, SourceCell(e)).type
    OBVIOUS
  <2>3. /\ s \notin Primitive /\ s \notin todo
        /\ Expected(s) = Documented(input)[<<e[2], "tmr">>]
        /\ Rank(s) \in Nat /\ Rank(s) < 2 * LevelOf(m)
    BY <2>1, <2>2, ResolvedVersion
  <2> QED
    BY <1>8, <2>2, <2>3
<1>13. \A k : k \in C <=> (\E e \in L, i \in 1..3 : k = f[e][i]) \/ (\E e \in S : k = r[e])
  <2> TAKE k
  <2>1. k \in ExpandedCells(w, t, cfg) <=>
             \/ \E e \in Logic(input, m), i \in 1..3 : k = CopyOf(e, i, t, cfg)
             \/ \E e \in Subs(input, m) : k = Resolve(w, SourceCell(e))
    BY ExpandedSource
  <2> QED
    BY <1>1, <1>7, <1>8, <2>1
<1>14. Tripled(C, f, r, L, S)
  <2>1. \A i \in 1..3 : i = 1 \/ i = 2 \/ i = 3
    OBVIOUS
  <2>2. PICK D : D = {f[e][1] : e \in L} \cup {f[e][2] : e \in L} \cup {f[e][3] : e \in L}
                       \cup {r[e] : e \in S}
    OBVIOUS
  <2>3. \A k : k \in D <=> (\E e \in L, i \in 1..3 : k = f[e][i]) \/ (\E e \in S : k = r[e])
    BY <2>1, <2>2
  <2>4. C = D
    BY <1>13, <2>3
  <2> QED
    BY <2>2, <2>4 DEF Tripled
<1>15. \A e, d \in L, i, j \in 1..3 : f[e][i] = f[d][j] => e = d /\ i = j
  BY <1>3, <1>4, <1>9, PathsDiffer
<1>16. \A e, d \in S : r[e] = r[d] => e = d
  <2> TAKE e, d \in S
  <2>1. r[e].inst = e[1] /\ r[d].inst = d[1]
    BY <1>11
  <2>2. e[1] = d[1] => e = d
    BY <1>3, <1>4
  <2> QED
    BY <2>1, <2>2
<1>17. \A e \in L, d \in S, i \in 1..3 : f[e][i] # r[d]
  <2> TAKE e \in L, d \in S, i \in 1..3
  <2>1. f[e][i].path = PathSuffix[i] /\ r[d].path = ""
    BY <1>9, <1>11
  <2> QED
    BY <1>6, <2>1
<1>18. Apart(f, r, L, S)
  BY <1>15, <1>16, <1>17 DEF Apart
<1>19. \A e \in L, i \in 1..3 :
         Weight(t, f[e][i]) = Tally(IF e[2] \in Primitive THEN m ELSE e[2])
  <2> TAKE e \in L, i \in 1..3
  <2>1. e \in Logic(input, m) /\ e \in input.cells[m[1]]
    BY <1>1, <1>3
  <2>2. Weight(t, SourceCell(e)) = Tally(IF e[2] \in Primitive THEN m ELSE e[2])
    BY <1>2, <1>5, <2>1, SourceWeight
  <2> QED
    BY <1>10, <2>2 DEF Weight
<1>20. \A e \in S : Weight(t, r[e]) = Documented(input)[<<e[2], "tmr">>]
  BY <1>12 DEF Weight
<1>21. Amount(t, C) = Triplicated(input, Documented(input), m) /\ Counted(t, C)
  BY <1>1, <1>2, <1>5, <1>14, <1>18, <1>19, <1>20, TriplicatedTotal
<1>22. ASSUME NEW c \in C, NEW k \in C, c.inst = k.inst, c.path = k.path
       PROVE  c = k
  <2>1. CASE \E e \in L, i \in 1..3 : c = f[e][i]
    <3>1. PICK e \in L, i \in 1..3 : c = f[e][i]
      BY <2>1
    <3>2. c.inst = e[1] /\ c.path = PathSuffix[i]
      BY <1>9, <3>1
    <3>3. CASE \E d \in L, j \in 1..3 : k = f[d][j]
      <4>1. PICK d \in L, j \in 1..3 : k = f[d][j]
        BY <3>3
      <4>2. k.inst = d[1] /\ k.path = PathSuffix[j]
        BY <1>9, <4>1
      <4> QED
        BY <1>3, <1>4, <1>22, <3>1, <3>2, <4>1, <4>2, PathsDiffer
    <3>4. CASE \E d \in S : k = r[d]
      BY <1>6, <1>11, <1>22, <3>2, <3>4
    <3> QED
      BY <1>13, <3>3, <3>4
  <2>2. CASE \E e \in S : c = r[e]
    <3>1. PICK e \in S : c = r[e]
      BY <2>2
    <3>2. c.inst = e[1] /\ c.path = ""
      BY <1>11, <3>1
    <3>3. CASE \E d \in L, j \in 1..3 : k = f[d][j]
      BY <1>6, <1>9, <1>22, <3>2, <3>3
    <3>4. CASE \E d \in S : k = r[d]
      <4>1. PICK d \in S : k = r[d]
        BY <3>4
      <4>2. k.inst = d[1]
        BY <1>11, <4>1
      <4> QED
        BY <1>3, <1>4, <1>22, <3>1, <3>2, <4>1, <4>2
    <3> QED
      BY <1>13, <3>3, <3>4
  <2> QED
    BY <1>13, <2>1, <2>2
<1>23. \A e \in L : SourceCell(e).type \notin Primitive =>
         Rank(SourceCell(e).type) \in Nat /\ Rank(SourceCell(e).type) < 2 * LevelOf(m)
  <2> TAKE e \in L
  <2>1. SUFFICES ASSUME SourceCell(e).type \notin Primitive
                 PROVE  /\ Rank(SourceCell(e).type) \in Nat
                        /\ Rank(SourceCell(e).type) < 2 * LevelOf(m)
    OBVIOUS
  <2>2. PICK s : s = e[2]
    OBVIOUS
  <2>3. SourceCell(e).type = s /\ s \notin Primitive
    BY <2>1, <2>2, SourceCellFacts
  <2>4. /\ Rank(e[2]) < 2 * LevelOf(m) /\ Rank(e[2]) = 2 * LevelOf(e[2]) + 1
        /\ LevelOf(e[2]) \in Nat
    BY <1>2, <1>3, <2>2, <2>3, SourceRanks
  <2>5. Rank(e[2]) \in Nat
    BY <2>4
  <2> QED
    BY <2>2, <2>3, <2>4, <2>5
<1>24. ASSUME NEW c \in C
       PROVE  /\ c.type \notin todo
              /\ c.type \notin Primitive => Rank(c.type) \in Nat /\ Rank(c.type) < 2 * LevelOf(m)
  <2>1. CASE \E e \in L, i \in 1..3 : c = f[e][i]
    <3>1. PICK e \in L, i \in 1..3 : c = f[e][i]
      BY <2>1
    <3>2. c.type = SourceCell(e).type
      BY <1>10, <3>1
    <3>3. SourceCell(e).type \notin todo
      BY <1>2, <1>3
    <3> QED
      BY <1>23, <3>2, <3>3
  <2>2. CASE \E e \in S : c = r[e]
    BY <1>12, <2>2
  <2> QED
    BY <1>13, <2>1, <2>2
<1>25. CellsOf(t, C)
  <2>1. ASSUME NEW c \in C, c.type \notin Primitive PROVE Rank(c.type) < Rank(t)
    <3>1. Rank(c.type) \in Nat /\ Rank(c.type) < 2 * LevelOf(m)
      BY <1>24, <2>1
    <3> QED
      BY <1>5, <3>1
  <2> QED
    BY <1>21, <1>22, <2>1 DEF CellsOf, Counted
<1> QED
  BY <1>21, <1>24, <1>25

LEMMA ExpandLogicProtection ==
    ASSUME HierarchyInv, HierarchyInv', IdentityInv, PortsInv, ProtectionInv,
           NEW m \in todo, ExpandLogic(m)
    PROVE  ProtectionInv'
<1>0. PICK t, w : t = Target(m) /\ w = WithTarget(m)
  OBVIOUS
<1>1. /\ pc = "process" /\ todo' = todo \ {m} /\ stack = <<>>
      /\ UNCHANGED <<input, pc, edges, wrapper, path, stack, toRemove>>
      /\ DOMAIN design' = DOMAIN design \cup {t}
      /\ design'[t].cells = ExpandedCells(w, t, ConfigOf(m))
      /\ design'[t].impl = NoName
      /\ ConfigOf(m).mode = "Logic"
  BY <1>0, ExpandLogicStep
<1>2. ~design[m].bb
  BY ExpandLogicStep
<1>3. design'[t].bb = design[m].bb
  BY <1>0, ExpandLogicStep, Zenon
<1>4. \A x \in DOMAIN design : x # t =>
        /\ design'[x].cells = design[x].cells
        /\ design'[x].bb <=> design[x].bb
        /\ design'[x].proper <=> design[x].proper
        /\ design'[x].impl = design[x].impl \/ x = m
  BY <1>0, ExpandLogicOthers
<1>5. Ready(m)
  BY DEF ExpandLogic
<1>6. /\ m \in UserName /\ m \in DOMAIN design /\ input \in Inputs
      /\ input.cfg[m].mode = "Logic" /\ m \notin input.bb
  BY <1>1, <1>2, <1>5, ReadyFacts
<1>7. /\ Expected(t) = CountOf(input, Documented(input), m, "tmr")
      /\ t = m \/ (t \notin UserName /\ t \notin DOMAIN design)
      /\ t # m => Instantiated(m) /\ ~input.cfg[m].preserve
      /\ t = m => ~Instantiated(m) \/ input.cfg[m].preserve
  BY <1>0, <1>1, <1>5, TargetVersion
<1>8. PICK C : C = ExpandedCells(w, t, ConfigOf(m))
  OBVIOUS
<1>9. /\ Amount(t, C) = Triplicated(input, Documented(input), m)
      /\ CellsOf(t, C)
      /\ \A c \in C : c.type \notin todo
  <2>1. PICK cfg : cfg = ConfigOf(m)
    OBVIOUS
  <2>2. C = ExpandedCells(w, t, cfg)
    BY <1>8, <2>1
  <2> QED
    BY <1>0, <1>1, <1>5, <2>2, ExpandedAmount
<1>10. Amount(t, C) = Expected(t)
  BY <1>6, <1>7, <1>9 DEF CountOf
<1>11. Reached(t)'
  <2>1. C = design'[t].cells
    BY <1>1, <1>8
  <2>2. (Accounted(t)' <=> Amount(t, C) = Expected(t)) /\ (CellsOf(t, design[t].cells)' <=> CellsOf(t, C))
    BY <1>1, <2>1, NextAccount
  <2>3. \A c \in design'[t].cells : c.type \notin todo'
    BY <1>1, <1>9, <2>1
  <2>4. t \notin input'.bb
    <3>1. input.bb \subseteq UserName
      BY DEF HierarchyInv, TypeOK, InputType
    <3> QED
      BY <1>1, <1>6, <1>7, <3>1
  <2>5. t \in UserName => ~Instantiated(t)' \/ input'.cfg[t].preserve
    BY <1>1, <1>7, ExpectedKept
  <2>6. Accounted(t)' /\ CellsOf(t, design[t].cells)'
    BY <1>9, <1>10, <2>2
  <2> QED
    BY <2>3, <2>4, <2>5, <2>6 DEF Reached
<1>12. t # m => Reached(m)'
  <2> SUFFICES ASSUME t # m PROVE Reached(m)'
    OBVIOUS
  <2>1. design'[m].impl = t
    <3>1. design' = LogicTmrExpansion(WithTarget(m), t, ConfigOf(m))
      BY <1>0 DEF ExpandLogic
    <3> QED
      BY <1>0, <1>1, <3>1, ImplRecorded
  <2>2. design'[m].cells = design[m].cells /\ (design'[m].bb <=> design[m].bb)
    BY <1>4, <1>6
  <2> QED
    BY <1>0, <1>1, <1>5, <2>1, <2>2, OriginalReached
<1>13. AccountsOK' /\ SourceOK' /\ MarkedOK' /\ ReachedOK' /\ CellsOK'
  <2> DEFINE S == {m, t}
  <2>1. /\ pc \in Late /\ pc' \in Late /\ todo' \subseteq todo
        /\ \A x \in S : x \notin todo' /\ Reached(x)'
    <3>1. t \notin todo'
      BY <1>1, <1>7 DEF HierarchyInv, TypeOK
    <3> QED
      BY <1>1, <1>11, <1>12, <3>1 DEF Late
  <2>2. \A x \in DOMAIN design' \ S :
             /\ x \in DOMAIN design
             /\ x \in todo => x \in todo'
             /\ design'[x].cells = design[x].cells
             /\ design'[x].bb <=> design[x].bb
             /\ design'[x].proper <=> design[x].proper
             /\ design'[x].impl = design[x].impl
    BY <1>1, <1>4
  <2> HIDE DEF S
  <2> QED
    BY <1>1, <2>1, <2>2, GrownProtection
<1>14. TopsOK'
  <2>1. \A x \in Tops : x \in DOMAIN design /\ x \notin toRemove /\ design[x].impl = NoName
    BY DEF ProtectionInv, TopsOK
  <2>2. \A x \in Tops : x = m => t = m
    BY <1>7 DEF Tops
  <2>3. \A x \in Tops : design'[x].impl = design[x].impl
    BY <1>1, <1>4, <1>7, <2>1, <2>2
  <2> QED
    BY <1>1, <2>1, <2>3, TopsKept DEF ProtectionInv
<1>15. FramesOK'
  BY <1>1 DEF FramesOK
<1> QED
  BY <1>13, <1>14, <1>15 DEF ProtectionInv

-----------------------------------------------------------------------------
(* Before the main loop.                                                   *)

Early == {"mark", "synth", "plan"}

LEMMA EarlyCells == HierarchyInv /\ SourceOK /\ pc \in Early => CellsOK
<1> SUFFICES ASSUME HierarchyInv, SourceOK, pc \in Early, NEW n \in DOMAIN design
             PROVE  CellsOf(n, design[n].cells)
  BY DEF CellsOK
<1>1. n \in UserName /\ input \in Inputs
  BY DEF HierarchyInv, TodoOK, Early
<1>2. PICK C : C = design[n].cells
  OBVIOUS
<1>3. C = {SourceCell(e) : e \in input.cells[n[1]]}
  BY <1>1, <1>2 DEF SourceOK, Early
<1>4. IsFiniteSet(C)
  <2>1. Base(n) = n
    BY <1>1, UserSame
  <2>2. Counted(n, C)
    BY <1>1, <1>3, <2>1, SourceTotal
  <2> QED
    BY <2>2 DEF Counted
<1>5. \A c, k \in C : c.inst = k.inst /\ c.path = k.path => c = k
  <2>1. \A e, d \in input.cells[n[1]] : e[1] = d[1] => e = d
    BY <1>1, InputFacts
  <2>2. \A e : SourceCell(e).inst = e[1]
    BY SourceCellFacts
  <2> QED
    BY <1>3, <2>1, <2>2
<1>6. LevelOf(n) \in Nat /\ Rank(n) = 2 * LevelOf(n) + 1
  BY <1>1, InputFacts, UserSame
<1>7. ASSUME NEW c \in C, c.type \notin Primitive PROVE Rank(c.type) < Rank(n)
  <2>1. PICK e \in input.cells[n[1]] : c = SourceCell(e)
    BY <1>3
  <2>2. c.type = e[2]
    BY <1>7, <2>1, SourceCellFacts
  <2>3. /\ Rank(e[2]) < 2 * LevelOf(n) /\ Rank(e[2]) = 2 * LevelOf(e[2]) + 1
        /\ LevelOf(e[2]) \in Nat
    BY <1>1, <1>7, <2>2, SourceRanks
  <2> QED
    BY <1>6, <2>2, <2>3
<1> QED
  BY <1>2, <1>4, <1>5, <1>7 DEF CellsOf

(* As long as the design is the user's only its contents matter.           *)
LEMMA EarlyProtection ==
    ASSUME HierarchyInv', SourceOK', MarkedOK', TopsOK', pc' \in Early
    PROVE  ProtectionInv'
<1>1. CellsOK'
  <2>1. (HierarchyInv /\ SourceOK /\ pc \in Early => CellsOK)'
    BY EarlyCells, PTL
  <2> QED
    BY <2>1
<1>2. AccountsOK' /\ ReachedOK'
  BY DEF AccountsOK, ReachedOK, Early
<1>3. FramesOK'
  <2>1. pc' # "full" /\ stack' = <<>>
    BY DEF HierarchyInv, StackOK, Early
  <2> QED
    BY <2>1 DEF FramesOK
<1> QED
  BY <1>1, <1>2, <1>3 DEF ProtectionInv

LEMMA MarkProtection ==
    ASSUME HierarchyInv, HierarchyInv', PortsInv, InstancesSelected, ProtectionInv, Mark
    PROVE  ProtectionInv'
<1>1. /\ pc = "mark" /\ pc' = "synth" /\ DOMAIN design = UserName /\ DOMAIN design' = DOMAIN design
      /\ UNCHANGED <<input, toRemove>>
      /\ \A n \in DOMAIN design :
           design'[n].cells = design[n].cells /\ design'[n].impl = design[n].impl
  BY MarkStep
<1>2. \A n \in DOMAIN design : design'[n].bb = design[n].bb
  BY MarkStep
<1>3. \A n \in UserName :
        /\ design[n].cells = {UserCell(e) : e \in input.cells[n[1]]}
        /\ ~design[n].proper
        /\ design[n].bb <=> n \in input.bb
  <2> TAKE n \in UserName
  <2>1. design[n] = UserModule(n[1])
    BY <1>1 DEF PortsInv, UserDesign
  <2> QED
    BY <2>1, UserModuleFacts
<1>4. input \in Inputs
  BY DEF HierarchyInv
<1>5. ASSUME NEW n \in UserName, design'[n].proper PROVE Instantiated(n)
  <2>1. \E p \in {q \in input.markSel : ~design[q].bb} : \E c \in design[p].cells : c.type = n
    <3>1. design[n] \in Module
      BY <1>1, DesignNames
    <3> QED
      BY <1>1, <1>3, <1>5, <3>1 DEF Mark, Module
  <2>2. PICK p \in input.markSel : \E c \in design[p].cells : c.type = n
    BY <2>1
  <2>3. p \in UserName
    BY DEF HierarchyInv, TypeOK, InputType
  <2>4. PICK e \in input.cells[p[1]] : UserCell(e).type = n
    BY <1>3, <2>2, <2>3
  <2>5. e[2] = n /\ p[1] \in User
    BY <2>3, <2>4, UserCellFacts, UserNameFacts
  <2> QED
    BY <2>4, <2>5 DEF Instantiated
<1>6. ASSUME NEW n \in UserName, Instantiated(n) PROVE design'[n].proper
  <2>1. PICK u \in User : \E e \in input.cells[u] : e[2] = n
    BY <1>6 DEF Instantiated
  <2>2. PICK p \in input.markSel : \E f \in input.cells[p[1]] : f[2] = n
    BY <2>1 DEF InstancesSelected
  <2>3. p \in UserName
    BY DEF HierarchyInv, TypeOK, InputType
  <2>4. ~design[p].bb
    BY <1>3, <1>4, <2>2, <2>3, InputFacts
  <2>5. \E c \in design[p].cells : c.type = n
    <3>1. PICK f \in input.cells[p[1]] : f[2] = n
      BY <2>2
    <3>2. UserCell(f) \in design[p].cells /\ UserCell(f).type = n
      BY <1>3, <2>3, <3>1, UserCellFacts
    <3> QED
      BY <3>2
  <2> QED
    BY <1>1, <2>2, <2>4, <2>5, MarkStep
<1>7. SourceOK'
  <2>1. RegisterType' = RegisterType
    BY <1>1 DEF RegisterType
  <2>2. \A e : SourceCell(e)' = SourceCell(e)
    BY <1>1, <2>1, KeptSource
  <2>3. \A n \in UserName : design[n].cells = {SourceCell(e) : e \in input.cells[n[1]]}
    BY <1>1 DEF ProtectionInv, SourceOK
  <2>4. \A n \in UserName : Instantiated(n)' <=> Instantiated(n)
    BY <1>1, ExpectedKept
  <2>5. \A n \in UserName :
          /\ design'[n].cells = {SourceCell(e)' : e \in input'.cells[n[1]]}
          /\ design'[n].proper <=> Instantiated(n)'
    BY <1>1, <1>5, <1>6, <2>2, <2>3, <2>4
  <2> QED
    BY <2>5 DEF SourceOK
<1>8. MarkedOK'
  BY <1>1, <1>2 DEF ProtectionInv, MarkedOK
<1>9. TopsOK'
  BY <1>1, TopsKept DEF ProtectionInv
<1> QED
  BY <1>1, <1>7, <1>8, <1>9, EarlyProtection DEF Early

LEMMA SynthesizeProtection ==
    ASSUME HierarchyInv, HierarchyInv', ProtectionInv, Synthesize
    PROVE  ProtectionInv'
<1>1. /\ pc = "synth" /\ pc' = "plan" /\ DOMAIN design = UserName /\ DOMAIN design' = DOMAIN design
      /\ UNCHANGED <<input, toRemove>>
      /\ \A n \in DOMAIN design :
           /\ design'[n].cells = IF input.mapped THEN {MapCell(c) : c \in design[n].cells}
                                 ELSE design[n].cells
           /\ design'[n].impl = design[n].impl
  BY SynthesizeStep
<1>2. \A n \in DOMAIN design :
        design'[n].bb = design[n].bb /\ design'[n].proper = design[n].proper
  BY SynthesizeStep
<1>3. \A e : SourceCell(e)' = IF input.mapped THEN MapCell(SourceCell(e)) ELSE SourceCell(e)
  <2> TAKE e
  <2>1. RegisterType = BuiltinFf /\ RegisterType' = IF input.mapped THEN LibraryFf ELSE BuiltinFf
    BY <1>1 DEF RegisterType
  <2>2. LibraryFf # BuiltinFf
    BY DEF LibraryFf, BuiltinFf
  <2> QED
    BY <2>1, <2>2 DEF SourceCell, UserCell, MapCell
<1>4. SourceOK'
  <2>1. \A n \in UserName : /\ design[n].cells = {SourceCell(e) : e \in input.cells[n[1]]}
                            /\ design[n].proper <=> Instantiated(n)
    BY <1>1 DEF ProtectionInv, SourceOK
  <2>2. \A n \in UserName : Instantiated(n)' <=> Instantiated(n)
    BY <1>1, ExpectedKept
  <2>3. \A n \in UserName : design'[n].cells = {SourceCell(e)' : e \in input'.cells[n[1]]}
    <3> TAKE n \in UserName
    <3>1. PICK I : I = input.cells[n[1]]
      OBVIOUS
    <3>2. design[n].cells = {SourceCell(e) : e \in I} /\ I = input'.cells[n[1]]
      BY <1>1, <2>1, <3>1
    <3>3. CASE input.mapped
      <4>1. design'[n].cells = {MapCell(c) : c \in design[n].cells}
        BY <1>1, <3>3
      <4>2. design'[n].cells = {MapCell(SourceCell(e)) : e \in I}
        BY <3>2, <4>1
      <4>3. \A e : SourceCell(e)' = MapCell(SourceCell(e))
        BY <1>3, <3>3
      <4> QED
        BY <3>2, <4>2, <4>3
    <3>4. CASE ~input.mapped
      <4>1. \A e : SourceCell(e)' = SourceCell(e)
        BY <1>3, <3>4
      <4>2. design'[n].cells = design[n].cells
        BY <1>1, <3>4
      <4> QED
        BY <3>2, <4>1, <4>2
    <3> QED
      BY <3>3, <3>4
  <2>4. \A n \in UserName : design'[n].proper <=> Instantiated(n)'
    BY <1>1, <1>2, <2>1, <2>2
  <2> QED
    BY <2>3, <2>4 DEF SourceOK
<1>5. MarkedOK'
  BY <1>1, <1>2 DEF ProtectionInv, MarkedOK
<1>6. TopsOK'
  BY <1>1, TopsKept DEF ProtectionInv
<1> QED
  BY <1>1, <1>4, <1>5, <1>6, EarlyProtection DEF Early

(* Every module is selected: what is not reached by the main loop is a     *)
(* blackbox, and the graph has every instance.                             *)
LEMMA PlanProtection ==
    ASSUME HierarchyInv, HierarchyInv', IdentityInv, PortsInv, EverySelected, ProtectionInv, Plan
    PROVE  ProtectionInv'
<1>1. /\ pc = "plan" /\ pc' = "process" /\ DOMAIN design = UserName
      /\ UNCHANGED <<input, design, toRemove, stack>>
  BY DEF Plan, HierarchyInv, TodoOK
<1>2. \A n \in UserName : ~design[n].bb => n \in todo'
  BY DEF Plan, EverySelected
<1>3. \A m \in UserName, n \in UserName : \A c \in design[m].cells :
        (~design[m].bb /\ c.type = n /\ IsProper(design, n)) => <<m, n>> \in edges'
  BY DEF Plan, EverySelected
<1>4. \A n \in UserName : design[n].bb => design[n].cells = {} /\ n \in input.bb
  BY <1>1 DEF IdentityInv, BlackboxOK
<1>5. SourceOK'
  <2>1. RegisterType' = RegisterType
    BY <1>1 DEF RegisterType
  <2>2. \A e : SourceCell(e)' = SourceCell(e)
    BY <1>1, <2>1, KeptSource
  <2>3. \A n \in UserName : /\ design[n].cells = {SourceCell(e) : e \in input.cells[n[1]]}
                            /\ design[n].proper <=> Instantiated(n)
    BY <1>1 DEF ProtectionInv, SourceOK
  <2>4. \A n \in UserName : Instantiated(n)' <=> Instantiated(n)
    BY <1>1, ExpectedKept
  <2>5. \A n \in UserName :
          /\ design'[n].cells = {SourceCell(e)' : e \in input'.cells[n[1]]}
          /\ design'[n].proper <=> Instantiated(n)'
    BY <1>1, <2>2, <2>3, <2>4
  <2> QED
    BY <2>5 DEF SourceOK
<1>6. MarkedOK'
  BY <1>1 DEF ProtectionInv, MarkedOK
<1>7. TopsOK'
  BY <1>1, TopsKept DEF ProtectionInv
<1>8. CellsOK'
  <2> SUFFICES ASSUME NEW n \in DOMAIN design' PROVE CellsOf(n, design[n].cells)'
    BY DEF CellsOK
  <2>1. CellsOf(n, design[n].cells)
    BY <1>1 DEF ProtectionInv, CellsOK
  <2> QED
    BY <1>1, <2>1, KeptAccount
<1>9. AccountsOK'
  BY <1>1, <1>2 DEF AccountsOK
<1>10. ReachedOK'
  <2>1. ASSUME NEW m \in todo', NEW c \in design'[m].cells, c.type \in todo'
        PROVE  <<m, c.type>> \in edges'
    <3>1. m \in UserName /\ c.type \in UserName
      BY <2>1 DEF HierarchyInv, TypeOK
    <3>2. ~design[m].bb
      BY <1>1, <1>4, <2>1, <3>1
    <3>3. design[c.type].proper
      <4>1. design[c.type].proper \/ LastToken(c.type) = WorkerSuffix
        BY <1>1, <2>1, <3>1 DEF PortsInv, InstancesMarked
      <4> QED
        BY <3>1, <4>1, UserNameFacts, SuffixFacts
    <3>4. IsProper(design, c.type)
      BY <1>1, <3>1, <3>3 DEF IsProper
    <3> QED
      BY <1>1, <1>3, <2>1, <3>1, <3>2, <3>4
  <2>2. \A n \in DOMAIN design' \ todo' : \A c \in design'[n].cells : c.type \notin todo'
    BY <1>1, <1>2, <1>4
  <2>3. \A n \in (UserName \cap DOMAIN design') \ todo' : n \in input'.bb
    BY <1>1, <1>2, <1>4
  <2> QED
    BY <2>1, <2>2, <2>3 DEF ReachedOK
<1>11. FramesOK'
  <2>1. stack = <<>>
    BY <1>1 DEF HierarchyInv, StackOK
  <2> QED
    BY <1>1, <2>1 DEF FramesOK
<1> QED
  BY <1>5, <1>6, <1>7, <1>8, <1>9, <1>10, <1>11 DEF ProtectionInv

LEMMA InitProtection == Init => ProtectionInv
<1> SUFFICES ASSUME Init PROVE ProtectionInv
  OBVIOUS
<1>0. HierarchyInv
  BY InitInv
<1>1. /\ input \in Inputs /\ pc = "mark" /\ stack = <<>> /\ toRemove = {}
      /\ design = [n \in UserName |-> UserModule(n[1])]
  BY DEF Init
<1>2. \A n \in UserName :
        /\ design[n].cells = {UserCell(e) : e \in input.cells[n[1]]}
        /\ design[n].bb <=> n \in input.bb
  <2> TAKE n \in UserName
  <2>1. design[n] = UserModule(n[1])
    BY <1>1
  <2> QED
    BY <2>1, UserModuleFacts
<1>3. SourceOK
  <2>1. \A e : SourceCell(e) = UserCell(e)
    <3>1. RegisterType = BuiltinFf
      BY <1>1 DEF RegisterType
    <3> TAKE e
    <3>2. PICK v : v = IF e[2] = BuiltinFf THEN RegisterType ELSE e[2]
      OBVIOUS
    <3>3. v = e[2]
      BY <3>1, <3>2
    <3>4. SourceCell(e) = [UserCell(e) EXCEPT !.type = v]
      BY <3>2 DEF SourceCell
    <3> QED
      BY <3>3, <3>4 DEF UserCell
  <2> QED
    BY <1>1, <1>2, <2>1 DEF SourceOK
<1>4. MarkedOK
  BY <1>1, <1>2 DEF MarkedOK
<1>5. TopsOK
  <2>1. \A n \in UserName : design[n].impl = NoName
    BY <1>1 DEF UserModule
  <2> QED
    BY <1>1, <2>1 DEF TopsOK, Tops
<1>6. CellsOK
  BY <1>0, <1>1, <1>3, EarlyCells DEF Early
<1> QED
  BY <1>1, <1>3, <1>4, <1>5, <1>6 DEF ProtectionInv, AccountsOK, ReachedOK, FramesOK

LEMMA NextProtection ==
    ASSUME HierarchyInv, HierarchyInv', IdentityInv, PortsInv, EverySelected, ProtectionInv,
           [Next]_vars
    PROVE  ProtectionInv'
<1>1. InstancesSelected
  BY DEF EverySelected
<1>2. CASE Mark
  BY <1>1, <1>2, MarkProtection
<1>3. CASE Synthesize
  BY <1>3, SynthesizeProtection
<1>4. CASE Plan
  BY <1>4, PlanProtection
<1>5. CASE \E m \in todo : SkipModule(m) \/ ExpandLogic(m) \/ StartFull(m)
  BY <1>5, SkipModuleProtection, ExpandLogicProtection, StartFullProtection
<1>6. CASE CloneWorker
  BY <1>6, CloneWorkerProtection
<1>7. CASE VisitCell
  <2>1. PICK c \in stack[1].cells : LeaveCell(c) \/ ReuseClone(c) \/ CloneSubmodule(c)
    BY <1>7 DEF VisitCell
  <2> QED
    BY <1>7, <2>1, LeaveCellProtection, ReuseCloneProtection, CloneSubmoduleProtection
<1>8. CASE Return
  BY <1>8, ReturnProtection
<1>9. CASE FinishFull
  BY <1>9, FinishFullProtection
<1>10. CASE \E n \in toRemove : CleanupOne(n)
  BY <1>10, CleanupOneProtection
<1>11. CASE StartCleanup \/ Finish \/ UNCHANGED vars
  <2>1. CASE pc \in Late
    BY <1>11, <2>1, IdleProtection
  <2>2. CASE pc \notin Late
    <3>1. pc \in Early
      BY <2>2 DEF HierarchyInv, TypeOK, Phase, Late, Early
    <3>2. UNCHANGED <<input, pc, design, todo, toRemove>>
      BY <1>11, <3>1 DEF StartCleanup, Finish, vars, Early
    <3>3. SourceOK'
      <4>1. RegisterType' = RegisterType
        BY <3>2 DEF RegisterType
      <4>2. \A e : SourceCell(e)' = SourceCell(e)
        BY <3>2, <4>1, KeptSource
      <4>3. \A n \in UserName \cap DOMAIN design :
               /\ design[n].cells = {SourceCell(e) : e \in input.cells[n[1]]}
               /\ pc # "mark" => (design[n].proper <=> Instantiated(n))
        BY <3>1 DEF ProtectionInv, SourceOK, Early
      <4>4. \A n \in UserName : Instantiated(n)' <=> Instantiated(n)
        BY <3>2, ExpectedKept
      <4>5. \A n \in UserName \cap DOMAIN design' :
               /\ design'[n].cells = {SourceCell(e)' : e \in input'.cells[n[1]]}
               /\ pc' # "mark" => (design'[n].proper <=> Instantiated(n)')
        BY <3>2, <4>2, <4>3, <4>4
      <4> QED
        BY <4>5 DEF SourceOK
    <3>4. MarkedOK'
      BY <3>2 DEF ProtectionInv, MarkedOK
    <3>5. TopsOK'
      BY <3>2, TopsKept DEF ProtectionInv
    <3> QED
      BY <3>1, <3>2, <3>3, <3>4, <3>5, EarlyProtection
  <2> QED
    BY <2>1, <2>2
<1> QED
  BY <1>2, <1>3, <1>4, <1>5, <1>6, <1>7, <1>8, <1>9, <1>10, <1>11 DEF Next, Terminated

-----------------------------------------------------------------------------
(* What the invariant says of the design that the flow leaves behind.      *)

(* `g' satisfies the equation that defines Actual.                         *)
Portion(g, n, c) == IF c.type \in Primitive THEN Tally(Base(n)) ELSE g[c.type]

Contents(g, n) ==
    IF design[n].bb THEN Tally(Base(n))
    ELSE Total([c \in design[n].cells |-> Portion(g, n, c)])

Replicates(g) == g = [n \in DOMAIN design |-> Contents(g, n)]

LEMMA ExpectedReplicates ==
    ASSUME HierarchyInv, IdentityInv, ProtectionInv, pc = "done"
    PROVE  Replicates([n \in DOMAIN design |-> Expected(n)])
<1> DEFINE g == [n \in DOMAIN design |-> Expected(n)]
<1>1. input \in Inputs /\ todo = {}
  BY DEF HierarchyInv, TodoOK
<1>2. ASSUME NEW n \in DOMAIN design
      PROVE  g[n] = Contents(g, n)
  <2>1. g[n] = Expected(n)
    OBVIOUS
  <2>2. CASE design[n].bb
    <3>1. n \in input.bb
      BY <2>2 DEF IdentityInv, BlackboxOK
    <3>2. n \in UserName
      BY <3>1 DEF HierarchyInv, TypeOK, InputType
    <3>3. Base(n) = n
      BY <3>2, UserSame
    <3>4. Expected(n) = Tally(n)
      BY <1>1, <3>1, <3>2, UserExpected
    <3> QED
      BY <2>1, <2>2, <3>3, <3>4 DEF Contents
  <2>3. CASE ~design[n].bb
    <3>1. Accounted(n)
      BY <1>1, <2>3 DEF ProtectionInv, AccountsOK
    <3>2. Total([c \in design[n].cells |-> Weight(n, c)]) = Expected(n)
      BY <3>1 DEF Accounted, Amount
    <3>3. \A c \in design[n].cells : Weight(n, c) = Portion(g, n, c)
      <4> SUFFICES ASSUME NEW c \in design[n].cells PROVE Weight(n, c) = Portion(g, n, c)
        OBVIOUS
      <4>1. c.type \notin Primitive => c.type \in DOMAIN design
        BY OldType
      <4>2. c.type \in DOMAIN design => g[c.type] = Expected(c.type)
        OBVIOUS
      <4> QED
        BY <4>1, <4>2 DEF Weight, Portion
    <3> HIDE DEF g
    <3>4. [c \in design[n].cells |-> Weight(n, c)] = [c \in design[n].cells |-> Portion(g, n, c)]
      BY <3>3
    <3> QED
      BY <2>1, <2>3, <3>2, <3>4 DEF Contents
  <2> QED
    BY <2>2, <2>3
<1>3. g = [n \in DOMAIN design |-> g[n]]
  OBVIOUS
<1> HIDE DEF g
<1>4. g = [n \in DOMAIN design |-> Contents(g, n)]
  BY <1>2, <1>3
<1>5. Replicates(g)
  BY <1>4 DEF Replicates
<1> QED
  BY <1>5 DEF g

(* Modules instantiate modules of a lower rank: the equation has only one  *)
(* solution.                                                               *)
LEMMA ReplicatesAgree ==
    ASSUME HierarchyInv, CellsOK, NEW f, NEW g, Replicates(f), Replicates(g),
           NEW n \in DOMAIN design
    PROVE  f[n] = g[n]
<1> DEFINE T == {r \in Nat : \E x \in DOMAIN design : Rank(x) = r /\ f[x] # g[x]}
<1>1. \A x \in DOMAIN design : Rank(x) \in Nat
  BY DesignNames, RankFacts
<1>2. T = {}
  <2> SUFFICES ASSUME T # {} PROVE FALSE
    OBVIOUS
  <2>1. PICK r \in T : \A y \in T : ~(y < r)
    <3>1. T \subseteq Nat
      OBVIOUS
    <3> HIDE DEF T
    <3> QED
      BY <3>1, LeastNumber
  <2>2. PICK x \in DOMAIN design : Rank(x) = r /\ f[x] # g[x]
    BY <2>1
  <2>3. ASSUME NEW c \in design[x].cells
        PROVE  Portion(f, x, c) = Portion(g, x, c)
    <3>1. CASE c.type \in Primitive
      BY <3>1 DEF Portion
    <3>2. CASE c.type \notin Primitive
      <4>1. c.type \in DOMAIN design
        BY <3>2, OldType
      <4>2. Rank(c.type) < Rank(x)
        BY <3>2 DEF CellsOK, CellsOf
      <4>3. f[c.type] = g[c.type]
        BY <1>1, <2>1, <2>2, <4>1, <4>2
      <4> QED
        BY <3>2, <4>3 DEF Portion
    <3> QED
      BY <3>1, <3>2
  <2>4. [c \in design[x].cells |-> Portion(f, x, c)] = [c \in design[x].cells |-> Portion(g, x, c)]
    BY <2>3
  <2>5. Contents(f, x) = Contents(g, x)
    BY <2>4 DEF Contents
  <2>6. f[x] = Contents(f, x) /\ g[x] = Contents(g, x)
    BY DEF Replicates
  <2> QED
    BY <2>2, <2>5, <2>6
<1> QED
  BY <1>1, <1>2

LEMMA ActualReplicates ==
    ASSUME NEW f, Replicates(f)
    PROVE  Replicates(Actual)
<1> DEFINE E == CHOOSE count :
             count = [n \in DOMAIN design |->
               IF design[n].bb THEN Tally(Base(n))
               ELSE Total([c \in design[n].cells |->
                             IF c.type \in Primitive THEN Tally(Base(n)) ELSE count[c.type]])]
<1>1. f = [n \in DOMAIN design |->
             IF design[n].bb THEN Tally(Base(n))
             ELSE Total([c \in design[n].cells |->
                           IF c.type \in Primitive THEN Tally(Base(n)) ELSE f[c.type]])]
  BY Zenon DEF Replicates, Contents, Portion
<1>2. E = [n \in DOMAIN design |->
             IF design[n].bb THEN Tally(Base(n))
             ELSE Total([c \in design[n].cells |->
                           IF c.type \in Primitive THEN Tally(Base(n)) ELSE E[c.type]])]
  BY <1>1, Zenon
<1>3. Actual = E
  BY Zenon DEF Actual
<1> HIDE DEF E
<1>4. Replicates(E)
  BY <1>2, Zenon DEF Replicates, Contents, Portion
<1> QED
  BY <1>3, <1>4

LEMMA ProtectionFromInv ==
    ASSUME HierarchyInv, IdentityInv, ProtectionInv
    PROVE  ProtectionAsDocumented
<1> SUFFICES ASSUME pc = "done", NEW t \in Tops
             PROVE  Actual[t] = Documented(input)[<<t, "tmr">>]
  BY DEF ProtectionAsDocumented
<1>1. t \in UserName /\ ~Instantiated(t)
  BY DEF Tops
<1>2. t \in DOMAIN design
  BY DEF ProtectionInv, TopsOK
<1>3. PICK g : g = [n \in DOMAIN design |-> Expected(n)]
  OBVIOUS
<1>4. Replicates(g)
  BY <1>3, ExpectedReplicates
<1>5. PICK a : a = Actual
  OBVIOUS
<1>6. Replicates(a)
  BY <1>4, <1>5, ActualReplicates
<1>7. a[t] = g[t]
  BY <1>2, <1>4, <1>6, ReplicatesAgree DEF ProtectionInv
<1>8. g[t] = Expected(t)
  BY <1>2, <1>3
<1>9. Variant(t) = "tmr"
  BY <1>1, UserSame
<1>10. Expected(t) = Documented(input)[<<t, Variant(t)>>]
  BY <1>1, UserExpected DEF HierarchyInv
<1> QED
  BY <1>5, <1>7, <1>8, <1>9, <1>10

(* In every design whose modules are all selected for tmrx, each with an   *)
(* instance in a module selected for tmrx_mark, the flow leaves below each *)
(* top module as many copies of the logic written in each module as the    *)
(* documentation's table of child versions says: for every hierarchy,      *)
(* configuration and order of processing, with the clones, wrappers and    *)
(* _tmrx_impl modules made and the originals removed on the way.           *)
THEOREM ProtectionHolds == Spec => [](InstancesSelected => ProtectionAsDocumented)
<1> DEFINE Ports == InstancesSelected => PortsInv
           Protection == EverySelected => ProtectionInv
           IInv == Ports /\ Protection
<1>1. Init => IInv
  BY InitPorts, InitProtection
<1>2. HierarchyInv /\ HierarchyInv' /\ IdentityInv /\ IInv /\ [Next]_vars => IInv'
  <2> SUFFICES ASSUME HierarchyInv, HierarchyInv', IdentityInv, IInv, [Next]_vars
               PROVE  IInv'
    OBVIOUS
  <2>1. /\ InstancesSelected' => InstancesSelected
        /\ EverySelected' => EverySelected
    BY InputKept DEF InstancesSelected, EverySelected
  <2>2. InstancesSelected' => PortsInv'
    BY <2>1, NextPorts
  <2>3. EverySelected' => ProtectionInv'
    <3>1. EverySelected => PortsInv /\ ProtectionInv
      BY DEF EverySelected
    <3> QED
      BY <2>1, <3>1, NextProtection
  <2> QED
    BY <2>2, <2>3
<1>3. HierarchyInv /\ IdentityInv /\ IInv => (InstancesSelected => ProtectionAsDocumented)
  <2>1. InstancesSelected /\ input.tmrxSel # UserName => ProtectionAsDocumented
    BY DEF ProtectionAsDocumented
  <2> QED
    BY <2>1, ProtectionFromInv DEF EverySelected
<1> HIDE DEF IInv
<1> QED
  BY <1>1, <1>2, <1>3, IdentityInvariant, PTL DEF Spec
===============================================================================
