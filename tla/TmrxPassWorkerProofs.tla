-------------------------- MODULE TmrxPassWorkerProofs --------------------------
(***************************************************************************)
(* Workers are independent: the names of the modules below a worker that   *)
(* no configuration asks to share end in the path suffixes of the worker,  *)
(* and those of two workers of one wrapper differ in one of them.          *)
(***************************************************************************)
EXTENDS TmrxPassCellProofs

-----------------------------------------------------------------------------
(* Names.                                                                  *)

(* Any name continues one that is not the clone of a path.                 *)
LEMMA NoTail ==
    ASSUME NEW n \in Name, LastToken(n) \notin PathSuffixes, NEW s
    PROVE  Follows(s, n)
<1> SUFFICES ASSUME NEW j \in 0..Len(n) - 1,
                    \A i \in 0..j : n[Len(n) - i] \in PathSuffixes
             PROVE  FALSE
  BY DEF Follows
<1>1. Len(n) \in Nat /\ 0 \in 0..j /\ Len(n) - 0 = Len(n)
  BY DEF Name
<1> QED
  BY <1>1 DEF LastToken

(* The tokens of a clone's name.                                           *)
LEMMA AppendTokens ==
    ASSUME NEW n \in Name, NEW p \in PathSuffixes
    PROVE  /\ Len(n) \in Nat /\ Len(Append(n, p)) = Len(n) + 1
           /\ Append(n, p)[Len(n) + 1] = p
           /\ \A k \in 1..Len(n) : Append(n, p)[k] = n[k]
BY DEF Name

(* What continues a name continues its clone when it is cloned, too.       *)
LEMMA AppendFollows ==
    ASSUME NEW n \in Name, NEW s \in Name, NEW p \in PathSuffixes, Follows(s, n)
    PROVE  Follows(Append(s, p), Append(n, p))
<1> DEFINE a == Append(s, p)
           b == Append(n, p)
<1>1. /\ Len(n) \in Nat /\ Len(b) = Len(n) + 1 /\ b[Len(n) + 1] = p
      /\ \A k \in 1..Len(n) : b[k] = n[k]
  BY AppendTokens
<1>2. /\ Len(s) \in Nat /\ Len(a) = Len(s) + 1 /\ a[Len(s) + 1] = p
      /\ \A k \in 1..Len(s) : a[k] = s[k]
  BY AppendTokens
<1> SUFFICES ASSUME NEW j \in 0..Len(b) - 1,
                    \A i \in 0..j : b[Len(b) - i] \in PathSuffixes
             PROVE  j < Len(a) /\ a[Len(a) - j] = b[Len(b) - j]
  BY DEF Follows
<1> HIDE DEF a, b
<1>3. CASE j = 0
  BY <1>1, <1>2, <1>3
<1>4. CASE j > 0
  <2> DEFINE k == j - 1
  <2>1. k \in 0..Len(n) - 1 /\ j = k + 1
    BY <1>1, <1>4
  <2>2. ASSUME NEW i \in 0..k
        PROVE  n[Len(n) - i] \in PathSuffixes
    <3>1. i + 1 \in 0..j /\ Len(b) - (i + 1) = Len(n) - i /\ Len(n) - i \in 1..Len(n)
      BY <1>1, <2>1
    <3>2. b[Len(b) - (i + 1)] \in PathSuffixes
      BY <3>1
    <3> QED
      BY <1>1, <3>1, <3>2
  <2>3. k < Len(s) /\ s[Len(s) - k] = n[Len(n) - k]
    BY <2>1, <2>2 DEF Follows
  <2>4. /\ Len(a) - j = Len(s) - k /\ Len(b) - j = Len(n) - k /\ j < Len(a)
        /\ Len(s) - k \in 1..Len(s) /\ Len(n) - k \in 1..Len(n)
    BY <1>1, <1>2, <2>1, <2>3
  <2> QED
    BY <1>1, <1>2, <2>3, <2>4
<1> QED
  BY <1>3, <1>4

(* A wrapper that is cloned for a path is a wrapper, and so is its worker. *)
LEMMA AppendWorker ==
    ASSUME NEW n \in Name, n # <<>>, NEW s \in Name, NEW p \in PathSuffixes, NEW i \in 1..3,
           WrapperName(n), WorkerOf(s, n, i)
    PROVE  WrapperName(Append(n, p)) /\ WorkerOf(Append(s, p), Append(n, p), i)
<1> DEFINE a == Append(s, p)
           b == Append(n, p)
<1>1. /\ Len(n) \in Nat /\ Len(b) = Len(n) + 1 /\ b[Len(n) + 1] = p
      /\ \A k \in 1..Len(n) : b[k] = n[k]
  BY AppendTokens
<1>2. /\ Len(s) \in Nat /\ Len(a) = Len(s) + 1 /\ a[Len(s) + 1] = p
      /\ \A k \in 1..Len(s) : a[k] = s[k]
  BY AppendTokens
<1>3. Len(n) >= 1
  BY <1>1 DEF Name
<1>4. p # ImplSuffix
  BY SuffixFacts
<1> HIDE DEF a, b
<1>5. Stem(b) = Stem(n) /\ Stem(n) \in 1..Len(n)
  <2>1. CASE Len(n) = 1
    BY <1>1, <1>4, <2>1 DEF Stem
  <2>2. CASE Len(n) > 1
    <3>1. b[2] = n[2] /\ Len(b) > 1
      BY <1>1, <2>2
    <3> QED
      BY <1>1, <2>2, <3>1 DEF Stem
  <2>3. Len(n) = 1 \/ Len(n) > 1
    BY SuffixFacts, SecondToken
  <2>4. Stem(n) = 1 \/ (Stem(n) = 2 /\ Len(n) > 1)
    BY DEF Stem
  <2> QED
    BY <1>1, <1>3, <2>1, <2>2, <2>3, <2>4
<1>6. WrapperName(b)
  <2> SUFFICES ASSUME NEW k \in Stem(n) + 1..Len(n) + 1 PROVE b[k] \in PathSuffixes
    BY <1>1, <1>5 DEF WrapperName
  <2>1. CASE k = Len(n) + 1
    BY <1>1, <2>1
  <2>2. CASE k \in Stem(n) + 1..Len(n)
    <3>1. k \in 1..Len(n)
      BY <1>1, <1>5, <2>2
    <3> QED
      BY <1>1, <2>2, <3>1 DEF WrapperName
  <2> QED
    BY <1>1, <1>5, <2>1, <2>2
<1>7. WorkerOf(a, b, i)
  <2> DEFINE st == Stem(n)
  <2>1. /\ Len(s) = Len(n) + 2 /\ s[st + 1] = WorkerSuffix /\ s[st + 2] = PathSuffix[i]
        /\ \A k \in 1..Len(n) : s[IF k =< st THEN k ELSE k + 2] = n[k]
    BY DEF WorkerOf
  <2> HIDE DEF st
  <2>2. st \in 1..Len(n) /\ Stem(b) = st
    BY <1>5 DEF st
  <2>3. Len(a) = Len(b) + 2 /\ a[st + 1] = WorkerSuffix /\ a[st + 2] = PathSuffix[i]
    BY <1>1, <1>2, <2>1, <2>2
  <2>4. ASSUME NEW k \in 1..Len(b)
        PROVE  a[IF k =< st THEN k ELSE k + 2] = b[k]
    <3>1. CASE k = Len(n) + 1
      BY <1>1, <1>2, <2>1, <2>2, <3>1
    <3>2. CASE k \in 1..Len(n)
      <4>1. (IF k =< st THEN k ELSE k + 2) \in 1..Len(s)
        BY <1>1, <2>1, <2>2, <3>2
      <4> QED
        BY <1>1, <1>2, <2>1, <3>2, <4>1
    <3> QED
      BY <1>1, <3>1, <3>2
  <2> QED
    BY <2>2, <2>3, <2>4 DEF WorkerOf
<1> QED
  BY <1>6, <1>7 DEF a, b

(* A worker has the level of its wrapper, and a name of its own kind.      *)
LEMMA WorkerFacts ==
    ASSUME NEW n \in Name, n # <<>>, NEW s \in Name, NEW i \in 1..3, WorkerOf(s, n, i)
    PROVE  /\ LevelOf(s) = LevelOf(n) /\ s \notin UserName
           /\ \E k \in 1..Len(s) : s[k] = WorkerSuffix
<1>1. Len(n) \in Nat /\ Len(n) # 0
  BY DEF Name
<1>2. Len(s) = Len(n) + 2 /\ s[Stem(n) + 1] = WorkerSuffix
      /\ \A k \in 1..Len(n) : s[IF k =< Stem(n) THEN k ELSE k + 2] = n[k]
  BY DEF WorkerOf
<1>3. Stem(n) = 1 \/ (Stem(n) = 2 /\ Len(n) > 1)
  BY DEF Stem
<1>4. 1 \in 1..Len(n) /\ 1 =< Stem(n) /\ Stem(n) + 1 \in 1..Len(s)
  BY <1>1, <1>2, <1>3
<1>5. s[1] = n[1]
  BY <1>2, <1>4
<1>6. s \notin UserName
  <2>1. Len(s) # 1
    BY <1>1, <1>2
  <2> QED
    BY <2>1, UserNameFacts
<1> QED
  BY <1>2, <1>4, <1>5, <1>6 DEF LevelOf

(* Names with the same path suffixes are of the same rank.                 *)
LEMMA RankFacts ==
    ASSUME NEW n \in Name, n # <<>>, n[1] \in User
    PROVE  /\ LevelOf(n) \in Nat /\ Rank(n) \in Nat
           /\ Rank(n) \in {2 * LevelOf(n), 2 * LevelOf(n) + 1}
           /\ \A p \in PathSuffixes : Rank(Append(n, p)) = Rank(n)
<1>1. LevelOf(n) \in Nat
  BY LevelAssumption DEF LevelOf
<1>2. ASSUME NEW p \in PathSuffixes
      PROVE  Rank(Append(n, p)) = Rank(n)
  <2> DEFINE b == Append(n, p)
  <2>1. /\ Len(n) \in Nat /\ Len(b) = Len(n) + 1 /\ b[Len(n) + 1] = p
        /\ \A k \in 1..Len(n) : b[k] = n[k]
    BY AppendTokens
  <2>2. p # WorkerSuffix
    BY SuffixFacts
  <2>3. LevelOf(b) = LevelOf(n)
    <3>1. 1 \in 1..Len(n)
      BY <2>1 DEF Name
    <3> QED
      BY <2>1, <3>1 DEF LevelOf
  <2> HIDE DEF b
  <2>4. (\E k \in 1..Len(b) : b[k] = WorkerSuffix) <=> (\E k \in 1..Len(n) : n[k] = WorkerSuffix)
    <3>1. \A k \in 1..Len(b) : k \in 1..Len(n) \/ k = Len(n) + 1
      BY <2>1
    <3>2. \A k \in 1..Len(n) : k \in 1..Len(b)
      BY <2>1
    <3> QED
      BY <2>1, <2>2, <3>1, <3>2
  <2>5. Rank(b) = Rank(n)
    BY <2>3, <2>4 DEF Rank
  <2> QED
    BY <2>5 DEF b
<1>3. Rank(n) \in {2 * LevelOf(n), 2 * LevelOf(n) + 1} /\ Rank(n) \in Nat
  BY <1>1 DEF Rank
<1> QED
  BY <1>1, <1>2, <1>3

(* A wrapper's name has no token of a worker, so that what it instantiates *)
(* is of a lower rank, as in any other module.                             *)
LEMMA PlacedRank ==
    ASSUME NEW n \in Name, n # <<>>, n[1] \in User,
           NEW s \in Name, s # <<>>, s[1] \in User, NEW c, Placed(n, c, s)
    PROVE  Rank(s) < Rank(n)
<1>1. /\ LevelOf(n) \in Nat /\ LevelOf(s) \in Nat
      /\ Rank(n) \in {2 * LevelOf(n), 2 * LevelOf(n) + 1}
      /\ Rank(s) \in {2 * LevelOf(s), 2 * LevelOf(s) + 1}
  BY RankFacts
<1>2. CASE c.inst # "worker"
  <2>1. LevelOf(s) < LevelOf(n)
    BY <1>2 DEF Placed
  <2> QED
    BY <1>1, <2>1
<1>3. CASE c.inst = "worker"
  <2>1. PICK i \in 1..3 : WrapperName(n) /\ WorkerOf(s, n, i)
    BY <1>3 DEF Placed
  <2>2. LevelOf(s) = LevelOf(n) /\ \E k \in 1..Len(s) : s[k] = WorkerSuffix
    BY <2>1, WorkerFacts
  <2>3. ASSUME NEW k \in 1..Len(n)
        PROVE  n[k] # WorkerSuffix
    <3>1. Len(n) \in Nat /\ Len(n) # 0
      BY DEF Name
    <3>2. CASE k \in Stem(n) + 1..Len(n)
      BY <2>1, <3>2, SuffixFacts DEF WrapperName
    <3>3. CASE k = 1
      BY <3>3, SuffixFacts, UserAssumption
    <3>4. CASE k = 2 /\ Stem(n) = 2
      BY <3>4, SuffixFacts DEF Stem
    <3>5. Stem(n) = 1 \/ Stem(n) = 2
      BY DEF Stem
    <3> QED
      BY <3>1, <3>2, <3>3, <3>4, <3>5
  <2>4. Rank(s) = 2 * LevelOf(s) /\ Rank(n) = 2 * LevelOf(n) + 1
    BY <1>1, <2>2, <2>3 DEF Rank
  <2> QED
    BY <1>1, <2>2, <2>4
<1> QED
  BY <1>2, <1>3

(* Cloning for a path leaves a cell in its place.                          *)
LEMMA AppendPlaced ==
    ASSUME InputType(input),
           NEW n \in Name, n # <<>>, NEW s \in Name, s # <<>>, s \notin input.bb,
           NEW p \in PathSuffixes, NEW c, Placed(n, c, s)
    PROVE  Placed(Append(n, p), c, Append(s, p))
<1> DEFINE a == Append(s, p)
           b == Append(n, p)
<1>1. a[1] = s[1] /\ b[1] = n[1]
  BY AppendName, SuffixFacts
<1>2. Own(a) => Own(s)
  BY <1>1 DEF Own, ConfiguredShared, Base
<1>3. Own(a) => Follows(a, b)
  BY <1>2, AppendFollows DEF Placed
<1>4. LevelOf(a) = LevelOf(s) /\ LevelOf(b) = LevelOf(n)
  BY <1>1 DEF LevelOf
<1>5. \A i \in 1..3 : WrapperName(n) /\ WorkerOf(s, n, i) => WrapperName(b) /\ WorkerOf(a, b, i)
  BY AppendWorker
<1> HIDE DEF a, b
<1>6. Placed(b, c, a)
  BY <1>3, <1>4, <1>5 DEF Placed
<1> QED
  BY <1>6 DEF a, b

(* Only the module that a cell instantiates tells whether it is in place,  *)
(* and that does not change.                                               *)
LEMMA RetypedPlaced ==
    ASSUME NEW n, NEW c \in Cell, NEW s, NEW t \in Name, Placed(n, c, s)
    PROVE  Placed(n, [c EXCEPT !.type = t], s)
<1> DEFINE k == [c EXCEPT !.type = t]
<1>1. k.inst = c.inst /\ k.type = t
  BY DEF Cell
<1>2. ASSUME NEW r, NEW i
      PROVE  [Duplicate(r, i) EXCEPT !.type = t] = Duplicate(t, i)
  <2>1. PICK v : v = FALSE
    OBVIOUS
  <2>2. PICK p : p = PathSuffix[i]
    OBVIOUS
  <2>3. [[inst |-> "worker", path |-> p, type |-> r, ports |-> "base", voted |-> v]
            EXCEPT !.type = t]
          = [inst |-> "worker", path |-> p, type |-> t, ports |-> "base", voted |-> v]
    OBVIOUS
  <2> QED
    BY <2>1, <2>2, <2>3, Zenon DEF Duplicate
<1>3. \A i : c = Duplicate(c.type, i) => k = Duplicate(t, i)
  BY <1>2
<1>4. Placed(n, k, s)
  BY <1>1, <1>3 DEF Placed
<1> QED
  BY <1>4 DEF k

LEMMA PlacedKept ==
    ASSUME UNCHANGED input, NEW n, NEW c, NEW s
    PROVE  Placed(n, c, s)' <=> Placed(n, c, s)
BY DEF Placed, Own, ConfiguredShared, Base, Follows, LevelOf, WrapperName, WorkerOf, Stem, Duplicate

(* A clone of a path is one of an older module.                            *)
LEMMA PathParent ==
    ASSUME HierarchyInv, NEW n \in DOMAIN design, LastToken(n) \in PathSuffixes
    PROVE  LET o == ClonedFrom(n)
           IN  /\ o \in Name /\ o # <<>> /\ o[1] = n[1] /\ o[1] \in User
               /\ n = Append(o, LastToken(n)) /\ Rank(o) = Rank(n)
<1> DEFINE o == ClonedFrom(n)
<1>1. n \in Name /\ n # <<>> /\ n[1] \in User
  BY DesignNames
<1>2. o \in Name /\ LastToken(n) \in Token /\ n = Append(o, LastToken(n))
  BY <1>1, NameSplit
<1>3. o # <<>>
  <2> SUFFICES ASSUME o = <<>> PROVE FALSE
    OBVIOUS
  <2> HIDE DEF o
  <2>1. n = <<LastToken(n)>>
    BY <1>2
  <2>2. n[1] = LastToken(n)
    BY <2>1
  <2> QED
    BY <1>1, <2>2, SuffixFacts, UserAssumption
<1>4. o[1] = n[1]
  BY <1>2, <1>3, AppendName
<1> HIDE DEF o
<1>5. Rank(o) = Rank(n)
  BY <1>1, <1>2, <1>3, <1>4, RankFacts
<1> QED
  BY <1>1, <1>2, <1>3, <1>4, <1>5 DEF o

-----------------------------------------------------------------------------
(* Which cells are in place, action by action.                             *)

(* A cell that was settled and keeps its module is settled.                *)
LEMMA KeptSettled ==
    ASSUME WorkersInv, UNCHANGED input,
           NEW n \in DOMAIN design, NEW c \in design[n].cells,
           Held(n, c) => Held(n, c)',
           (pc = "full" /\ c.type = Template(wrapper)) => (pc' = "full" /\ c.type = Template(wrapper)')
    PROVE  Settled(n, c)'
<1>1. Settled(n, c)
  BY DEF WorkersInv
<1>2. Placed(n, c, c.type)' <=> Placed(n, c, c.type)
  BY PlacedKept
<1> QED
  BY <1>1, <1>2 DEF Settled

(* Outside FullModuleTMR nothing is held.                                  *)
LEMMA NothingHeld ==
    ASSUME NEW n, NEW c, stack = <<>>
    PROVE  ~Held(n, c)
BY DEF Held

LEMMA IdlePlaced ==
    ASSUME stack = <<>>
    PROVE  RanksOK /\ \A i \in 1..Len(stack) : FramePlaced(i)
BY DEF RanksOK

(* The user's modules instantiate lower levels.                            *)
LEMMA InitWorkers == Init => WorkersInv
<1> SUFFICES ASSUME Init PROVE WorkersInv
  OBVIOUS
<1>1. /\ pc = "mark" /\ stack = <<>> /\ DOMAIN design = UserName
      /\ \A n \in UserName : design[n] = UserModule(n[1])
      /\ input \in Inputs /\ InputType(input)
  BY InputsAssumption DEF Init
<1>2. ASSUME NEW n \in UserName, NEW c \in design[n].cells
      PROVE  Settled(n, c)
  <2>1. design[n].cells = {UserCell(e) : e \in input.cells[n[1]]} /\ n[1] \in User
    BY <1>1, UserModuleFacts, UserNameFacts
  <2>2. PICK e \in input.cells[n[1]] : c = UserCell(e)
    BY <1>2, <2>1
  <2>3. e \in Instance \X (UserName \cup {BuiltinFf})
    BY <1>1, <2>1 DEF InputType
  <2>4. c.inst = e[1] /\ c.type = e[2]
    BY <2>2, UserCellFacts
  <2>5. c.inst # "worker"
    BY <2>3, <2>4, UserAssumption
  <2>6. CASE e[2] \in UserName
    <3>1. PICK v \in User : e[2] = <<v>>
      BY <2>6 DEF UserName
    <3>2. Level[v] < Level[n[1]]
      BY <1>1, <2>1, <3>1, LevelAssumption
    <3>3. LevelOf(c.type) < LevelOf(n)
      BY <2>4, <3>1, <3>2 DEF LevelOf
    <3>4. Follows(c.type, n)
      BY NoTail, UserNameFacts, SuffixFacts
    <3> QED
      BY <2>5, <3>3, <3>4 DEF Settled, Placed
  <2>7. CASE e[2] = BuiltinFf
    BY <2>4, <2>7, PrimitiveFacts DEF Settled
  <2> QED
    BY <2>3, <2>6, <2>7
<1>3. \A n \in UserName : design[n].bb <=> n \in input.bb
  <2> TAKE n \in UserName
  <2> QED
    BY <1>1, UserModuleFacts
<1> QED
  BY <1>1, <1>2, <1>3, IdlePlaced DEF WorkersInv

(* Marking does not change any cell.                                       *)
LEMMA MarkWorkers ==
    ASSUME HierarchyInv, WorkersInv, Mark
    PROVE  WorkersInv'
<1>1. /\ pc = "mark" /\ pc' = "synth" /\ stack = <<>>
      /\ UNCHANGED <<input, wrapper, stack>>
      /\ DOMAIN design' = DOMAIN design
      /\ \A n \in DOMAIN design : design'[n].cells = design[n].cells
      /\ \A n \in DOMAIN design : design'[n].bb = design[n].bb
  BY MarkStep
<1>2. \A n \in DOMAIN design' : \A c \in design'[n].cells : Settled(n, c)'
  BY <1>1, NothingHeld, KeptSettled
<1>3. RanksOK' /\ \A i \in 1..Len(stack') : FramePlaced(i)'
  BY <1>1 DEF RanksOK
<1> QED
  BY <1>1, <1>2, <1>3 DEF WorkersInv

(* Technology mapping exchanges primitives.                                *)
LEMMA SynthesizeWorkers ==
    ASSUME HierarchyInv, WorkersInv, Synthesize
    PROVE  WorkersInv'
<1>1. /\ pc = "synth" /\ pc' = "plan" /\ stack = <<>>
      /\ UNCHANGED <<input, wrapper, stack>>
      /\ DOMAIN design' = DOMAIN design
      /\ \A n \in DOMAIN design : design'[n].bb = design[n].bb
  BY SynthesizeStep
<1>2. \A n \in DOMAIN design :
         design'[n].cells = IF input.mapped THEN {MapCell(c) : c \in design[n].cells}
                            ELSE design[n].cells
  BY SynthesizeStep
<1>3. ASSUME NEW n \in DOMAIN design, NEW c \in design'[n].cells
      PROVE  Settled(n, c)'
  <2>1. CASE c \in design[n].cells
    BY <1>1, <2>1, NothingHeld, KeptSettled
  <2>2. CASE c \notin design[n].cells
    <3>1. PICK k \in design[n].cells : c = MapCell(k)
      BY <1>2, <1>3, <2>2
    <3>2. c.type = LibraryFf
      <4>1. k \in Cell
        BY DesignNames DEF Module
      <4>2. k.type = BuiltinFf
        BY <2>2, <3>1 DEF MapCell
      <4> QED
        BY <3>1, <4>1, <4>2, MapCellFacts
    <3> QED
      BY <3>2, PrimitiveFacts DEF Settled
  <2> QED
    BY <2>1, <2>2
<1>4. RanksOK' /\ \A i \in 1..Len(stack') : FramePlaced(i)'
  BY <1>1 DEF RanksOK
<1> QED
  BY <1>1, <1>3, <1>4 DEF WorkersInv

(* The steps that leave the design and the recursion alone.                *)
LEMMA IdleWorkers ==
    ASSUME HierarchyInv, WorkersInv,
           Plan \/ (\E m \in todo : SkipModule(m)) \/ StartCleanup \/ Finish \/ UNCHANGED vars
    PROVE  WorkersInv'
<1>1. /\ UNCHANGED <<input, design, stack, wrapper, path>>
      /\ pc' = pc \/ (pc \in {"plan", "process", "cleanup"} /\ pc' \in {"process", "cleanup", "done"})
  BY DEF Plan, SkipModule, StartCleanup, Finish, vars
<1>2. \A n \in DOMAIN design' : \A c \in design'[n].cells : Settled(n, c)'
  BY <1>1, KeptSettled DEF Held
<1>3. \A i \in 1..Len(stack') : FramePlaced(i)'
  BY <1>1, PlacedKept DEF WorkersInv, FramePlaced
<1>4. RanksOK'
  BY <1>1 DEF WorkersInv, RanksOK
<1> QED
  BY <1>1, <1>2, <1>3, <1>4 DEF WorkersInv

(* The cells of a module that waits to be processed are of lower levels.   *)
LEMMA TodoPlaced ==
    ASSUME HierarchyInv, WorkersInv, pc = "process", stack = <<>>, NEW m \in todo,
           NEW c \in design[m].cells, c.type \notin Primitive
    PROVE  c.inst # "worker" /\ LevelOf(c.type) < LevelOf(m) /\ c.type \in DOMAIN design
<1>1. m \in DOMAIN design /\ m \in Name /\ m # <<>>
  BY TargetFacts, DesignNames
<1>2. c.type \in DOMAIN design
  BY <1>1, OldType
<1>3. LevelOf(c.type) < LevelOf(m) /\ LevelOf(m) \in Nat /\ LevelOf(c.type) \in Nat
  BY <1>1, <1>2, DesignNames DEF HierarchyInv, LevelsOK
<1>4. Placed(m, c, c.type)
  BY <1>1, NothingHeld DEF WorkersInv, Settled
<1>5. ASSUME c.inst = "worker"
      PROVE  FALSE
  <2>1. PICK i \in 1..3 : WorkerOf(c.type, m, i)
    BY <1>4, <1>5 DEF Placed
  <2>2. LevelOf(c.type) = LevelOf(m)
    BY <1>1, <1>2, <2>1, DesignNames, WorkerFacts
  <2> QED
    BY <1>3, <2>2
<1> QED
  BY <1>2, <1>3, <1>5

(* A module that was expanded is not a clone for a path, and instantiates  *)
(* lower levels.                                                           *)
LEMMA LowerPlaced ==
    ASSUME NEW n \in Name, LastToken(n) \notin PathSuffixes,
           NEW c, c.inst # "worker", LevelOf(c.type) < LevelOf(n)
    PROVE  Placed(n, c, c.type)
BY NoTail DEF Placed

(* Copies and reconnected instances stay at their level.                   *)
LEMMA ExpandLogicWorkers ==
    ASSUME HierarchyInv, WorkersInv, NEW m \in todo, ExpandLogic(m)
    PROVE  WorkersInv'
<1> DEFINE t == Target(m)
           w == WithTarget(m)
           cfg == ConfigOf(m)
<1>1. /\ pc = "process" /\ stack = <<>>
      /\ UNCHANGED <<input, pc, wrapper, stack>>
      /\ DOMAIN design' = DOMAIN design \cup {t}
      /\ design'[t].bb = design[m].bb
  BY ExpandLogicStep
<1>2. design'[t].cells = ExpandedCells(w, t, cfg)
  BY ExpandLogicStep
<1>3. \A x \in DOMAIN design : x # t => design'[x].cells = design[x].cells
  BY ExpandLogicOthers
<1>4. \A x \in DOMAIN design : x # t => (design'[x].bb <=> design[x].bb)
  BY ExpandLogicOthers
<1>5. /\ m \in DOMAIN design /\ t \in Name
      /\ t = m \/ t \notin UserName
      /\ t \in UserName \/ LastToken(t) = ImplSuffix
      /\ w[t].cells = design[m].cells
  BY <1>1, TargetFacts
<1>6. LastToken(t) \notin PathSuffixes
  BY <1>5, UserNameFacts, SuffixFacts
<1>7. /\ LevelOf(t) = LevelOf(m)
      /\ \A x \in DOMAIN w : w[x].impl # NoName => w[x].impl = Append(x, ImplSuffix)
      /\ \A x \in DOMAIN w : x \notin Primitive
  BY <1>1, TargetCells
<1>8. ASSUME NEW n, n = t, NEW k \in design'[n].cells
      PROVE  Settled(n, k)'
  <2>1. PICK c \in w[t].cells :
           k \in (IF IsLogicTree(w, c) THEN Triplicate(c, t, cfg) ELSE {Resolve(w, c)})
    BY <1>2, <1>8 DEF ExpandedCells
  <2>2. c \in design[m].cells /\ c \in Cell
    <3>1. design[m].cells \subseteq Cell
      BY <1>5, DesignNames DEF Module
    <3> QED
      BY <1>5, <2>1, <3>1
  <2>3. c.type \notin Primitive =>
          c.inst # "worker" /\ LevelOf(c.type) < LevelOf(m) /\ c.type \in DOMAIN design
    BY <1>1, <2>2, TodoPlaced
  <2>4. k.inst = c.inst
    <3>1. CASE IsLogicTree(w, c)
      <4>1. PICK i \in 1..3 :
               k = [c EXCEPT !.path = PathSuffix[i],
                             !.voted = cfg.ffVoter /\ IsFlipFlop(c, t, cfg)]
        BY <2>1, <3>1 DEF Triplicate
      <4> QED
        BY <2>2, <4>1 DEF Cell
    <3>2. CASE ~IsLogicTree(w, c)
      BY <2>1, <2>2, <3>2 DEF Resolve, Cell
    <3> QED
      BY <3>1, <3>2
  <2>5. k.type \in Primitive \/ (c.type \notin Primitive /\ LevelOf(k.type) = LevelOf(c.type))
    <3>1. CASE IsLogicTree(w, c)
      <4>1. PICK i \in 1..3 :
               k = [c EXCEPT !.path = PathSuffix[i],
                             !.voted = cfg.ffVoter /\ IsFlipFlop(c, t, cfg)]
        BY <2>1, <3>1 DEF Triplicate
      <4>2. k.type = c.type
        BY <2>2, <4>1 DEF Cell
      <4> QED
        BY <4>2
    <3>2. CASE ~IsLogicTree(w, c)
      <4>1. c.type \in DOMAIN w
        BY <3>2 DEF IsLogicTree, IsProper
      <4>2. c.type \notin Primitive
        BY <1>7, <4>1
      <4>3. k.type = IF w[c.type].impl # NoName THEN w[c.type].impl ELSE c.type
        BY <2>1, <2>2, <3>2 DEF Resolve, Cell
      <4>4. LevelOf(Append(c.type, ImplSuffix)) = LevelOf(c.type)
        BY <2>3, <4>2, DesignNames, SuffixFacts, AppendName DEF LevelOf
      <4> HIDE DEF w
      <4> QED
        BY <1>7, <4>1, <4>2, <4>3, <4>4
    <3> QED
      BY <3>1, <3>2
  <2> HIDE DEF t, w, cfg
  <2>6. CASE k.type \in Primitive
    BY <2>6 DEF Settled
  <2>7. CASE k.type \notin Primitive
    <3>1. LevelOf(k.type) < LevelOf(t) /\ k.inst # "worker"
      BY <1>7, <2>3, <2>4, <2>5, <2>7
    <3>2. Placed(n, k, k.type)
      BY <1>5, <1>6, <1>8, <3>1, LowerPlaced
    <3> QED
      BY <1>1, <3>2, PlacedKept DEF Settled
  <2> QED
    BY <2>6, <2>7
<1> HIDE DEF t, w, cfg
<1>9. ASSUME NEW n \in DOMAIN design', NEW c \in design'[n].cells
      PROVE  Settled(n, c)'
  <2>1. CASE n = t
    BY <1>8, <1>9, <2>1
  <2>2. CASE n # t
    BY <1>1, <1>3, <1>9, <2>2, NothingHeld, KeptSettled
  <2> QED
    BY <2>1, <2>2
<1>10. \A n \in DOMAIN design' : n \in input.bb => design'[n].bb
  <2>1. input.bb \subseteq UserName
    BY DEF HierarchyInv, TypeOK, InputType
  <2>2. m \in input.bb => design[m].bb
    BY <1>5 DEF WorkersInv
  <2>3. t \in input.bb => design'[t].bb
    BY <1>1, <1>5, <2>1, <2>2
  <2>4. \A n \in DOMAIN design : n # t /\ n \in input.bb => design'[n].bb
    BY <1>4 DEF WorkersInv
  <2> QED
    BY <1>1, <2>3, <2>4
<1>11. RanksOK' /\ \A i \in 1..Len(stack') : FramePlaced(i)'
  BY <1>1 DEF RanksOK
<1> QED
  BY <1>1, <1>9, <1>10, <1>11 DEF WorkersInv

(* The template is a copy; the wrapper only instantiates the template.     *)
LEMMA StartFullWorkers ==
    ASSUME HierarchyInv, WorkersInv, NEW m \in todo, StartFull(m)
    PROVE  WorkersInv'
<1> DEFINE t == Target(m)
           k == Template(t)
<1>1. /\ pc = "process" /\ pc' = "full" /\ stack = <<>> /\ wrapper' = t
      /\ UNCHANGED <<input, stack>>
      /\ k \in Name /\ LastToken(k) = WorkerSuffix /\ k \notin UserName
      /\ DOMAIN design' = DOMAIN design \cup {t, k}
      /\ design'[t].cells = {Duplicate(k, i) : i \in 1..3}
      /\ design'[k].cells = design[m].cells
  BY StartFullStep
<1>2. ~design[m].bb
  BY StartFullStep
<1>3. \A x \in DOMAIN design : x # t => design'[x].cells = design[x].cells
  BY StartFullOthers
<1>4. \A x \in DOMAIN design : x # t => (design'[x].bb <=> design[x].bb)
  BY StartFullOthers
<1>5. /\ m \in DOMAIN design /\ m \in UserName
      /\ t \in Name /\ t # <<>> /\ t[1] = m[1]
      /\ t = m \/ (t = Append(m, ImplSuffix) /\ t \notin UserName)
  BY <1>1, TargetFacts
<1>6. LevelOf(k) = LevelOf(m) /\ LastToken(k) \notin PathSuffixes
  BY <1>1, <1>5, TemplateFacts, SuffixFacts DEF LevelOf
<1>7. ASSUME NEW n, n = t, NEW c \in design'[n].cells
      PROVE  Settled(n, c)'
  <2>1. c.type = Template(wrapper')
    BY <1>1, <1>7 DEF Duplicate
  <2> QED
    BY <1>1, <2>1 DEF Settled
<1> HIDE DEF t
<1>8. ASSUME NEW n, n = k, NEW c \in design'[n].cells
      PROVE  Settled(n, c)'
  <2> HIDE DEF k
  <2>1. c \in design[m].cells
    BY <1>1, <1>8
  <2>2. CASE c.type \in Primitive
    BY <2>2 DEF Settled
  <2>3. CASE c.type \notin Primitive
    <3>1. c.inst # "worker" /\ LevelOf(c.type) < LevelOf(n)
      BY <1>1, <1>6, <1>8, <2>1, <2>3, TodoPlaced
    <3>2. Placed(n, c, c.type)
      BY <1>1, <1>6, <1>8, <3>1, LowerPlaced
    <3> QED
      BY <1>1, <3>2, PlacedKept DEF Settled
  <2> QED
    BY <2>2, <2>3
<1> HIDE DEF k
<1>9. ASSUME NEW n \in DOMAIN design', NEW c \in design'[n].cells
      PROVE  Settled(n, c)'
  <2>1. CASE n \in {t, k}
    BY <1>7, <1>8, <1>9, <2>1
  <2>2. CASE n \notin {t, k}
    BY <1>1, <1>3, <1>9, <2>2, NothingHeld, KeptSettled
  <2> QED
    BY <2>1, <2>2
<1>10. \A n \in DOMAIN design' : n \in input.bb => design'[n].bb
  <2>1. input.bb \subseteq UserName
    BY DEF HierarchyInv, TypeOK, InputType
  <2>2. m \notin input.bb
    BY <1>2, <1>5 DEF WorkersInv
  <2>3. t \notin input.bb /\ k \notin input.bb
    BY <1>1, <1>5, <2>1, <2>2
  <2>4. \A n \in DOMAIN design : n # t /\ n \in input.bb => design'[n].bb
    BY <1>4 DEF WorkersInv
  <2> QED
    BY <1>1, <2>3, <2>4
<1>11. RanksOK' /\ \A i \in 1..Len(stack') : FramePlaced(i)'
  BY <1>1 DEF RanksOK
<1>12. wrapper' \in UserName \cup {Append(n, ImplSuffix) : n \in UserName}
  BY <1>1, <1>5
<1> QED
  BY <1>1, <1>9, <1>10, <1>11, <1>12 DEF WorkersInv

-----------------------------------------------------------------------------
(* The recursion.                                                          *)

(* Every activation lives on, with its cells but for c in the top one.     *)
AllLiveOn(c) ==
    \A i \in 1..Len(stack) : \E j \in 1..Len(stack') :
        /\ stack'[j].mod = stack[i].mod /\ stack'[j].owner = stack[i].owner
        /\ stack'[j].cell = stack[i].cell
        /\ \A x \in stack[i].cells : x \in stack'[j].cells \/ (i = 1 /\ x = c)

(* What is held stays held, then, but for c.                               *)
LEMMA StillHeld ==
    ASSUME NEW c, NEW n, NEW k, Held(n, k), AllLiveOn(c)
    PROVE  Held(n, k)' \/ (n = stack[1].mod /\ k = c)
<1>1. PICK i \in 1..Len(stack) : \/ n = stack[i].mod /\ k \in stack[i].cells
                                 \/ n = stack[i].owner /\ k = stack[i].cell
  BY DEF Held
<1>2. PICK j \in 1..Len(stack') :
         /\ stack'[j].mod = stack[i].mod /\ stack'[j].owner = stack[i].owner
         /\ stack'[j].cell = stack[i].cell
         /\ \A x \in stack[i].cells : x \in stack'[j].cells \/ (i = 1 /\ x = c)
  BY DEF AllLiveOn
<1>3. CASE n = stack[i].mod /\ k \in stack[i].cells
  <2>1. k \in stack'[j].cells \/ (i = 1 /\ k = c)
    BY <1>2, <1>3
  <2> QED
    BY <1>2, <1>3, <2>1 DEF Held
<1>4. CASE n = stack[i].owner /\ k = stack[i].cell
  BY <1>2, <1>4 DEF Held
<1> QED
  BY <1>1, <1>3, <1>4

(* The top activation without the cell it visits, in detail.               *)
LEMMA VisitedCells ==
    ASSUME HierarchyInv, stack # <<>>, NEW c \in stack[1].cells
    PROVE  /\ Len(Visited(c)) = Len(stack)
           /\ \A i \in 1..Len(stack) :
                /\ Visited(c)[i].mod = stack[i].mod /\ Visited(c)[i].owner = stack[i].owner
                /\ Visited(c)[i].cell = stack[i].cell
                /\ Visited(c)[i].cells \subseteq stack[i].cells
                /\ \A x \in stack[i].cells : x \in Visited(c)[i].cells \/ (i = 1 /\ x = c)
<1>1. /\ Len(Visited(c)) = Len(stack)
      /\ \A i \in 1..Len(stack) :
           /\ Visited(c)[i].mod = stack[i].mod /\ Visited(c)[i].owner = stack[i].owner
           /\ Visited(c)[i].cell = stack[i].cell
           /\ Visited(c)[i].cells \subseteq stack[i].cells
  BY VisitedFacts
<1>2. ASSUME NEW i \in 1..Len(stack)
      PROVE  \A x \in stack[i].cells : x \in Visited(c)[i].cells \/ (i = 1 /\ x = c)
  <2>1. stack \in Seq(Frame) /\ 1 \in 1..Len(stack) /\ stack[1] \in Frame
    BY TopFacts
  <2>2. Visited(c) = [stack EXCEPT ![1] = [stack[1] EXCEPT !.cells = stack[1].cells \ {c}]]
    BY DEF Visited
  <2>3. Visited(c)[i] = IF i = 1 THEN [stack[1] EXCEPT !.cells = stack[1].cells \ {c}]
                        ELSE stack[i]
    BY <2>1, <2>2
  <2>4. [stack[1] EXCEPT !.cells = stack[1].cells \ {c}].cells = stack[1].cells \ {c}
    BY <2>1 DEF Frame
  <2> QED
    BY <2>3, <2>4
<1> QED
  BY <1>1, <1>2

LEMMA HeldWhenVisited ==
    ASSUME HierarchyInv, stack # <<>>, NEW c \in stack[1].cells, stack' = Visited(c),
           NEW n, NEW k, Held(n, k)
    PROVE  Held(n, k)' \/ (n = stack[1].mod /\ k = c)
<1>1. ASSUME NEW i \in 1..Len(stack)
      PROVE  \E j \in 1..Len(stack') :
               /\ stack'[j].mod = stack[i].mod /\ stack'[j].owner = stack[i].owner
               /\ stack'[j].cell = stack[i].cell
               /\ \A x \in stack[i].cells : x \in stack'[j].cells \/ (i = 1 /\ x = c)
  <2>1. i \in 1..Len(stack')
    BY VisitedCells
  <2> QED
    BY <2>1, VisitedCells
<1>2. AllLiveOn(c)
  BY <1>1 DEF AllLiveOn
<1> QED
  BY <1>2, StillHeld

(* An activation that goes on, or the one below it when it returns.        *)
LEMMA FramePlacedKept ==
    ASSUME HierarchyInv, NEW i \in 1..Len(stack), NEW j, FramePlaced(i),
           stack'[j].mod = stack[i].mod, stack'[j].owner = stack[i].owner,
           stack'[j].cell = stack[i].cell, stack'[j].cells \subseteq stack[i].cells,
           UNCHANGED <<input, path>>,
           \A x \in DOMAIN design : design'[x].proper <=> design[x].proper
    PROVE  FramePlaced(j)'
<1>1. LastToken(stack'[j].mod) = PathSuffix[path']
  BY DEF FramePlaced
<1>2. Placed(stack[j].owner, stack[j].cell, stack[j].mod)'
  BY PlacedKept DEF FramePlaced
<1>3. ASSUME NEW c \in stack'[j].cells, c.type \notin Primitive
      PROVE  design'[c.type].proper /\ Placed(ClonedFrom(stack[j].mod), c, c.type)'
  <2>1. design[c.type].proper /\ Placed(ClonedFrom(stack[i].mod), c, c.type)
    BY <1>3 DEF FramePlaced
  <2>2. c.type \in DOMAIN design
    BY <1>3 DEF HierarchyInv, StackOK, FrameOK
  <2>3. PICK n : n = ClonedFrom(stack[i].mod)
    OBVIOUS
  <2>4. Placed(n, c, c.type)'
    BY <2>1, <2>3, PlacedKept
  <2>5. ClonedFrom(stack'[j].mod) = n
    BY <2>3
  <2> QED
    BY <2>1, <2>2, <2>4, <2>5
<1> QED
  BY <1>1, <1>2, <1>3 DEF FramePlaced

(* A marked module that the recursion does not clone is configured to be   *)
(* shared, or a blackbox.                                                  *)
LEMMA SharedIfKept ==
    ASSUME HierarchyInv, IdentityInv, RenamedByDefault,
           NEW c, c.type \in DOMAIN design, design[c.type].proper, KeepsType(c)
    PROVE  ~Own(c.type) /\ c.type \in UserName
<1>1. IsExempt(c.type) \/ design[c.type].bb
  BY DEF KeepsType, IsProper
<1>2. CASE design[c.type].bb
  <2>1. c.type \in input.bb /\ input.bb \subseteq UserName
    BY <1>2 DEF IdentityInv, BlackboxOK, HierarchyInv, TypeOK, InputType
  <2> QED
    BY <2>1 DEF Own
<1>3. CASE IsExempt(c.type)
  <2>1. c.type \in UserName
    BY <1>3 DEF IsExempt, ConfigOf, RenamedByDefault
  <2>2. ConfigOf(c.type) = input.cfg[Base(c.type)]
    BY <2>1, BaseOfUser DEF ConfigOf
  <2>3. ConfiguredShared(c.type)
    BY <1>3, <2>2 DEF IsExempt, ConfiguredShared
  <2> QED
    BY <2>1, <2>3 DEF Own
<1> QED
  BY <1>1, <1>2, <1>3

(* The top activation and the cell that it visits.                         *)
LEMMA VisitedPlace ==
    ASSUME HierarchyInv, WorkersInv, stack # <<>>,
           NEW c \in stack[1].cells, c.type \notin Primitive
    PROVE  LET o == stack[1].mod
               f == ClonedFrom(o)
               p == PathSuffix[path]
           IN  /\ o \in DOMAIN design /\ o \in Name /\ o # <<>> /\ o[1] \in User
               /\ f \in Name /\ f # <<>> /\ f[1] = o[1] /\ o = Append(f, p) /\ Rank(f) = Rank(o)
               /\ p \in PathSuffixes
               /\ c.type \in DOMAIN design /\ c.type \in Name /\ c.type # <<>> /\ c.type[1] \in User
               /\ design[c.type].proper /\ Placed(f, c, c.type)
               /\ Rank(c.type) < Rank(o)
<1> DEFINE o == stack[1].mod
           f == ClonedFrom(o)
           p == PathSuffix[path]
<1>1. 1 \in 1..Len(stack) /\ FrameOK(1)
  BY TopFacts
<1>2. FramePlaced(1)
  BY <1>1 DEF WorkersInv
<1>3. o \in DOMAIN design /\ LastToken(o) = p /\ p \in PathSuffixes
  BY <1>1, <1>2 DEF FrameOK, FramePlaced
<1>4. o \in Name /\ o # <<>> /\ o[1] \in User
  BY <1>3, DesignNames
<1>5. c.type \in DOMAIN design
  BY <1>1 DEF FrameOK
<1>6. c.type \in Name /\ c.type # <<>> /\ c.type[1] \in User
  BY <1>5, DesignNames
<1>7. design[c.type].proper /\ Placed(f, c, c.type)
  BY <1>2 DEF FramePlaced
<1> HIDE DEF o, p
<1>8. f \in Name /\ f # <<>> /\ f[1] = o[1] /\ o = Append(f, p) /\ Rank(f) = Rank(o)
  <2>1. PICK n : n = o
    OBVIOUS
  <2> QED
    BY <1>3, <2>1, PathParent
<1> HIDE DEF f
<1>9. Rank(c.type) < Rank(o)
  <2>1. PICK n : n = f
    OBVIOUS
  <2>2. Rank(c.type) < Rank(n)
    BY <1>4, <1>6, <1>7, <1>8, <2>1, PlacedRank
  <2> QED
    BY <1>8, <2>1, <2>2
<1> QED
  BY <1>3, <1>4, <1>5, <1>6, <1>7, <1>8, <1>9 DEF o, f, p

(* A cell that is left alone refers to a module that workers share.        *)
LEMMA LeaveCellWorkers ==
    ASSUME HierarchyInv, IdentityInv, RenamedByDefault, WorkersInv,
           VisitCell, NEW c \in stack[1].cells, LeaveCell(c)
    PROVE  WorkersInv'
<1>1. /\ stack # <<>> /\ stack' = Visited(c) /\ pc = "full"
      /\ UNCHANGED <<input, pc, design, wrapper, path>> /\ KeepsType(c)
  BY DEF VisitCell, LeaveCell
<1>2. /\ Len(stack') = Len(stack)
      /\ \A i \in 1..Len(stack) :
           /\ stack'[i].mod = stack[i].mod /\ stack'[i].owner = stack[i].owner
           /\ stack'[i].cell = stack[i].cell
           /\ stack'[i].cells \subseteq stack[i].cells
  BY <1>1, VisitedCells
<1>3. ASSUME NEW n, n = stack[1].mod
      PROVE  Settled(n, c)'
  <2>1. CASE c.type \in Primitive
    BY <2>1 DEF Settled
  <2>2. CASE c.type \notin Primitive
    <3>1. PICK f : f = ClonedFrom(stack[1].mod)
      OBVIOUS
    <3>2. /\ n \in Name /\ f \in Name /\ f # <<>> /\ f[1] = n[1]
          /\ c.type \in DOMAIN design /\ c.type \in Name
          /\ design[c.type].proper /\ Placed(f, c, c.type)
      BY <1>1, <1>3, <2>2, <3>1, VisitedPlace
    <3>3. ~Own(c.type) /\ c.type \in UserName
      BY <1>1, <3>2, SharedIfKept
    <3>4. c.inst # "worker"
      BY <3>2, <3>3, WorkerFacts DEF Placed
    <3>5. LevelOf(c.type) < LevelOf(n)
      BY <3>2, <3>4 DEF Placed, LevelOf
    <3>6. Placed(n, c, c.type)
      BY <3>3, <3>4, <3>5 DEF Placed
    <3> QED
      BY <1>1, <3>6, PlacedKept DEF Settled
  <2> QED
    BY <2>1, <2>2
<1>4. ASSUME NEW n \in DOMAIN design, NEW k \in design[n].cells
      PROVE  Settled(n, k)'
  <2>1. CASE n = stack[1].mod /\ k = c
    BY <1>3, <2>1
  <2>2. CASE ~(n = stack[1].mod /\ k = c)
    <3>1. Held(n, k) => Held(n, k)'
      BY <1>1, <2>2, HeldWhenVisited
    <3> QED
      BY <1>1, <3>1, KeptSettled
  <2> QED
    BY <2>1, <2>2
<1>5. \A i \in 1..Len(stack') : FramePlaced(i)'
  BY <1>1, <1>2, FramePlacedKept DEF WorkersInv
<1>6. RanksOK'
  BY <1>2 DEF WorkersInv, RanksOK
<1> QED
  BY <1>1, <1>4, <1>5, <1>6 DEF WorkersInv

(* A cell that gets the clone for this path, in a module of this path.     *)
LEMMA ReuseCloneWorkers ==
    ASSUME HierarchyInv, WorkersInv,
           VisitCell, NEW c \in stack[1].cells, ReuseClone(c)
    PROVE  WorkersInv'
<1> DEFINE un == UniqueName(c)
           o  == stack[1].mod
           p  == PathSuffix[path]
<1>1. /\ pc = "full" /\ stack # <<>>
      /\ UNCHANGED <<input, pc, wrapper, path>>
      /\ c \in Cell /\ c.type \in DOMAIN design /\ un = Append(c.type, p)
      /\ un \in DOMAIN design /\ un \in Name
      /\ o \in DOMAIN design
      /\ DOMAIN design' = DOMAIN design
      /\ \A x \in DOMAIN design : x # o => design'[x] = design[x]
      /\ design'[o].cells = (design[o].cells \ {c}) \cup {[c EXCEPT !.type = un]}
  BY ReuseCloneStep
<1>2. design'[o].proper = design[o].proper
  BY ReuseCloneStep
<1>3. design'[o].bb = design[o].bb
  BY ReuseCloneStep
<1>4. stack' = Visited(c) /\ ~KeepsType(c)
  BY DEF ReuseClone
<1>5. /\ Len(stack') = Len(stack)
      /\ \A i \in 1..Len(stack) :
           /\ stack'[i].mod = stack[i].mod /\ stack'[i].owner = stack[i].owner
           /\ stack'[i].cell = stack[i].cell
           /\ stack'[i].cells \subseteq stack[i].cells
  BY <1>1, <1>4, VisitedCells
<1>6. Placed(o, c, un)
  <2>1. PICK n, f, u : n = o /\ f = ClonedFrom(o) /\ u = un
    OBVIOUS
  <2>2. c.type \notin Primitive
    BY <1>1, DesignNames
  <2>3. /\ f \in Name /\ f # <<>> /\ n = Append(f, p) /\ p \in PathSuffixes
        /\ c.type \in Name /\ c.type # <<>> /\ Placed(f, c, c.type)
    BY <1>1, <2>1, <2>2, VisitedPlace
  <2>4. c.type \notin input.bb
    BY <1>1, <1>4 DEF WorkersInv, KeepsType
  <2>5. InputType(input) /\ u = Append(c.type, p)
    BY <1>1, <2>1 DEF HierarchyInv, TypeOK
  <2> HIDE DEF un, o, p
  <2>6. Placed(Append(f, p), c, Append(c.type, p))
    BY <2>3, <2>4, <2>5, AppendPlaced
  <2> QED
    BY <2>1, <2>3, <2>5, <2>6
<1> HIDE DEF un, o, p
<1>7. ASSUME NEW n, n = o, NEW k, k = [c EXCEPT !.type = un]
      PROVE  Settled(n, k)'
  <2>1. PICK u : u = un
    OBVIOUS
  <2>2. k.type = u
    BY <1>1, <1>7, <2>1 DEF Cell
  <2>3. Placed(n, k, u)
    BY <1>1, <1>6, <1>7, <2>1, RetypedPlaced
  <2>4. Placed(n, k, k.type)'
    BY <1>1, <2>2, <2>3, PlacedKept
  <2> QED
    BY <2>4 DEF Settled
<1>8. ASSUME NEW n \in DOMAIN design, NEW k \in design[n].cells, ~(n = o /\ k = c)
      PROVE  Settled(n, k)'
  <2>1. Held(n, k) => Held(n, k)'
    BY <1>1, <1>4, <1>8, HeldWhenVisited DEF o
  <2> QED
    BY <1>1, <2>1, KeptSettled
<1>9. \A n \in DOMAIN design' : \A k \in design'[n].cells : Settled(n, k)'
  BY <1>1, <1>7, <1>8
<1>10. \A i \in 1..Len(stack') : FramePlaced(i)'
  <2>1. \A x \in DOMAIN design : design'[x].proper <=> design[x].proper
    BY <1>1, <1>2
  <2> QED
    BY <1>1, <1>5, <2>1, FramePlacedKept DEF WorkersInv
<1>11. RanksOK'
  BY <1>5 DEF WorkersInv, RanksOK
<1>12. \A n \in DOMAIN design' : n \in input'.bb => design'[n].bb
  BY <1>1, <1>3 DEF WorkersInv
<1> QED
  BY <1>1, <1>9, <1>10, <1>11, <1>12 DEF WorkersInv

(* The module that is cloned for a path, and what it instantiates, which   *)
(* the new activation starts from.                                         *)
LEMMA CloneCells ==
    ASSUME HierarchyInv, PortsInv, WorkersInv, pc = "full",
           NEW s \in DOMAIN design, s # wrapper, NEW k \in design[s].cells, ~Held(s, k),
           k.type \notin Primitive
    PROVE  design[k.type].proper /\ Placed(s, k, k.type)
<1>1. k.type # Template(wrapper)
  BY FullFacts
<1>2. k.type \in DOMAIN design
  BY OldType
<1>3. LastToken(k.type) # WorkerSuffix
  BY <1>1, <1>2 DEF HierarchyInv, NamesOK
<1>4. design[k.type].proper
  BY <1>2, <1>3 DEF PortsInv, InstancesMarked
<1> QED
  BY <1>1, <1>4 DEF WorkersInv, Settled

(* The worker of a path takes the place that its wrapper has for it.       *)
LEMMA CloneWorkerWorkers ==
    ASSUME HierarchyInv, PortsInv, WorkersInv, CloneWorker
    PROVE  WorkersInv'
<1> DEFINE t == Template(wrapper)
           un == WorkerName(path)
<1>1. /\ pc = "full" /\ path \in 1..3 /\ stack = <<>>
      /\ UNCHANGED <<input, pc, wrapper, path>>
      /\ t \in DOMAIN design /\ t \in Name
      /\ un = Append(t, PathSuffix[path]) /\ LastToken(un) = PathSuffix[path]
      /\ un \in Name /\ un \notin UserName
      /\ DOMAIN design' = DOMAIN design \cup {un}
      /\ design'[un].cells = design[t].cells
      /\ \A x \in DOMAIN design : x # un => design'[x] = design[x]
      /\ stack' = <<[mod |-> un, cells |-> design[t].cells, owner |-> wrapper,
                     cell |-> Duplicate(t, path)]>>
  BY CloneWorkerStep
<1>2. /\ wrapper \in Name /\ wrapper # <<>> /\ wrapper[1] \in User /\ t # wrapper
      /\ t # <<>> /\ t[1] = wrapper[1]
  BY <1>1, FullFacts, TemplateFacts
<1>3. wrapper \in UserName \cup {Append(n, ImplSuffix) : n \in UserName}
  BY <1>1 DEF WorkersInv
<1>4. /\ Len(wrapper) \in Nat /\ Stem(wrapper) = Len(wrapper) /\ Len(wrapper) \in 1..2
      /\ LastToken(wrapper) \notin PathSuffixes
  <2>1. CASE wrapper \in UserName
    BY <2>1, UserNameFacts, SuffixFacts DEF Stem
  <2>2. ASSUME NEW n \in UserName, wrapper = Append(n, ImplSuffix)
        PROVE  /\ Len(wrapper) = 2 /\ wrapper[2] = ImplSuffix
               /\ LastToken(wrapper) \notin PathSuffixes
    <3>1. n \in Name /\ Len(n) = 1 /\ n # <<>> /\ ImplSuffix \in Token
      BY UserNameFacts, SuffixFacts
    <3> QED
      BY <2>2, <3>1, AppendName, SecondToken, SuffixFacts
  <2> QED
    BY <1>3, <2>1, <2>2 DEF Stem
<1>5. /\ Len(un) = Len(wrapper) + 2
      /\ un[Len(wrapper) + 1] = WorkerSuffix /\ un[Len(wrapper) + 2] = PathSuffix[path]
      /\ \A k \in 1..Len(wrapper) : un[k] = wrapper[k]
  <2>1. /\ Len(t) = Len(wrapper) + 1 /\ t[Len(wrapper) + 1] = WorkerSuffix
        /\ \A k \in 1..Len(wrapper) : t[k] = wrapper[k]
    BY <1>2 DEF Template, Name
  <2>2. PathSuffix[path] \in PathSuffixes
    BY <1>1, SuffixFacts
  <2>3. /\ Len(un) = Len(t) + 1 /\ un[Len(t) + 1] = PathSuffix[path]
        /\ \A k \in 1..Len(t) : un[k] = t[k]
    BY <1>1, <2>2, AppendTokens
  <2> HIDE DEF un, t
  <2> QED
    BY <1>4, <2>1, <2>3
<1> HIDE DEF un
<1>6. Placed(wrapper, Duplicate(t, path), un)
  <2>1. WrapperName(wrapper)
    BY <1>4 DEF WrapperName
  <2>2. WorkerOf(un, wrapper, path)
    BY <1>4, <1>5 DEF WorkerOf
  <2>3. /\ Duplicate(t, path).inst = "worker"
        /\ Duplicate(t, path) = Duplicate(Duplicate(t, path).type, path)
    BY DEF Duplicate
  <2>4. PICK w : w = wrapper
    OBVIOUS
  <2>5. Follows(un, w)
    BY <1>2, <1>4, <2>4, NoTail
  <2> QED
    BY <1>1, <2>1, <2>2, <2>3, <2>4, <2>5 DEF Placed
<1>7. ClonedFrom(un) = t
  BY <1>1, SuffixFacts, ClonedFromAppend
<1>8. /\ Len(stack') = 1
      /\ stack'[1].mod = un /\ stack'[1].cells = design[t].cells
      /\ stack'[1].owner = wrapper /\ stack'[1].cell = Duplicate(t, path)
  BY <1>1
<1>9. \A k \in design[t].cells :
         k.type \in Primitive \/ (design[k.type].proper /\ Placed(t, k, k.type))
  BY <1>1, <1>2, NothingHeld, CloneCells
<1>10. un # wrapper
  <2>1. Len(un) # Len(wrapper)
    BY <1>4, <1>5
  <2> QED
    BY <2>1
<1> HIDE DEF t
<1>11. ASSUME NEW n, n = un, NEW k \in design'[n].cells
       PROVE  Settled(n, k)'
  <2>1. Held(n, k)'
    <3>1. 1 \in 1..Len(stack')
      BY <1>8
    <3> QED
      BY <1>1, <1>8, <1>11, <3>1 DEF Held
  <2> QED
    BY <2>1 DEF Settled
<1>12. ASSUME NEW n \in DOMAIN design, n # un, NEW k \in design'[n].cells
       PROVE  Settled(n, k)'
  <2>1. k \in design[n].cells
    BY <1>1, <1>12
  <2> QED
    BY <1>1, <1>12, <2>1, NothingHeld, KeptSettled DEF Template
<1>13. \A n \in DOMAIN design' : \A k \in design'[n].cells : Settled(n, k)'
  BY <1>1, <1>11, <1>12
<1>14. \A n \in DOMAIN design' : n \in input'.bb => design'[n].bb
  <2>1. input.bb \subseteq UserName
    BY DEF HierarchyInv, TypeOK, InputType
  <2> QED
    BY <1>1, <2>1 DEF WorkersInv
<1>15. ASSUME NEW i \in 1..Len(stack')
       PROVE  FramePlaced(i)'
  <2>1. i = 1
    BY <1>8
  <2>2. LastToken(stack'[i].mod) = PathSuffix[path']
    BY <1>1, <1>8, <2>1
  <2>3. Placed(stack[i].owner, stack[i].cell, stack[i].mod)'
    <3>1. PICK o, c, s : o = wrapper /\ c = Duplicate(t, path) /\ s = un
      OBVIOUS
    <3>2. Placed(o, c, s)'
      BY <1>1, <1>6, <3>1, PlacedKept
    <3> QED
      BY <1>8, <2>1, <3>1, <3>2
  <2>4. ASSUME NEW c \in stack'[i].cells, c.type \notin Primitive
        PROVE  design'[c.type].proper /\ Placed(ClonedFrom(stack[i].mod), c, c.type)'
    <3>1. c \in design[t].cells
      BY <1>8, <2>1, <2>4
    <3>2. design[c.type].proper /\ Placed(t, c, c.type) /\ c.type \in DOMAIN design
      BY <1>1, <1>9, <2>4, <3>1, OldType
    <3>3. design'[un].proper
      BY CloneWorkerStep DEF un
    <3>4. design'[c.type].proper
      BY <1>1, <3>2, <3>3
    <3>5. PICK o : o = t
      OBVIOUS
    <3>6. Placed(o, c, c.type)'
      BY <1>1, <3>2, <3>5, PlacedKept
    <3>7. ClonedFrom(stack'[i].mod) = o
      BY <1>7, <1>8, <2>1, <3>5
    <3> QED
      BY <3>4, <3>6, <3>7
  <2> QED
    BY <2>2, <2>3, <2>4 DEF FramePlaced
<1>16. RanksOK'
  <2>1. PICK o, s : o = wrapper /\ s = un
    OBVIOUS
  <2>2. s # <<>> /\ s[1] \in User
    <3>1. PathSuffix[path] \in Token
      BY <1>1, SuffixFacts
    <3> QED
      BY <1>1, <1>2, <2>1, <3>1, AppendName
  <2>3. Rank(s) < Rank(o)
    BY <1>1, <1>2, <1>6, <2>1, <2>2, PlacedRank
  <2> QED
    BY <1>8, <2>1, <2>3 DEF RanksOK
<1> QED
  BY <1>1, <1>3, <1>13, <1>14, <1>15, <1>16 DEF WorkersInv

(* The module that the recursion clones is none that it works in.          *)
LEMMA StackRanks ==
    ASSUME HierarchyInv, NEW i \in 1..Len(stack)
    PROVE  Rank(stack[i].mod) \in Nat /\ Rank(stack[i].owner) \in Nat
<1>1. stack[i].mod \in DOMAIN design /\ stack[i].owner \in DOMAIN design
  BY DEF HierarchyInv, StackOK, FrameOK
<1>2. PICK m, o : m = stack[i].mod /\ o = stack[i].owner
  OBVIOUS
<1>3. Rank(m) \in Nat /\ Rank(o) \in Nat
  BY <1>1, <1>2, DesignNames, RankFacts
<1> QED
  BY <1>2, <1>3

LEMMA LowerNotHeld ==
    ASSUME HierarchyInv, RanksOK, stack # <<>>, NEW s, NEW k, Rank(s) \in Nat,
           Rank(s) < Rank(stack[1].mod)
    PROVE  ~Held(s, k)
<1> SUFFICES ASSUME NEW i \in 1..Len(stack), s = stack[i].mod \/ s = stack[i].owner
             PROVE  FALSE
  BY DEF Held
<1>1. 1 \in 1..Len(stack) /\ 1 =< i /\ Len(stack) \in Nat
  BY TopFacts
<1>2. Rank(stack[1].mod) \in Nat /\ Rank(stack[i].mod) \in Nat /\ Rank(stack[i].owner) \in Nat
  BY <1>1, StackRanks
<1>3. Rank(stack[1].mod) < Rank(stack[i].owner)
  BY <1>1 DEF RanksOK
<1>4. i = 1 \/ Rank(stack[1].mod) < Rank(stack[i].mod)
  <2>1. i = 1 \/ 1 < i
    BY <1>1
  <2> QED
    BY <1>1, <2>1 DEF RanksOK
<1> HIDE DEF Rank
<1> DEFINE a == Rank(s)
           b == Rank(stack[1].mod)
           c == Rank(stack[i].mod)
           d == Rank(stack[i].owner)
<1>5. a \in Nat /\ b \in Nat /\ c \in Nat /\ d \in Nat /\ a < b /\ b < d /\ (c = b \/ b < c)
  BY <1>2, <1>3, <1>4
<1>6. a = c \/ a = d
  OBVIOUS
<1> HIDE DEF a, b, c, d
<1> QED
  BY <1>5, <1>6

(* The recursion goes down by an activation.                               *)
LEMMA DeeperRanks ==
    ASSUME HierarchyInv, RanksOK, stack # <<>>, NEW u, Rank(u) \in Nat,
           Rank(u) < Rank(stack[1].mod),
           Len(stack') = Len(stack) + 1,
           stack'[1].mod = u, stack'[1].owner = stack[1].mod,
           \A i \in 1..Len(stack) :
               stack'[i + 1].mod = stack[i].mod /\ stack'[i + 1].owner = stack[i].owner
    PROVE  RanksOK'
<1>1. 1 \in 1..Len(stack) /\ Len(stack) \in Nat
  BY TopFacts
<1>2. \A i \in 1..Len(stack) : Rank(stack[i].mod) \in Nat /\ Rank(stack[i].owner) \in Nat
  BY StackRanks
<1>3. \A i \in 1..Len(stack) : Rank(stack[1].mod) < Rank(stack[i].owner)
  BY <1>1 DEF RanksOK
<1>4. \A i \in 1..Len(stack) : i = 1 \/ Rank(stack[1].mod) < Rank(stack[i].mod)
  <2>1. \A i \in 1..Len(stack) : i = 1 \/ 1 < i
    OBVIOUS
  <2> QED
    BY <1>1, <2>1 DEF RanksOK
<1>5. ASSUME NEW i \in 1..Len(stack'), NEW j \in 1..Len(stack')
      PROVE  /\ i =< j => Rank(stack'[i].mod) < Rank(stack'[j].owner)
             /\ i < j => Rank(stack'[i].mod) < Rank(stack'[j].mod)
  <2>1. CASE i = 1 /\ j = 1
    BY <2>1
  <2>2. CASE i = 1 /\ j > 1
    <3>1. j - 1 \in 1..Len(stack) /\ j = (j - 1) + 1
      BY <1>1, <1>5, <2>2
    <3>2. PICK k \in 1..Len(stack) : j = k + 1
      BY <3>1
    <3>3. stack'[j].mod = stack[k].mod /\ stack'[j].owner = stack[k].owner
      BY <3>2
    <3>4. /\ Rank(stack[1].mod) < Rank(stack[k].owner)
          /\ k = 1 \/ Rank(stack[1].mod) < Rank(stack[k].mod)
      BY <1>3, <1>4
    <3>5. Rank(stack[k].mod) \in Nat /\ Rank(stack[k].owner) \in Nat /\ Rank(stack[1].mod) \in Nat
      BY <1>1, <1>2
    <3>6. Rank(u) < Rank(stack[k].owner)
      BY <3>4, <3>5
    <3>7. Rank(u) < Rank(stack[k].mod)
      BY <3>4, <3>5
    <3> QED
      BY <2>2, <3>3, <3>6, <3>7
  <2>3. CASE i > 1
    <3>1. j = 1 \/ j > 1
      BY <1>1, <1>5
    <3>2. CASE j = 1
      BY <2>3, <3>2
    <3>3. CASE j > 1
      <4>1. PICK h \in 1..Len(stack), k \in 1..Len(stack) : i = h + 1 /\ j = k + 1
        <5>1. i - 1 \in 1..Len(stack) /\ i = (i - 1) + 1
          BY <1>1, <1>5, <2>3
        <5>2. j - 1 \in 1..Len(stack) /\ j = (j - 1) + 1
          BY <1>1, <1>5, <3>3
        <5> QED
          BY <5>1, <5>2
      <4>2. (i =< j => h =< k) /\ (i < j => h < k)
        BY <4>1
      <4>3. /\ h =< k => Rank(stack[h].mod) < Rank(stack[k].owner)
            /\ h < k => Rank(stack[h].mod) < Rank(stack[k].mod)
        BY DEF RanksOK
      <4> QED
        BY <4>1, <4>2, <4>3
    <3> QED
      BY <3>1, <3>2, <3>3
  <2>4. i = 1 \/ i > 1
    BY <1>1, <1>5
  <2>5. j = 1 \/ j > 1
    BY <1>1, <1>5
  <2> QED
    BY <2>1, <2>2, <2>3, <2>4, <2>5
<1> QED
  BY <1>5 DEF RanksOK, Rank, LevelOf

(* A new activation on top of those that go on.                            *)
LEMMA DeeperStack ==
    ASSUME HierarchyInv, VisitCell, NEW c \in stack[1].cells, CloneSubmodule(c)
    PROVE  AllLiveOn(c)
<1>1. /\ stack # <<>> /\ Len(stack') = Len(stack) + 1 /\ Len(stack) \in Nat
      /\ c \in Cell /\ stack[1] \in Frame
      /\ UniqueName(c) \in Name /\ design[c.type].cells \subseteq Cell
  BY CloneSubmoduleStep, DesignNames, TopFacts DEF Module
<1> DEFINE f == [mod |-> UniqueName(c), cells |-> design[c.type].cells,
                 owner |-> stack[1].mod, cell |-> c]
           v == Visited(c)
<1>2. stack' = <<f>> \o v
  BY DEF CloneSubmodule
<1>3. f \in Frame
  BY <1>1 DEF Frame
<1>4. v \in Seq(Frame) /\ Len(v) = Len(stack)
  BY <1>1, VisitedFacts
<1>5. \A i \in 1..Len(stack) :
         /\ v[i].mod = stack[i].mod /\ v[i].owner = stack[i].owner
         /\ v[i].cell = stack[i].cell
         /\ \A x \in stack[i].cells : x \in v[i].cells \/ (i = 1 /\ x = c)
  BY <1>1, VisitedCells
<1> HIDE DEF f, v
<1>6. \A i \in 1..Len(stack) : i + 1 \in 1..Len(stack') /\ stack'[i + 1] = v[i]
  BY <1>1, <1>2, <1>3, <1>4
<1> QED
  BY <1>5, <1>6 DEF AllLiveOn

(* The clone starts with the cells of its original, for which the new      *)
(* activation is responsible.                                              *)
LEMMA CloneSubmoduleWorkers ==
    ASSUME HierarchyInv, PortsInv, WorkersInv,
           VisitCell, NEW c \in stack[1].cells, CloneSubmodule(c)
    PROVE  WorkersInv'
<1> DEFINE un == UniqueName(c)
           o  == stack[1].mod
           p  == PathSuffix[path]
<1>1. /\ pc = "full" /\ stack # <<>>
      /\ UNCHANGED <<input, pc, wrapper, path>>
      /\ c \in Cell /\ c.type \in DOMAIN design /\ c.type \in Name /\ c.type # <<>>
      /\ c.type # wrapper
      /\ un = Append(c.type, p) /\ un \in Name /\ un # <<>> /\ LastToken(un) = p
      /\ p \in PathSuffixes /\ p \in Token
      /\ un \notin DOMAIN design /\ un \notin UserName
      /\ DOMAIN design' = DOMAIN design \cup {un}
      /\ design'[un].cells = design[c.type].cells
      /\ \A x \in DOMAIN design : x # un => design'[x] = design[x]
  BY CloneSubmoduleStep
<1>2. design'[un].proper /\ ~design[c.type].bb
  BY CloneSubmoduleStep
<1>3. /\ Len(stack') = Len(stack) + 1 /\ Len(stack) \in Nat
      /\ stack'[1] = [mod |-> un, cells |-> design[c.type].cells,
                      owner |-> stack[1].mod, cell |-> c]
      /\ \A i \in 1..Len(stack) :
           /\ stack'[i + 1].mod = stack[i].mod
           /\ stack'[i + 1].owner = stack[i].owner
           /\ stack'[i + 1].cell = stack[i].cell
           /\ stack'[i + 1].cells \subseteq stack[i].cells
  BY CloneSubmoduleStep
<1>4. /\ stack'[1].mod = un /\ stack'[1].cells = design[c.type].cells
      /\ stack'[1].owner = o /\ stack'[1].cell = c
      /\ 1 \in 1..Len(stack')
  BY <1>3
<1>5. AllLiveOn(c)
  BY DeeperStack
<1>6. c.type \notin Primitive /\ c.type[1] \in User
  BY <1>1, DesignNames
<1>7. c.type \notin input.bb
  BY <1>1, <1>2 DEF WorkersInv
<1> HIDE DEF un, p
<1>8. Rank(c.type) < Rank(o) /\ Placed(o, c, un)
  <2>1. PICK n, f, u : n = o /\ f = ClonedFrom(o) /\ u = un
    OBVIOUS
  <2>2. /\ f \in Name /\ f # <<>> /\ n = Append(f, p) /\ Placed(f, c, c.type)
        /\ Rank(c.type) < Rank(n)
    BY <1>1, <1>6, <2>1, VisitedPlace DEF p
  <2>3. InputType(input)
    BY DEF HierarchyInv, TypeOK
  <2> HIDE DEF o
  <2>4. Placed(Append(f, p), c, Append(c.type, p))
    BY <1>1, <1>7, <2>2, <2>3, AppendPlaced
  <2> QED
    BY <1>1, <2>1, <2>2, <2>4
<1>9. Rank(c.type) \in Nat /\ Rank(un) = Rank(c.type)
  BY <1>1, <1>6, RankFacts
<1>10. ASSUME NEW k \in design[c.type].cells, k.type \notin Primitive
       PROVE  k.type \in DOMAIN design /\ design[k.type].proper /\ Placed(c.type, k, k.type)
  <2>1. PICK s : s = c.type
    OBVIOUS
  <2>2. ~Held(s, k)
    BY <1>1, <1>8, <1>9, <2>1, LowerNotHeld DEF WorkersInv
  <2>3. design[k.type].proper /\ Placed(s, k, k.type)
    BY <1>1, <1>10, <2>1, <2>2, CloneCells
  <2>4. k.type \in DOMAIN design
    BY <1>1, <1>10, OldType
  <2> QED
    BY <2>1, <2>3, <2>4
<1>11. ClonedFrom(un) = c.type
  BY <1>1, ClonedFromAppend
<1>12. ASSUME NEW n, n = un, NEW k \in design'[n].cells
       PROVE  Settled(n, k)'
  <2>1. Held(n, k)'
    BY <1>1, <1>4, <1>12 DEF Held
  <2> QED
    BY <2>1 DEF Settled
<1>13. ASSUME NEW n \in DOMAIN design, NEW k \in design[n].cells
       PROVE  Settled(n, k)'
  <2>1. ASSUME Held(n, k)
        PROVE  Held(n, k)'
    <3>1. CASE n = stack[1].mod /\ k = c
      BY <1>4, <3>1 DEF Held
    <3>2. Held(n, k)' \/ (n = stack[1].mod /\ k = c)
      BY <1>5, <2>1, StillHeld
    <3> QED
      BY <3>1, <3>2
  <2> QED
    BY <1>1, <2>1, KeptSettled DEF Template
<1>14. \A n \in DOMAIN design' : \A k \in design'[n].cells : Settled(n, k)'
  BY <1>1, <1>12, <1>13
<1>15. \A n \in DOMAIN design' : n \in input'.bb => design'[n].bb
  <2>1. input.bb \subseteq UserName
    BY DEF HierarchyInv, TypeOK, InputType
  <2> QED
    BY <1>1, <2>1 DEF WorkersInv
<1>16. \A x \in DOMAIN design : design'[x].proper <=> design[x].proper
  BY <1>1
<1>17. ASSUME NEW i, i = 1
       PROVE  FramePlaced(i)'
  <2>1. LastToken(stack'[i].mod) = PathSuffix[path']
    BY <1>1, <1>4, <1>17 DEF p
  <2>2. Placed(stack[i].owner, stack[i].cell, stack[i].mod)'
    <3>1. PICK n, s : n = o /\ s = un
      OBVIOUS
    <3>2. Placed(n, c, s)'
      BY <1>1, <1>8, <3>1, PlacedKept
    <3> QED
      BY <1>4, <1>17, <3>1, <3>2
  <2>3. ASSUME NEW k \in stack'[i].cells, k.type \notin Primitive
        PROVE  design'[k.type].proper /\ Placed(ClonedFrom(stack[i].mod), k, k.type)'
    <3>1. /\ k.type \in DOMAIN design /\ design[k.type].proper
          /\ Placed(c.type, k, k.type)
      BY <1>4, <1>10, <1>17, <2>3
    <3>2. PICK s : s = c.type
      OBVIOUS
    <3>3. Placed(s, k, k.type)'
      BY <1>1, <3>1, <3>2, PlacedKept
    <3>4. ClonedFrom(stack'[i].mod) = s
      BY <1>4, <1>11, <1>17, <3>2
    <3> QED
      BY <1>16, <3>1, <3>3, <3>4
  <2> QED
    BY <2>1, <2>2, <2>3 DEF FramePlaced
<1>18. ASSUME NEW i \in 1..Len(stack), NEW j, j = i + 1
       PROVE  FramePlaced(j)'
  <2>1. FramePlaced(i)
    BY DEF WorkersInv
  <2>2. /\ stack'[j].mod = stack[i].mod /\ stack'[j].owner = stack[i].owner
        /\ stack'[j].cell = stack[i].cell /\ stack'[j].cells \subseteq stack[i].cells
    BY <1>3, <1>18
  <2> QED
    BY <1>1, <1>16, <2>1, <2>2, FramePlacedKept
<1>19. \A j \in 1..Len(stack') : FramePlaced(j)'
  <2> TAKE j \in 1..Len(stack')
  <2>1. j = 1 \/ (j - 1 \in 1..Len(stack) /\ j = (j - 1) + 1)
    BY <1>3
  <2> QED
    BY <1>17, <1>18, <2>1
<1>20. RanksOK'
  <2>1. RanksOK
    BY DEF WorkersInv
  <2>2. PICK u : u = un
    OBVIOUS
  <2> QED
    BY <1>1, <1>3, <1>4, <1>8, <1>9, <2>1, <2>2, DeeperRanks
<1> QED
  BY <1>1, <1>14, <1>15, <1>19, <1>20 DEF WorkersInv

(* The cell that an activation was called for gets its place.              *)
LEMMA ReturnWorkers ==
    ASSUME HierarchyInv, WorkersInv, Return
    PROVE  WorkersInv'
<1> DEFINE f == stack[1]
           o == f.owner
           k == [f.cell EXCEPT !.type = f.mod]
<1>1. /\ pc = "full" /\ stack # <<>>
      /\ UNCHANGED <<input, pc, wrapper>>
      /\ f.cell \in Cell /\ f.mod \in DOMAIN design /\ f.mod \in Name
      /\ o \in DOMAIN design
      /\ DOMAIN design' = DOMAIN design
      /\ \A x \in DOMAIN design : x # o => design'[x] = design[x]
      /\ design'[o].cells = (design[o].cells \ {f.cell}) \cup {k}
      /\ Len(stack) \in Nat /\ Len(stack) >= 1 /\ Len(stack') = Len(stack) - 1
      /\ \A i \in 1..Len(stack') : stack'[i] = stack[i + 1]
      /\ path' = IF Len(stack) = 1 THEN path + 1 ELSE path
  BY ReturnStep
<1>2. design'[o].bb = design[o].bb
  BY ReturnStep
<1>3. design'[o].proper = design[o].proper
  BY ReturnStep
<1>4. f.cells = {} /\ 1 \in 1..Len(stack)
  BY <1>1 DEF Return
<1>5. Placed(o, f.cell, f.mod)
  BY <1>4 DEF WorkersInv, FramePlaced
<1>6. ASSUME NEW n, n = o, NEW c, c = k
      PROVE  Settled(n, c)'
  <2>1. PICK s, d : s = f.mod /\ d = f.cell
    OBVIOUS
  <2>2. c = [d EXCEPT !.type = s] /\ d \in Cell /\ s \in Name
    BY <1>1, <1>6, <2>1
  <2>3. Placed(n, d, s)
    BY <1>5, <1>6, <2>1
  <2> HIDE DEF f, o, k
  <2>4. Placed(n, c, s)
    BY <2>2, <2>3, RetypedPlaced
  <2>5. c.type = s
    BY <2>2 DEF Cell
  <2>6. Placed(n, c, c.type)'
    BY <1>1, <2>4, <2>5, PlacedKept
  <2> QED
    BY <2>6 DEF Settled
<1>7. ASSUME NEW n \in DOMAIN design, NEW c \in design[n].cells, ~(n = o /\ c = f.cell)
      PROVE  Settled(n, c)'
  <2>1. ASSUME Held(n, c)
        PROVE  Held(n, c)'
    <3>1. PICK i \in 1..Len(stack) : \/ n = stack[i].mod /\ c \in stack[i].cells
                                     \/ n = stack[i].owner /\ c = stack[i].cell
      BY <2>1 DEF Held
    <3>2. i # 1
      BY <1>4, <1>7, <3>1
    <3>3. i - 1 \in 1..Len(stack') /\ (i - 1) + 1 = i
      BY <1>1, <3>2
    <3>4. stack'[i - 1] = stack[i]
      BY <1>1, <3>3
    <3> QED
      BY <3>1, <3>3, <3>4 DEF Held
  <2> QED
    BY <1>1, <2>1, KeptSettled DEF Template
<1> HIDE DEF f, o, k
<1>8. \A n \in DOMAIN design' : \A c \in design'[n].cells : Settled(n, c)'
  BY <1>1, <1>6, <1>7
<1>9. \A n \in DOMAIN design' : n \in input'.bb => design'[n].bb
  BY <1>1, <1>2 DEF WorkersInv
<1>10. ASSUME NEW j \in 1..Len(stack')
       PROVE  FramePlaced(j)'
  <2>1. PICK i \in 1..Len(stack) : i = j + 1
    BY <1>1
  <2>2. UNCHANGED <<input, path>>
    BY <1>1
  <2>3. \A x \in DOMAIN design : design'[x].proper <=> design[x].proper
    BY <1>1, <1>3
  <2>4. stack'[j] = stack[i]
    BY <1>1, <2>1
  <2>5. FramePlaced(i)
    BY DEF WorkersInv
  <2> QED
    BY <2>2, <2>3, <2>4, <2>5, FramePlacedKept
<1>11. RanksOK'
  <2>1. ASSUME NEW i \in 1..Len(stack'), NEW j \in 1..Len(stack')
        PROVE  /\ i =< j => Rank(stack'[i].mod) < Rank(stack'[j].owner)
               /\ i < j => Rank(stack'[i].mod) < Rank(stack'[j].mod)
    <3>1. PICK a \in 1..Len(stack), b \in 1..Len(stack) : a = i + 1 /\ b = j + 1
      BY <1>1
    <3>2. stack'[i] = stack[a] /\ stack'[j] = stack[b]
      BY <1>1, <3>1
    <3>3. (i =< j => a =< b) /\ (i < j => a < b)
      BY <3>1
    <3>4. /\ a =< b => Rank(stack[a].mod) < Rank(stack[b].owner)
          /\ a < b => Rank(stack[a].mod) < Rank(stack[b].mod)
      BY DEF WorkersInv, RanksOK
    <3> QED
      BY <3>2, <3>3, <3>4
  <2> QED
    BY <2>1 DEF RanksOK, Rank, LevelOf
<1> QED
  BY <1>1, <1>8, <1>9, <1>10, <1>11 DEF WorkersInv

(* Nothing refers to the template when it is removed, and removals leave   *)
(* the other modules alone.                                                *)
LEMMA RemovalWorkers ==
    ASSUME HierarchyInv, WorkersInv, FinishFull \/ \E n \in toRemove : CleanupOne(n)
    PROVE  WorkersInv'
<1>1. /\ UNCHANGED <<input, stack>> /\ stack = <<>> /\ pc' # "full"
      /\ \A x \in DOMAIN design' : x \in DOMAIN design /\ design'[x] = design[x]
  BY FinishFullStep, CleanupOneStep
<1>2. ASSUME NEW n \in DOMAIN design, NEW c \in design[n].cells
      PROVE  ~(pc = "full" /\ c.type = Template(wrapper))
  <2> SUFFICES ASSUME pc = "full", c.type = Template(wrapper)
               PROVE  FALSE
    OBVIOUS
  <2>1. path = 4
    BY CleanupOneStep DEF FinishFull
  <2>2. \E i \in path..3 : c = Duplicate(Template(wrapper), i)
    BY FullFacts
  <2> QED
    BY <2>1, <2>2
<1>3. \A n \in DOMAIN design' : \A c \in design'[n].cells : Settled(n, c)'
  BY <1>1, <1>2, NothingHeld, KeptSettled
<1>4. RanksOK' /\ \A i \in 1..Len(stack') : FramePlaced(i)'
  BY <1>1 DEF RanksOK
<1>5. \A n \in DOMAIN design' : n \in input'.bb => design'[n].bb
  BY <1>1 DEF WorkersInv
<1> QED
  BY <1>1, <1>3, <1>4, <1>5 DEF WorkersInv

LEMMA NextWorkers ==
    ASSUME HierarchyInv, IdentityInv, PortsInv, RenamedByDefault, WorkersInv, [Next]_vars
    PROVE  WorkersInv'
<1>1. CASE Mark
  BY <1>1, MarkWorkers
<1>2. CASE Synthesize
  BY <1>2, SynthesizeWorkers
<1>3. CASE Plan \/ (\E m \in todo : SkipModule(m)) \/ StartCleanup \/ Finish \/ UNCHANGED vars
  BY <1>3, IdleWorkers
<1>4. CASE \E m \in todo : ExpandLogic(m)
  BY <1>4, ExpandLogicWorkers
<1>5. CASE \E m \in todo : StartFull(m)
  BY <1>5, StartFullWorkers
<1>6. CASE CloneWorker
  BY <1>6, CloneWorkerWorkers
<1>7. CASE VisitCell
  <2>1. PICK c \in stack[1].cells : LeaveCell(c) \/ ReuseClone(c) \/ CloneSubmodule(c)
    BY <1>7 DEF VisitCell
  <2> QED
    BY <1>7, <2>1, LeaveCellWorkers, ReuseCloneWorkers, CloneSubmoduleWorkers
<1>8. CASE Return
  BY <1>8, ReturnWorkers
<1>9. CASE FinishFull \/ \E n \in toRemove : CleanupOne(n)
  BY <1>9, RemovalWorkers
<1>10. CASE Terminated
  BY <1>3, <1>10 DEF Terminated
<1> QED
  BY <1>1, <1>2, <1>3, <1>4, <1>5, <1>6, <1>7, <1>8, <1>9, <1>10 DEF Next

-----------------------------------------------------------------------------
(* Instances of workers.                                                   *)

(* What LogicTMR makes of a cell is a primitive only if the cell was one.  *)
LEMMA ExpandLogicInstances ==
    ASSUME HierarchyInv, pc = "process", NEW m \in todo, NEW n, NEW cfg,
           NEW c \in design[m].cells, NEW k,
           k \in (IF IsLogicTree(WithTarget(m), c) THEN Triplicate(c, n, cfg)
                  ELSE {Resolve(WithTarget(m), c)})
    PROVE  k.inst = c.inst /\ (k.type \in Primitive => c.type \in Primitive)
<1> DEFINE w == WithTarget(m)
<1>1. c \in Cell
  BY TargetFacts, DesignNames DEF Module
<1>2. CASE IsLogicTree(w, c)
  <2>1. PICK i \in 1..3 : \E v : k = [c EXCEPT !.path = PathSuffix[i], !.voted = v]
    BY <1>2 DEF Triplicate
  <2> QED
    BY <1>1, <2>1 DEF Cell
<1>3. CASE ~IsLogicTree(w, c)
  <2>1. c.type \in DOMAIN w
    BY <1>3 DEF IsLogicTree, IsProper
  <2>2. /\ c.type \in Name /\ c.type # <<>> /\ c.type \notin Primitive
        /\ w[c.type].impl # NoName => w[c.type].impl = Append(c.type, ImplSuffix)
    BY <2>1, TargetCells, TargetFacts, DesignNames
  <2>3. Append(c.type, ImplSuffix) \notin Primitive
    BY <2>2, GeneratedName DEF Suffix
  <2>4. k = [c EXCEPT !.type = IF w[c.type].impl # NoName THEN w[c.type].impl ELSE c.type,
                      !.ports = w[IF w[c.type].impl # NoName THEN w[c.type].impl ELSE c.type].ports]
    BY <1>3 DEF Resolve
  <2> HIDE DEF w
  <2>5. /\ k.inst = c.inst
        /\ k.type = IF w[c.type].impl # NoName THEN w[c.type].impl ELSE c.type
    BY <1>1, <2>4 DEF Cell
  <2> QED
    BY <2>2, <2>3, <2>5
<1> QED
  BY <1>2, <1>3

LEMMA InitInstances == Init => WorkersAreModules
<1> SUFFICES ASSUME Init, NEW n \in UserName, NEW c \in design[n].cells
             PROVE  c.inst # "worker"
  BY DEF Init, WorkersAreModules
<1>1. design[n] = UserModule(n[1]) /\ n[1] \in User /\ InputType(input)
  BY UserNameFacts, InputsAssumption DEF Init
<1>2. PICK e \in input.cells[n[1]] : c = UserCell(e)
  BY <1>1, UserModuleFacts
<1>3. e \in Instance \X (UserName \cup {BuiltinFf})
  BY <1>1, <1>2 DEF InputType
<1>4. e[1] \in Instance /\ c.inst = e[1]
  BY <1>2, <1>3, UserCellFacts
<1> QED
  BY <1>4, UserAssumption

(* Cells come from cells, or get the name of a module for their type.      *)
LEMMA NextInstances ==
    ASSUME HierarchyInv, WorkersAreModules, [Next]_vars
    PROVE  WorkersAreModules'
<1>1. ASSUME \A n \in DOMAIN design' : \A c \in design'[n].cells :
               \/ c.type \notin Primitive
               \/ \E o \in DOMAIN design : c \in design[o].cells
      PROVE  WorkersAreModules'
  BY <1>1 DEF WorkersAreModules
<1>2. CASE Mark
  BY <1>1, <1>2, MarkStep
<1>3. CASE Synthesize
  <2>1. DOMAIN design' = DOMAIN design
    BY <1>3, SynthesizeStep
  <2>2. \A n \in DOMAIN design :
           design'[n].cells = IF input.mapped THEN {MapCell(c) : c \in design[n].cells}
                              ELSE design[n].cells
    BY <1>3, SynthesizeStep
  <2>3. ASSUME NEW n \in DOMAIN design, NEW c \in design'[n].cells, c.inst = "worker"
        PROVE  c.type \notin Primitive
    <3>1. CASE c \in design[n].cells
      BY <2>3, <3>1 DEF WorkersAreModules
    <3>2. CASE c \notin design[n].cells
      <4>1. PICK k \in design[n].cells : c = MapCell(k)
        BY <2>2, <2>3, <3>2
      <4>2. k.inst = "worker" /\ k.type = BuiltinFf
        BY <2>3, <3>2, <4>1, DesignNames, MapCellFacts DEF Module, MapCell
      <4> QED
        BY <4>2, PrimitiveFacts DEF WorkersAreModules
    <3> QED
      BY <3>1, <3>2
  <2> QED
    BY <2>1, <2>3 DEF WorkersAreModules
<1>4. CASE Plan \/ (\E m \in todo : SkipModule(m)) \/ StartCleanup \/ Finish
           \/ Terminated \/ UNCHANGED vars
  <2>1. UNCHANGED design
    BY <1>4 DEF Plan, SkipModule, StartCleanup, Finish, Terminated, vars
  <2> QED
    BY <2>1 DEF WorkersAreModules
<1>5. ASSUME NEW m \in todo, ExpandLogic(m)
      PROVE  WorkersAreModules'
  <2> DEFINE t == Target(m)
             w == WithTarget(m)
  <2>1. pc = "process" /\ DOMAIN design' = DOMAIN design \cup {t}
        /\ design'[t].cells = ExpandedCells(w, t, ConfigOf(m))
    BY <1>5, ExpandLogicStep
  <2>2. \A x \in DOMAIN design : x # t => design'[x].cells = design[x].cells
    BY <1>5, ExpandLogicOthers
  <2>3. m \in DOMAIN design /\ w[t].cells = design[m].cells
    BY <2>1, TargetFacts
  <2>4. ASSUME NEW k \in design'[t].cells, k.inst = "worker"
        PROVE  k.type \notin Primitive
    <3>1. PICK c \in design[m].cells :
             k \in (IF IsLogicTree(w, c) THEN Triplicate(c, t, ConfigOf(m))
                    ELSE {Resolve(w, c)})
      BY <2>1, <2>3, <2>4 DEF ExpandedCells
    <3>2. k.inst = c.inst /\ (k.type \in Primitive => c.type \in Primitive)
      BY <2>1, <3>1, ExpandLogicInstances
    <3> QED
      BY <2>3, <2>4, <3>2 DEF WorkersAreModules
  <2> HIDE DEF t, w
  <2> QED
    BY <2>1, <2>2, <2>4 DEF WorkersAreModules
<1>6. ASSUME NEW m \in todo, StartFull(m)
      PROVE  WorkersAreModules'
  <2> DEFINE t == Target(m)
             k == Template(t)
  <2>1. /\ pc = "process" /\ k \notin Primitive
        /\ DOMAIN design' = DOMAIN design \cup {t, k}
        /\ design'[t].cells = {Duplicate(k, i) : i \in 1..3}
        /\ design'[k].cells = design[m].cells
    BY <1>6, StartFullStep
  <2>2. \A x \in DOMAIN design : x # t => design'[x].cells = design[x].cells
    BY <1>6, StartFullOthers
  <2>3. m \in DOMAIN design
    BY <2>1, TargetFacts
  <2>4. \A c \in design'[t].cells : c.type = k
    BY <2>1 DEF Duplicate
  <2> HIDE DEF t, k
  <2> QED
    BY <1>1, <2>1, <2>2, <2>3, <2>4
<1>7. CASE CloneWorker
  <2>1. PICK s, o : s = WorkerName(path) /\ o = Template(wrapper)
    OBVIOUS
  <2>2. /\ o \in DOMAIN design
        /\ DOMAIN design' = DOMAIN design \cup {s} /\ design'[s].cells = design[o].cells
        /\ \A x \in DOMAIN design : x # s => design'[x] = design[x]
    BY <1>7, <2>1, CloneWorkerStep
  <2> QED
    BY <1>1, <2>2
<1>8. ASSUME VisitCell, NEW c \in stack[1].cells, LeaveCell(c)
      PROVE  WorkersAreModules'
  BY <1>8 DEF LeaveCell, WorkersAreModules
<1>9. ASSUME VisitCell, NEW c \in stack[1].cells, ReuseClone(c)
      PROVE  WorkersAreModules'
  <2>1. PICK s, o : s = UniqueName(c) /\ o = stack[1].mod
    OBVIOUS
  <2>2. /\ s \in DOMAIN design /\ o \in DOMAIN design /\ c \in Cell
        /\ DOMAIN design' = DOMAIN design
        /\ \A x \in DOMAIN design : x # o => design'[x] = design[x]
        /\ design'[o].cells = (design[o].cells \ {c}) \cup {[c EXCEPT !.type = s]}
    BY <1>9, <2>1, ReuseCloneStep
  <2>3. [c EXCEPT !.type = s].type = s /\ s \notin Primitive
    BY <2>2, DesignNames DEF Cell
  <2> QED
    BY <1>1, <2>2, <2>3
<1>10. ASSUME VisitCell, NEW c \in stack[1].cells, CloneSubmodule(c)
       PROVE  WorkersAreModules'
  <2>1. PICK s : s = UniqueName(c)
    OBVIOUS
  <2>2. /\ c.type \in DOMAIN design
        /\ DOMAIN design' = DOMAIN design \cup {s} /\ design'[s].cells = design[c.type].cells
        /\ \A x \in DOMAIN design : x # s => design'[x] = design[x]
    BY <1>10, <2>1, CloneSubmoduleStep
  <2> QED
    BY <1>1, <2>2
<1>11. CASE Return
  <2>1. PICK s, o, c : s = stack[1].mod /\ o = stack[1].owner /\ c = stack[1].cell
    OBVIOUS
  <2>2. /\ s \in DOMAIN design /\ o \in DOMAIN design /\ c \in Cell
        /\ DOMAIN design' = DOMAIN design
        /\ \A x \in DOMAIN design : x # o => design'[x] = design[x]
        /\ design'[o].cells = (design[o].cells \ {c}) \cup {[c EXCEPT !.type = s]}
    BY <1>11, <2>1, ReturnStep
  <2>3. [c EXCEPT !.type = s].type = s /\ s \notin Primitive
    BY <2>2, DesignNames DEF Cell
  <2> QED
    BY <1>1, <2>2, <2>3
<1>12. CASE FinishFull \/ \E n \in toRemove : CleanupOne(n)
  <2>1. \A x \in DOMAIN design' : x \in DOMAIN design /\ design'[x] = design[x]
    BY <1>12, FinishFullStep, CleanupOneStep
  <2> QED
    BY <1>1, <2>1
<1> QED
  BY <1>2, <1>3, <1>4, <1>5, <1>6, <1>7, <1>8, <1>9, <1>10, <1>11, <1>12 DEF Next, VisitCell

-----------------------------------------------------------------------------
(* What is below a worker.                                                 *)

Kept(n) == ConfiguredShared(n) \/ design[n].bb \/ ~design[n].proper

(* The equation by which `Private' collects modules.                       *)
Collects(f) ==
    f = [n \in DOMAIN design |->
            IF ConfiguredShared(n) \/ design[n].bb \/ ~design[n].proper THEN {}
            ELSE {n} \cup UNION {f[s] : s \in Submodules(n)}]

(* A set of modules that contains what they instantiate and do not share.  *)
Closed(S) ==
    \A n \in S : ~Kept(n) => \A s \in Submodules(n) : ~Kept(s) => s \in S

Closure(n) == {x \in DOMAIN design :
                 \A S \in SUBSET DOMAIN design : n \in S /\ Closed(S) => x \in S}

(* It has a solution: all that must be in a closed set with the module.    *)
LEMMA ClosureEquation ==
    ASSUME NEW n \in DOMAIN design, ~Kept(n)
    PROVE  Closure(n) =
             {n} \cup UNION {IF Kept(s) THEN {} ELSE Closure(s) : s \in Submodules(n)}
<1> DEFINE F(s) == IF Kept(s) THEN {} ELSE Closure(s)
           T == {n} \cup UNION {F(s) : s \in Submodules(n)}
<1>1. \A s \in Submodules(n) : s \in DOMAIN design
  BY DEF Submodules
<1>2. \A s \in DOMAIN design : s \in Closure(s)
  BY DEF Closure
<1>3. T \subseteq DOMAIN design
  BY DEF Closure
<1>4. Closed(T)
  <2> SUFFICES ASSUME NEW m \in T, ~Kept(m), NEW s \in Submodules(m), ~Kept(s)
               PROVE  s \in T
    BY DEF Closed
  <2>0. s \in DOMAIN design
    BY DEF Submodules
  <2>1. CASE m = n
    BY <1>2, <2>0, <2>1
  <2>2. CASE m # n
    <3>1. PICK r \in Submodules(n) : m \in F(r)
      BY <2>2
    <3>2. ~Kept(r) /\ m \in Closure(r)
      BY <3>1
    <3>3. s \in Closure(r)
      <4> SUFFICES ASSUME NEW S \in SUBSET DOMAIN design, r \in S, Closed(S)
                   PROVE  s \in S
        BY <2>0 DEF Closure
      <4>1. m \in S
        BY <3>2 DEF Closure
      <4> QED
        BY <4>1 DEF Closed
    <3> QED
      BY <3>2, <3>3
  <2> QED
    BY <2>1, <2>2
<1>5. Closure(n) \subseteq T
  BY <1>3, <1>4 DEF Closure
<1>6. ASSUME NEW s \in Submodules(n), ~Kept(s), NEW x \in Closure(s)
      PROVE  x \in Closure(n)
  <2> SUFFICES ASSUME NEW S \in SUBSET DOMAIN design, n \in S, Closed(S)
               PROVE  x \in S
    BY <1>6 DEF Closure
  <2>1. s \in S
    BY <1>6 DEF Closed
  <2> QED
    BY <1>6, <2>1 DEF Closure
<1>7. T \subseteq Closure(n)
  BY <1>2, <1>6
<1> QED
  BY <1>5, <1>7

LEMMA CollectionExists == \E f : Collects(f)
<1> DEFINE f == [n \in DOMAIN design |-> IF Kept(n) THEN {} ELSE Closure(n)]
<1>1. ASSUME NEW n \in DOMAIN design
      PROVE  f[n] = IF Kept(n) THEN {}
                    ELSE {n} \cup UNION {f[s] : s \in Submodules(n)}
  <2>1. \A s \in Submodules(n) : f[s] = IF Kept(s) THEN {} ELSE Closure(s)
    BY DEF Submodules
  <2>2. CASE Kept(n)
    BY <2>2
  <2>3. CASE ~Kept(n)
    <3>1. Closure(n) =
             {n} \cup UNION {IF Kept(s) THEN {} ELSE Closure(s) : s \in Submodules(n)}
      BY <2>3, ClosureEquation
    <3>2. UNION {IF Kept(s) THEN {} ELSE Closure(s) : s \in Submodules(n)}
            = UNION {f[s] : s \in Submodules(n)}
      BY <2>1
    <3>3. f[n] = Closure(n)
      BY <2>3
    <3> HIDE DEF f
    <3> QED
      BY <2>3, <3>1, <3>2, <3>3
  <2> QED
    BY <2>2, <2>3
<1>2. f = [n \in DOMAIN design |-> IF Kept(n) THEN {}
             ELSE {n} \cup UNION {f[s] : s \in Submodules(n)}]
  <2>1. f = [n \in DOMAIN design |-> f[n]]
    OBVIOUS
  <2> HIDE DEF f
  <2> QED
    BY <1>1, <2>1
<1> HIDE DEF f
<1> QED
  BY <1>2 DEF Collects, Kept

(* `Private' is made by a solution.                                        *)
LEMMA PrivateFacts ==
    ASSUME NEW w
    PROVE  \E f : Collects(f) /\ Private(w) = {w} \cup UNION {f[s] : s \in Submodules(w)}
<1> DEFINE f == CHOOSE g : g = [n \in DOMAIN design |->
              IF ConfiguredShared(n) \/ design[n].bb \/ ~design[n].proper THEN {}
              ELSE {n} \cup UNION {g[s] : s \in Submodules(n)}]
<1>1. \E g : g = [n \in DOMAIN design |->
              IF ConfiguredShared(n) \/ design[n].bb \/ ~design[n].proper THEN {}
              ELSE {n} \cup UNION {g[s] : s \in Submodules(n)}]
  BY CollectionExists DEF Collects
<1>2. f = [n \in DOMAIN design |->
              IF ConfiguredShared(n) \/ design[n].bb \/ ~design[n].proper THEN {}
              ELSE {n} \cup UNION {f[s] : s \in Submodules(n)}]
  BY <1>1, Zenon
<1>3. Private(w) = {w} \cup UNION {f[s] : s \in Submodules(w)}
  BY Zenon DEF Private
<1> HIDE DEF f
<1> QED
  BY <1>2, <1>3 DEF Collects

LEMMA FollowsSelf == ASSUME NEW n \in Name PROVE Follows(n, n)
<1>1. Len(n) \in Nat
  BY DEF Name
<1> QED
  BY <1>1 DEF Follows

LEMMA FollowsTransitive ==
    ASSUME NEW n \in Name, NEW s \in Name, NEW x, Follows(x, s), Follows(s, n)
    PROVE  Follows(x, n)
<1> SUFFICES ASSUME NEW j \in 0..Len(n) - 1,
                    \A i \in 0..j : n[Len(n) - i] \in PathSuffixes
             PROVE  j < Len(x) /\ x[Len(x) - j] = n[Len(n) - j]
  BY DEF Follows
<1>1. Len(n) \in Nat /\ Len(s) \in Nat
  BY DEF Name
<1>2. ASSUME NEW i \in 0..j
      PROVE  i < Len(s) /\ s[Len(s) - i] = n[Len(n) - i]
  <2>1. i \in 0..Len(n) - 1 /\ \A h \in 0..i : n[Len(n) - h] \in PathSuffixes
    BY <1>1
  <2> QED
    BY <2>1 DEF Follows
<1>3. \A i \in 0..j : s[Len(s) - i] \in PathSuffixes
  BY <1>2
<1>4. j \in 0..j /\ j \in 0..Len(s) - 1
  <2>1. j \in 0..j
    BY <1>1
  <2> QED
    BY <1>1, <1>2, <2>1
<1>5. j < Len(x) /\ x[Len(x) - j] = s[Len(s) - j]
  BY <1>3, <1>4 DEF Follows
<1> QED
  BY <1>2, <1>4, <1>5

(* A module that is in the design between the expansions of others.        *)
LEMMA BelowPlaced ==
    ASSUME HierarchyInv, WorkersInv, stack = <<>>, pc # "full",
           NEW n \in DOMAIN design, NEW s \in Submodules(n)
    PROVE  /\ s \in DOMAIN design
           /\ ~Kept(s) => Follows(s, n)
           /\ Rank(s) < Rank(n)
<1>1. PICK c \in design[n].cells : s = c.type /\ s \in DOMAIN design
  BY DEF Submodules
<1>2. c.type \notin Primitive
  BY <1>1, DesignNames
<1>3. Placed(n, c, s)
  BY <1>1, <1>2, NothingHeld DEF WorkersInv, Settled
<1>4. ~Kept(s) => Own(s)
  BY <1>1 DEF Kept, Own, WorkersInv
<1>5. Rank(s) < Rank(n)
  BY <1>1, <1>3, DesignNames, PlacedRank
<1> QED
  BY <1>1, <1>3, <1>4, <1>5 DEF Placed

(* What is collected below a module continues its path suffixes.           *)
LEMMA CollectedFollows ==
    ASSUME HierarchyInv, WorkersInv, stack = <<>>, pc # "full",
           NEW f, Collects(f)
    PROVE  \A n \in DOMAIN design : \A x \in f[n] : Follows(x, n)
<1> DEFINE bad == {n \in DOMAIN design : \E x \in f[n] : ~Follows(x, n)}
           T == {r \in Nat : \E n \in bad : r = Rank(n)}
<1> SUFFICES ASSUME bad # {} PROVE FALSE
  OBVIOUS
<1>1. \A n \in DOMAIN design : Rank(n) \in Nat /\ n \in Name
  BY DesignNames, RankFacts
<1>2. T \subseteq Nat /\ T # {}
  BY <1>1
<1>3. PICK r \in T : \A y \in T : ~(y < r)
  <2>1. IsWellFoundedOn(OpToRel(<, Nat), Nat)
    BY NatLessThanWellFounded
  <2>2. PICK r \in T : \A y \in T : ~(<<y, r>> \in OpToRel(<, Nat))
    BY <1>2, <2>1, WFMin
  <2>3. \A y \in T : ~(y < r)
    BY <1>2, <2>2 DEF OpToRel
  <2> QED
    BY <2>3
<1>4. PICK n \in bad : r = Rank(n)
  BY <1>3
<1>5. PICK x \in f[n] : ~Follows(x, n)
  BY <1>4
<1>6. f[n] = IF Kept(n) THEN {} ELSE {n} \cup UNION {f[s] : s \in Submodules(n)}
  BY <1>4 DEF Collects, Kept
<1>7. PICK s \in Submodules(n) : x \in f[s]
  BY <1>1, <1>4, <1>5, <1>6, FollowsSelf
<1>8. s \in DOMAIN design /\ (~Kept(s) => Follows(s, n)) /\ Rank(s) < Rank(n)
  BY <1>4, BelowPlaced
<1>9. ~Kept(s)
  BY <1>7, <1>8 DEF Collects, Kept
<1>10. s \notin bad
  <2>1. Rank(s) \notin T
    BY <1>3, <1>4, <1>8
  <2> QED
    BY <1>1, <1>8, <2>1
<1>11. Follows(x, s)
  BY <1>7, <1>8, <1>10
<1> QED
  BY <1>1, <1>4, <1>5, <1>8, <1>9, <1>11, FollowsTransitive

LEMMA PrivateFollows ==
    ASSUME HierarchyInv, WorkersInv, stack = <<>>, pc # "full",
           NEW w \in DOMAIN design, NEW x \in Private(w)
    PROVE  Follows(x, w)
<1>1. PICK f : Collects(f) /\ Private(w) = {w} \cup UNION {f[s] : s \in Submodules(w)}
  BY PrivateFacts
<1>2. w \in Name
  BY DesignNames
<1>3. CASE x = w
  BY <1>2, <1>3, FollowsSelf
<1>4. ASSUME NEW s \in Submodules(w), x \in f[s]
      PROVE  Follows(x, w)
  <2>1. s \in DOMAIN design /\ (~Kept(s) => Follows(s, w))
    BY BelowPlaced
  <2>2. ~Kept(s)
    BY <1>1, <1>4, <2>1 DEF Collects, Kept
  <2>3. Follows(x, s)
    BY <1>1, <1>4, <2>1, CollectedFollows
  <2>4. s \in Name
    BY <2>1, DesignNames
  <2> QED
    BY <1>2, <2>1, <2>2, <2>3, <2>4, FollowsTransitive
<1> QED
  BY <1>1, <1>3, <1>4

(* What continues a worker has the worker's path at a place of its own.    *)
LEMMA WorkerPath ==
    ASSUME NEW n \in Name, n # <<>>, NEW s \in Name, NEW i \in 1..3,
           WrapperName(n), WorkerOf(s, n, i), NEW x, Follows(x, s)
    PROVE  x[Len(x) - (Len(n) - Stem(n))] = PathSuffix[i]
<1> DEFINE st == Stem(n)
           j == Len(n) - st
<1>1. Len(n) \in Nat /\ Len(n) # 0
  BY DEF Name
<1>2. st \in 1..Len(n)
  <2>1. st = 1 \/ (st = 2 /\ Len(n) > 1)
    BY DEF Stem
  <2> QED
    BY <1>1, <2>1
<1>3. /\ Len(s) = Len(n) + 2 /\ s[st + 2] = PathSuffix[i]
      /\ \A k \in 1..Len(n) : s[IF k =< st THEN k ELSE k + 2] = n[k]
      /\ \A k \in st + 1..Len(n) : n[k] \in PathSuffixes
  BY DEF WorkerOf, WrapperName
<1> HIDE DEF st
<1>4. j \in 0..Len(s) - 1 /\ Len(s) - j = st + 2
  BY <1>1, <1>2, <1>3
<1>5. ASSUME NEW h \in 0..j
      PROVE  s[Len(s) - h] \in PathSuffixes
  <2>1. CASE h = j
    BY <1>3, <1>4, <2>1, SuffixFacts DEF PathSuffixes
  <2>2. CASE h < j
    <3>1. PICK k \in st + 1..Len(n) : Len(s) - h = k + 2
      <4>1. Len(n) - h \in st + 1..Len(n) /\ Len(s) - h = (Len(n) - h) + 2
        BY <1>1, <1>2, <1>3, <1>5, <2>2
      <4> QED
        BY <4>1
    <3>2. k \in 1..Len(n) /\ ~(k =< st)
      BY <1>1, <1>2
    <3>3. s[k + 2] = n[k]
      BY <1>3, <3>2
    <3> QED
      BY <1>3, <3>1, <3>3
  <2>3. h = j \/ h < j
    BY <1>4, <1>5
  <2> QED
    BY <2>1, <2>2, <2>3
<1>6. x[Len(x) - j] = s[Len(s) - j]
  BY <1>4, <1>5 DEF Follows
<1> QED
  BY <1>3, <1>4, <1>6 DEF st

(* The path tells the workers of a wrapper apart.                          *)
LEMMA SameWorker ==
    ASSUME NEW n \in Name, n # <<>>, NEW s \in Name, NEW r \in Name, NEW i \in 1..3,
           WorkerOf(s, n, i), WorkerOf(r, n, i)
    PROVE  s = r
<1> DEFINE st == Stem(n)
<1>1. Len(n) \in Nat /\ Len(n) # 0
  BY DEF Name
<1>2. st \in 1..Len(n)
  <2>1. st = 1 \/ (st = 2 /\ Len(n) > 1)
    BY DEF Stem
  <2> QED
    BY <1>1, <2>1
<1>3. /\ Len(s) = Len(n) + 2 /\ s[st + 1] = WorkerSuffix /\ s[st + 2] = PathSuffix[i]
      /\ Len(r) = Len(n) + 2 /\ r[st + 1] = WorkerSuffix /\ r[st + 2] = PathSuffix[i]
      /\ \A k \in 1..Len(n) : /\ s[IF k =< st THEN k ELSE k + 2] = n[k]
                              /\ r[IF k =< st THEN k ELSE k + 2] = n[k]
  BY DEF WorkerOf
<1> HIDE DEF st
<1>4. ASSUME NEW k \in 1..Len(s)
      PROVE  s[k] = r[k]
  <2>1. CASE k =< st
    <3>1. k \in 1..Len(n)
      BY <1>1, <1>2, <2>1
    <3> QED
      BY <1>3, <2>1, <3>1
  <2>2. CASE k > st + 2
    <3>1. PICK h \in 1..Len(n) : k = h + 2 /\ ~(h =< st)
      <4>1. k - 2 \in 1..Len(n) /\ k = (k - 2) + 2 /\ ~(k - 2 =< st)
        BY <1>1, <1>2, <1>3, <2>2
      <4> QED
        BY <4>1
    <3> QED
      BY <1>3, <3>1
  <2>3. k =< st \/ k > st + 2 \/ k = st + 1 \/ k = st + 2
    BY <1>2
  <2> QED
    BY <1>3, <2>1, <2>2, <2>3
<1>5. s \in Seq(Token) /\ r \in Seq(Token)
  BY DEF Name
<1> QED
  BY <1>3, <1>4, <1>5, SeqEqual

LEMMA IndependentFromInv ==
    ASSUME HierarchyInv, WorkersInv, WorkersAreModules
    PROVE  WorkersIndependent
<1> SUFFICES ASSUME pc \in {"process", "done"}, NEW n \in DOMAIN design,
                    NEW c \in design[n].cells, NEW k \in design[n].cells,
                    c.inst = "worker", k.inst = "worker", c # k,
                    NEW x \in Private(c.type) \cap Private(k.type)
             PROVE  FALSE
  BY DEF WorkersIndependent
<1>1. stack = <<>> /\ pc # "full"
  BY DEF HierarchyInv, StackOK
<1>2. n \in Name /\ n # <<>>
  BY DesignNames
<1>3. ASSUME NEW d \in design[n].cells, d.inst = "worker"
      PROVE  /\ d.type \in DOMAIN design /\ d.type \in Name /\ WrapperName(n)
             /\ \E i \in 1..3 : d = Duplicate(d.type, i) /\ WorkerOf(d.type, n, i)
  <2>1. d.type \notin Primitive
    BY <1>3 DEF WorkersAreModules
  <2>2. d.type \in DOMAIN design
    BY <2>1, OldType
  <2>3. Placed(n, d, d.type)
    BY <1>1, <2>1, NothingHeld DEF WorkersInv, Settled
  <2>4. d.type \in Name
    BY <2>2, DesignNames
  <2> QED
    BY <1>3, <2>2, <2>3, <2>4 DEF Placed
<1>4. PICK i \in 1..3 : c = Duplicate(c.type, i) /\ WorkerOf(c.type, n, i)
  BY <1>3
<1>5. PICK j \in 1..3 : k = Duplicate(k.type, j) /\ WorkerOf(k.type, n, j)
  BY <1>3
<1>6. i # j
  <2> SUFFICES ASSUME i = j PROVE FALSE
    OBVIOUS
  <2>1. c.type = k.type
    BY <1>2, <1>3, <1>4, <1>5, SameWorker
  <2> QED
    BY <1>4, <1>5, <2>1
<1>7. Follows(x, c.type) /\ Follows(x, k.type)
  BY <1>1, <1>3, PrivateFollows
<1>8. x[Len(x) - (Len(n) - Stem(n))] = PathSuffix[i]
  BY <1>2, <1>3, <1>4, <1>7, WorkerPath
<1>9. x[Len(x) - (Len(n) - Stem(n))] = PathSuffix[j]
  BY <1>2, <1>3, <1>5, <1>7, WorkerPath
<1> QED
  BY <1>6, <1>8, <1>9, PathsDiffer

(* The three workers of a wrapper share no module at any depth, except     *)
(* those whose configuration says so, if every module with instances has   *)
(* one in a module selected for tmrx_mark and the global configuration,    *)
(* which generated modules have, does not exempt modules from renaming.    *)
THEOREM WorkersIndependentHolds == Spec => [](InstancesSelected => WorkersIndependentByDefault)
<1> DEFINE Ports == InstancesSelected => PortsInv
           Workers == (InstancesSelected /\ RenamedByDefault) => WorkersInv
           IInv == Ports /\ Workers /\ WorkersAreModules
<1>1. Init => IInv
  BY InitPorts, InitWorkers, InitInstances
<1>2. HierarchyInv /\ HierarchyInv' /\ IdentityInv /\ IInv /\ [Next]_vars => IInv'
  <2> SUFFICES ASSUME HierarchyInv, HierarchyInv', IdentityInv, IInv, [Next]_vars
               PROVE  IInv'
    OBVIOUS
  <2>1. (InstancesSelected' => InstancesSelected) /\ (RenamedByDefault' => RenamedByDefault)
    BY InputKept DEF InstancesSelected, RenamedByDefault
  <2>2. InstancesSelected' => PortsInv'
    BY <2>1, NextPorts
  <2>3. (InstancesSelected' /\ RenamedByDefault') => WorkersInv'
    BY <2>1, NextWorkers
  <2>4. WorkersAreModules'
    BY NextInstances
  <2> QED
    BY <2>2, <2>3, <2>4
<1>3. HierarchyInv /\ IInv => (InstancesSelected => WorkersIndependentByDefault)
  BY IndependentFromInv DEF WorkersIndependentByDefault, RenamedByDefault
<1> HIDE DEF IInv
<1> QED
  BY <1>1, <1>2, <1>3, IdentityInvariant, PTL DEF Spec
===============================================================================
