------------------------ MODULE TmrxPassIdentityProofs -----------------------
(***************************************************************************)
(* What the steps of the two passes do to every field of every module: the *)
(* lemmas from which the further invariants are proved.  The first are     *)
(* about identity: no name is given twice, blackboxes stay as they are,    *)
(* and so do originals and modules in mode None.  IdentityInv is inductive,*)
(* and a step from a state in which it holds does what KeepsBlackboxes and *)
(* KeepsOriginals say.                                                     *)
(***************************************************************************)
EXTENDS TmrxPassProofs, WellFoundedInduction

-----------------------------------------------------------------------------
(* Names.                                                                  *)

(* Two names that continue others are only equal when these are, and so    *)
(* are the tokens.                                                         *)
LEMMA SameClone ==
    ASSUME NEW n \in Name, NEW k \in Name, NEW s \in Token, NEW u \in Token,
           Append(n, s) = Append(k, u)
    PROVE  n = k /\ s = u
<1>1. n \in Seq(Token) /\ k \in Seq(Token)
  BY DEF Name
<1> QED
  BY <1>1, AppendInjective

(* The module that a clone is named after.                                 *)
LEMMA ClonedFromAppend ==
    ASSUME NEW n \in Name, NEW s \in Token
    PROVE  ClonedFrom(Append(n, s)) = n
<1>1. n \in Seq(Token)
  BY DEF Name
<1>2. Len(n) \in Nat /\ Len(Append(n, s)) = Len(n) + 1
  BY <1>1
<1>3. SubSeq(Append(n, s), 1, Len(n)) = n
  BY <1>1
<1>4. Len(Append(n, s)) - 1 = Len(n)
  BY <1>2
<1> QED
  BY <1>3, <1>4 DEF ClonedFrom

(* The second token of a name never changes, nor does the first.           *)
LEMMA SecondToken ==
    ASSUME NEW n \in Name, n # <<>>, NEW s \in Token
    PROVE  /\ Len(n) = 1 \/ Len(n) > 1
           /\ Len(Append(n, s)) > 1
           /\ Base(Append(n, s)) = Base(n)
           /\ Len(n) = 1 => Append(n, s)[2] = s
           /\ Len(n) > 1 => Append(n, s)[2] = n[2]
<1>1. n \in Seq(Token) /\ Len(n) \in Nat /\ Len(n) # 0
  BY DEF Name
<1>2. /\ Len(Append(n, s)) = Len(n) + 1
      /\ \A i \in 1..Len(n) : Append(n, s)[i] = n[i]
      /\ Append(n, s)[Len(n) + 1] = s
  BY <1>1, AppendProperties
<1>3. Append(n, s)[1] = n[1]
  BY <1>1, <1>2
<1>4. Len(n) > 1 => Append(n, s)[2] = n[2]
  BY <1>1, <1>2
<1>5. Len(n) = 1 => Append(n, s)[2] = s
  BY <1>1, <1>2
<1>6. Base(Append(n, s)) = Base(n)
  BY <1>3 DEF Base
<1>7. \A k \in Nat : k # 0 => (k = 1 \/ k > 1) /\ k + 1 > 1
  OBVIOUS
<1>8. (Len(n) = 1 \/ Len(n) > 1) /\ Len(Append(n, s)) > 1
  BY <1>1, <1>2, <1>7
<1> QED
  BY <1>4, <1>5, <1>6, <1>8

(* The path suffixes are different from each other.                        *)
LEMMA PathsDiffer == \A i, j \in 1..3 : PathSuffix[i] = PathSuffix[j] => i = j
<1>1. PathSuffix[1] = "_a" /\ PathSuffix[2] = "_b" /\ PathSuffix[3] = "_c"
  BY DEF PathSuffix
<1>2. \A i \in 1..3 : i = 1 \/ i = 2 \/ i = 3
  OBVIOUS
<1> QED
  BY <1>1, <1>2

(* The base of a module of the user is its own name.                       *)
LEMMA BaseOfUser == ASSUME NEW n \in UserName PROVE Base(n) = n
BY DEF UserName, Base

-----------------------------------------------------------------------------
(* Texts.                                                                  *)

(* A set of numbers has a least one.                                       *)
LEMMA LeastNumber ==
    ASSUME NEW T, T \subseteq Nat, T # {}
    PROVE  \E r \in T : \A y \in T : ~(y < r)
<1>1. IsWellFoundedOn(OpToRel(<, Nat), Nat)
  BY NatLessThanWellFounded
<1>2. PICK r \in T : \A y \in T : ~(<<y, r>> \in OpToRel(<, Nat))
  BY <1>1, WFMin
<1>3. \A y \in T : ~(y < r)
  BY <1>2 DEF OpToRel
<1> QED
  BY <1>3

(* Reading a sequence backwards.                                           *)
LEMMA ReverseFacts ==
    ASSUME NEW S, NEW s \in Seq(S)
    PROVE  /\ Reverse(s) \in Seq(S) /\ Len(Reverse(s)) = Len(s)
           /\ \A i \in 1..Len(s) : Reverse(s)[i] = s[Len(s) - i + 1]
<1>1. Len(s) \in Nat
  OBVIOUS
<1>2. \A i \in 1..Len(s) : (Len(s) - i) + 1 \in 1..Len(s)
  BY <1>1
<1>3. \A i \in 1..Len(s) : s[(Len(s) - i) + 1] \in S
  BY <1>2
<1>4. Reverse(s) = [i \in 1..Len(s) |-> s[(Len(s) - i) + 1]]
  BY DEF Reverse
<1> QED
  BY <1>1, <1>3, <1>4, IsASeq

(* A sequence that agrees with the end of another one is a suffix of it.   *)
LEMMA EndsIn ==
    ASSUME NEW S, NEW a \in Seq(S), NEW b \in Seq(S), Len(a) =< Len(b),
           \A i \in 1..Len(a) : a[Len(a) - i + 1] = b[Len(b) - i + 1]
    PROVE  IsSuffix(a, b)
<1> DEFINE r == Reverse(a)
           q == Reverse(b)
<1>1. /\ r \in Seq(S) /\ Len(r) = Len(a)
      /\ \A i \in 1..Len(a) : r[i] = a[Len(a) - i + 1]
  BY ReverseFacts
<1>2. /\ q \in Seq(S) /\ Len(q) = Len(b)
      /\ \A i \in 1..Len(b) : q[i] = b[Len(b) - i + 1]
  BY ReverseFacts
<1>3. Len(a) \in Nat /\ Len(b) \in Nat
  OBVIOUS
<1> HIDE DEF r, q
<1>4. \A i \in 1..Len(a) : r[i] = q[i]
  <2>1. \A i \in 1..Len(a) : i \in 1..Len(b)
    BY <1>3
  <2> QED
    BY <1>1, <1>2, <2>1
<1>5. IsPrefix(r, q)
  BY <1>1, <1>2, <1>3, <1>4 DEF IsPrefix
<1> QED
  BY <1>5 DEF IsSuffix, r, q

(* A concatenation begins with its first part.                             *)
LEMMA BeginsWith ==
    ASSUME NEW S, NEW a \in Seq(S), NEW r \in Seq(S)
    PROVE  IsPrefix(a, a \o r)
BY DEF IsPrefix

(* What a concatenation holds after its first part.                       *)
LEMMA EndOfConcat ==
    ASSUME NEW S, NEW x \in Seq(S), NEW a \in Seq(S), NEW i \in 1..Len(a)
    PROVE  (x \o a)[Len(x) + i] = a[i]
<1>1. Len(x) \in Nat /\ Len(a) \in Nat
  OBVIOUS
<1>2. Len(x) + i \in 1..Len(x) + Len(a) /\ ~(Len(x) + i =< Len(x)) /\ (Len(x) + i) - Len(x) = i
  BY <1>1
<1>3. (x \o a)[Len(x) + i] = IF Len(x) + i =< Len(x) THEN x[Len(x) + i]
                             ELSE a[(Len(x) + i) - Len(x)]
  BY <1>2, ConcatProperties
<1> QED
  BY <1>2, <1>3

(* Of two ends of the same sequence one ends in the other.                 *)
LEMMA CommonEnd ==
    ASSUME NEW S, NEW x \in Seq(S), NEW a \in Seq(S), NEW y \in Seq(S), NEW b \in Seq(S),
           x \o a = y \o b
    PROVE  IsSuffix(a, b) \/ IsSuffix(b, a)
<1>1. /\ Len(x) \in Nat /\ Len(a) \in Nat /\ Len(y) \in Nat /\ Len(b) \in Nat
      /\ Len(x) + Len(a) = Len(y) + Len(b)
  <2>1. Len(x \o a) = Len(x) + Len(a) /\ Len(y \o b) = Len(y) + Len(b)
    OBVIOUS
  <2> QED
    BY <2>1
<1>2. /\ \A i \in 1..Len(a) : (x \o a)[Len(x) + i] = a[i]
      /\ \A i \in 1..Len(b) : (y \o b)[Len(y) + i] = b[i]
  BY EndOfConcat
<1>3. ASSUME NEW i \in 1..Len(a), i =< Len(b)
      PROVE  a[Len(a) - i + 1] = b[Len(b) - i + 1]
  <2>1. PICK p \in Nat, q \in Nat, k \in Nat, l \in Nat :
           p = Len(x) /\ q = Len(y) /\ k = Len(a) /\ l = Len(b)
    BY <1>1
  <2>2. i \in 1..k /\ i =< l /\ p + k = q + l
    BY <1>1, <1>3, <2>1
  <2>3. k - i + 1 \in 1..k /\ l - i + 1 \in 1..l /\ p + (k - i + 1) = q + (l - i + 1)
    BY <2>2
  <2>4. /\ Len(a) - i + 1 \in 1..Len(a) /\ Len(b) - i + 1 \in 1..Len(b)
        /\ Len(x) + (Len(a) - i + 1) = Len(y) + (Len(b) - i + 1)
    BY <2>1, <2>3
  <2>5. (x \o a)[Len(x) + (Len(a) - i + 1)] = (y \o b)[Len(y) + (Len(b) - i + 1)]
    BY <2>4
  <2> QED
    BY <1>2, <2>4, <2>5
<1>4. CASE Len(a) =< Len(b)
  <2>1. \A i \in 1..Len(a) : a[Len(a) - i + 1] = b[Len(b) - i + 1]
    BY <1>1, <1>3, <1>4
  <2> QED
    BY <1>4, <2>1, EndsIn
<1>5. CASE Len(b) =< Len(a)
  <2>1. \A i \in 1..Len(b) : b[Len(b) - i + 1] = a[Len(a) - i + 1]
    BY <1>1, <1>3, <1>5
  <2> QED
    BY <1>5, <2>1, EndsIn
<1> QED
  BY <1>1, <1>4, <1>5

(* A concatenation ends in its second part.                                *)
LEMMA EndOf ==
    ASSUME NEW S, NEW x \in Seq(S), NEW a \in Seq(S)
    PROVE  IsSuffix(a, x \o a)
<1>1. Len(x) \in Nat /\ Len(a) \in Nat /\ x \o a \in Seq(S) /\ Len(x \o a) = Len(x) + Len(a)
  OBVIOUS
<1>2. ASSUME NEW i \in 1..Len(a)
      PROVE  a[Len(a) - i + 1] = (x \o a)[Len(x \o a) - i + 1]
  <2>1. Len(a) - i + 1 \in 1..Len(a) /\ Len(x \o a) - i + 1 = Len(x) + (Len(a) - i + 1)
    BY <1>1, <1>2
  <2> QED
    BY <2>1, EndOfConcat
<1>3. Len(a) =< Len(x \o a)
  BY <1>1
<1> QED
  BY <1>1, <1>2, <1>3, EndsIn

(* Concatenation is associative.                                           *)
LEMMA Regroup == \A x, y, z \in Seq(Letter) : (x \o y) \o z = x \o (y \o z)
BY ConcatAssociative

(* The same end can be taken off.                                          *)
LEMMA SameBeginning ==
    ASSUME NEW S, NEW x \in Seq(S), NEW y \in Seq(S), NEW a \in Seq(S), x \o a = y \o a
    PROVE  x = y
BY ConcatSimplifications

(* What FlattenSeq returns: the last of the sequences that one gets by     *)
(* appending one member after the other.                                   *)
Sums(s, m, t) ==
    \A i \in 1..m : t[i] = IF i = 1 THEN s[i] ELSE t[i - 1] \o s[i]

LEMMA SumsExist ==
    ASSUME NEW S, NEW s \in Seq(Seq(S)), NEW m \in Nat, m =< Len(s)
    PROVE  \E t \in [1..m -> Seq(S)] : Sums(s, m, t)
<1> DEFINE T == {k \in Nat : k =< Len(s) /\ ~\E t \in [1..k -> Seq(S)] : Sums(s, k, t)}
<1> SUFFICES ASSUME m \in T PROVE FALSE
  OBVIOUS
<1>1. PICK k \in T : \A y \in T : ~(y < k)
  <2>1. T \subseteq Nat /\ T # {}
    OBVIOUS
  <2> HIDE DEF T
  <2> QED
    BY <2>1, LeastNumber
<1>2. k \in Nat /\ k =< Len(s) /\ ~\E t \in [1..k -> Seq(S)] : Sums(s, k, t)
  OBVIOUS
<1>3. k # 0
  <2> SUFFICES ASSUME k = 0 PROVE FALSE
    OBVIOUS
  <2>1. [i \in {} |-> s] \in [1..k -> Seq(S)] /\ Sums(s, k, [i \in {} |-> s])
    BY DEF Sums
  <2> QED
    BY <1>2, <2>1
<1>4. k - 1 \in Nat /\ k - 1 < k /\ k - 1 =< Len(s) /\ Len(s) \in Nat
  BY <1>2, <1>3
<1>5. PICK t \in [1..k - 1 -> Seq(S)] : Sums(s, k - 1, t)
  <2>1. k - 1 \notin T
    BY <1>1, <1>4
  <2> QED
    BY <1>4, <2>1
<1>6. \A i \in 1..k : s[i] \in Seq(S)
  BY <1>2, <1>4
<1> DEFINE last == IF k = 1 THEN s[k] ELSE t[k - 1] \o s[k]
           u == [i \in 1..k |-> IF i < k THEN t[i] ELSE last]
<1>7. last \in Seq(S)
  BY <1>2, <1>3, <1>6
<1>8. u \in [1..k -> Seq(S)] /\ u[k] = last /\ \A i \in 1..k : i < k => u[i] = t[i]
  BY <1>2, <1>3, <1>7
<1>9. ASSUME NEW i \in 1..k
      PROVE  u[i] = IF i = 1 THEN s[i] ELSE u[i - 1] \o s[i]
  <2>1. i < k => i \in 1..k - 1
    BY <1>2, <1>9
  <2>2. i # 1 => i - 1 \in 1..k - 1 /\ i - 1 \in 1..k /\ i - 1 < k
    BY <1>2, <1>9
  <2>3. CASE i < k
    BY <1>5, <1>8, <2>1, <2>2, <2>3 DEF Sums
  <2>4. CASE i = k
    BY <1>8, <2>2, <2>4
  <2> QED
    BY <1>2, <1>9, <2>3, <2>4
<1> HIDE DEF u
<1>10. Sums(s, k, u)
  BY <1>9 DEF Sums
<1> QED
  BY <1>2, <1>8, <1>10

LEMMA FlattenFacts ==
    ASSUME NEW S, NEW s \in Seq(Seq(S)), Len(s) # 0
    PROVE  \E t \in [1..Len(s) -> Seq(S)] : Sums(s, Len(s), t) /\ FlattenSeq(s) = t[Len(s)]
<1> DEFINE E == CHOOSE t : t = [i \in 1..Len(s) |-> IF i = 1 THEN s[i] ELSE t[i - 1] \o s[i]]
<1>1. FlattenSeq(s) = E[Len(s)]
  BY Zenon DEF FlattenSeq
<1>2. Len(s) \in Nat /\ Len(s) =< Len(s)
  OBVIOUS
<1>3. PICK t \in [1..Len(s) -> Seq(S)] : Sums(s, Len(s), t)
  BY <1>2, SumsExist
<1>4. t = [i \in 1..Len(s) |-> IF i = 1 THEN s[i] ELSE t[i - 1] \o s[i]]
  BY <1>3 DEF Sums
<1>5. E = [i \in 1..Len(s) |-> IF i = 1 THEN s[i] ELSE E[i - 1] \o s[i]]
  BY <1>4, Zenon
<1> HIDE DEF E
<1>6. \A i \in 1..Len(s) : E[i] = t[i]
  <2> DEFINE T == {i \in 1..Len(s) : E[i] # t[i]}
  <2> SUFFICES ASSUME T # {} PROVE FALSE
    OBVIOUS
  <2>1. PICK i \in T : \A y \in T : ~(y < i)
    <3>1. T \subseteq Nat
      OBVIOUS
    <3> HIDE DEF T
    <3> QED
      BY <3>1, LeastNumber
  <2>2. i \in 1..Len(s) /\ E[i] # t[i]
    OBVIOUS
  <2>3. i # 1 => i - 1 \in 1..Len(s) /\ i - 1 < i
    BY <1>2, <2>2
  <2>4. i # 1 => E[i - 1] = t[i - 1]
    BY <2>1, <2>3
  <2>5. E[i] = IF i = 1 THEN s[i] ELSE E[i - 1] \o s[i]
    BY <1>5, <2>2
  <2>6. t[i] = IF i = 1 THEN s[i] ELSE t[i - 1] \o s[i]
    BY <1>3, <2>2 DEF Sums
  <2> QED
    BY <2>2, <2>4, <2>5, <2>6
<1>7. Len(s) \in 1..Len(s)
  BY <1>2
<1> QED
  BY <1>1, <1>3, <1>6, <1>7

(* The text of a name, step by step.                                       *)
Spells(sp, n, t) ==
    /\ t \in [1..Len(n) -> Seq(Letter)]
    /\ t[1] = sp[n[1]]
    /\ \A i \in 2..Len(n) : t[i] = t[i - 1] \o sp[n[i]]

LEMMA TextFacts ==
    ASSUME NEW sp \in Spellings, NEW n \in Name, Generated(n)
    PROVE  /\ Len(n) \in Nat /\ Len(n) # 0
           /\ \A i \in 1..Len(n) : sp[n[i]] \in Seq(Letter)
           /\ \E t : Spells(sp, n, t) /\ Text(sp, n) = t[Len(n)]
<1>1. n \in Seq(Token) /\ Len(n) \in Nat /\ Len(n) # 0
  BY DEF Generated, Name
<1>2. \A i \in 1..Len(n) : n[i] \in User \cup Suffix
  <2>1. \A i \in 1..Len(n) : i = 1 \/ i \in 2..Len(n)
    BY <1>1
  <2> QED
    BY <2>1 DEF Generated
<1>3. \A i \in 1..Len(n) : sp[n[i]] \in Seq(Letter)
  BY <1>2, SpellingAssumption
<1> DEFINE s == [k \in 1..Len(n) |-> sp[n[k]]]
<1>4. s \in Seq(Seq(Letter)) /\ Len(s) = Len(n) /\ \A i \in 1..Len(n) : s[i] = sp[n[i]]
  BY <1>1, <1>3, IsASeq
<1>5. Text(sp, n) = FlattenSeq(s)
  BY DEF Text
<1> HIDE DEF s
<1>6. PICK t \in [1..Len(s) -> Seq(Letter)] : Sums(s, Len(s), t) /\ FlattenSeq(s) = t[Len(s)]
  BY <1>1, <1>4, FlattenFacts
<1>7. 1 \in 1..Len(n) /\ \A i \in 2..Len(n) : i \in 1..Len(n) /\ i # 1
  BY <1>1
<1>8. t[1] = sp[n[1]]
  BY <1>4, <1>6, <1>7 DEF Sums
<1>9. \A i \in 2..Len(n) : t[i] = t[i - 1] \o sp[n[i]]
  BY <1>4, <1>6, <1>7 DEF Sums
<1>10. Spells(sp, n, t)
  BY <1>4, <1>6, <1>8, <1>9 DEF Spells
<1> QED
  BY <1>1, <1>3, <1>4, <1>5, <1>6, <1>10

(* A suffix that is no suffix of the other ones has at least a letter.     *)
LEMMA SuffixLetters ==
    ASSUME NEW sp \in DecodableSpellings, NEW s \in Suffix
    PROVE  sp[s] \in Seq(Letter) /\ Len(sp[s]) \in Nat /\ Len(sp[s]) # 0
<1>1. sp \in Spellings /\ Decodable(sp)
  BY DEF DecodableSpellings
<1>2. PICK u \in Suffix : u # s
  BY SuffixFacts
<1>3. sp[s] \in Seq(Letter) /\ sp[u] \in Seq(Letter)
  BY <1>1, SpellingAssumption
<1>4. Len(sp[s]) \in Nat /\ Len(sp[u]) \in Nat
  BY <1>3
<1>5. ~IsSuffix(sp[s], sp[u])
  BY <1>1, <1>2 DEF Decodable
<1>6. Len(sp[s]) # 0
  <2> SUFFICES ASSUME Len(sp[s]) = 0 PROVE FALSE
    OBVIOUS
  <2>1. Len(sp[s]) =< Len(sp[u]) /\ 1..Len(sp[s]) = {}
    BY <1>4
  <2>2. \A i \in 1..Len(sp[s]) : sp[s][Len(sp[s]) - i + 1] = sp[u][Len(sp[u]) - i + 1]
    BY <2>1
  <2>3. IsSuffix(sp[s], sp[u])
    BY <1>3, <2>1, <2>2, EndsIn
  <2> QED
    BY <1>5, <2>3
<1> QED
  BY <1>3, <1>4, <1>6

(* A text starts with the user's name and gets longer with every suffix.   *)
Continues(x, a, i) == \E r \in Seq(Letter) : x = a \o r /\ (i # 1 => Len(r) # 0)

LEMMA Beginning ==
    ASSUME NEW sp \in DecodableSpellings, NEW n \in Name, Generated(n),
           NEW t, Spells(sp, n, t), NEW i \in 1..Len(n)
    PROVE  Continues(t[i], sp[n[1]], i)
<1> DEFINE Begins(k) == \E r \in Seq(Letter) : t[k] = sp[n[1]] \o r /\ (k # 1 => Len(r) # 0)
           T == {k \in 1..Len(n) : ~Begins(k)}
<1> SUFFICES ASSUME T # {} PROVE FALSE
  BY DEF Continues
<1>1. PICK k \in T : \A y \in T : ~(y < k)
  <2>1. T \subseteq Nat
    OBVIOUS
  <2> HIDE DEF T
  <2> QED
    BY <2>1, LeastNumber
<1>2. k \in 1..Len(n) /\ ~Begins(k) /\ \A y \in 1..Len(n) : y < k => Begins(y)
  BY <1>1
<1> HIDE DEF T
<1>3. /\ Len(n) \in Nat /\ Len(n) # 0
      /\ \A j \in 1..Len(n) : sp[n[j]] \in Seq(Letter)
  BY TextFacts DEF DecodableSpellings
<1>4. sp[n[1]] \in Seq(Letter) /\ sp[n[k]] \in Seq(Letter)
  BY <1>2, <1>3
<1>5. CASE k = 1
  <2>1. t[k] = sp[n[1]] /\ <<>> \in Seq(Letter)
    BY <1>5 DEF Spells
  <2>2. t[k] = sp[n[1]] \o <<>>
    BY <1>4, <2>1
  <2>3. Begins(k)
    BY <1>5, <2>1, <2>2
  <2> QED
    BY <1>2, <2>3
<1>6. CASE k # 1
  <2>1. k \in 2..Len(n) /\ k - 1 \in 1..Len(n) /\ k - 1 < k
    BY <1>2, <1>3, <1>6
  <2>2. Begins(k - 1)
    BY <1>2, <2>1
  <2>3. PICK r \in Seq(Letter) : t[k - 1] = sp[n[1]] \o r
    BY <2>2
  <2>4. t[k] = (sp[n[1]] \o r) \o sp[n[k]]
    BY <2>1, <2>3 DEF Spells
  <2>5. t[k] = sp[n[1]] \o (r \o sp[n[k]])
    <3>1. PICK a \in Seq(Letter), b \in Seq(Letter) : a = sp[n[1]] /\ b = sp[n[k]]
      BY <1>4
    <3>2. (a \o r) \o b = a \o (r \o b)
      BY Regroup
    <3> QED
      BY <2>4, <3>1, <3>2
  <2>6. n[k] \in Suffix
    BY <2>1 DEF Generated
  <2>7. Len(sp[n[k]]) \in Nat /\ Len(sp[n[k]]) # 0
    BY <2>6, SuffixLetters
  <2>8. r \o sp[n[k]] \in Seq(Letter) /\ Len(r \o sp[n[k]]) = Len(r) + Len(sp[n[k]])
    BY <1>4, <2>3
  <2>9. Len(r) \in Nat
    BY <2>3
  <2>10. Len(r \o sp[n[k]]) # 0
    BY <2>7, <2>8, <2>9
  <2>11. Begins(k)
    BY <2>5, <2>8, <2>10
  <2> QED
    BY <1>2, <2>11
<1> QED
  BY <1>5, <1>6

(* The ends of two texts tell the suffixes.                                *)
LEMMA SameSuffix ==
    ASSUME NEW sp \in DecodableSpellings, NEW s \in Suffix, NEW u \in Suffix,
           NEW x \in Seq(Letter), NEW y \in Seq(Letter), x \o sp[s] = y \o sp[u]
    PROVE  s = u /\ x = y
<1>1. PICK a \in Seq(Letter), b \in Seq(Letter) : a = sp[s] /\ b = sp[u]
  BY SuffixLetters
<1>2. IsSuffix(a, b) \/ IsSuffix(b, a)
  BY <1>1, CommonEnd
<1>3. s = u
  BY <1>1, <1>2 DEF DecodableSpellings, Decodable
<1> QED
  BY <1>1, <1>3, SameBeginning

(* A text that is only a user's name is not that of a generated name.      *)
LEMMA FirstText ==
    ASSUME NEW sp \in DecodableSpellings, NEW n \in Name, Generated(n), NEW k \in Name, Generated(k),
           NEW t, Spells(sp, n, t), NEW u, Spells(sp, k, u),
           NEW j \in 1..Len(k), t[1] = u[j]
    PROVE  j = 1 /\ n[1] = k[1]
<1>1. sp \in Spellings /\ Decodable(sp)
  BY DEF DecodableSpellings
<1>2. /\ Len(n) \in Nat /\ Len(n) # 0 /\ Len(k) \in Nat /\ Len(k) # 0
      /\ \A i \in 1..Len(n) : sp[n[i]] \in Seq(Letter)
      /\ \A i \in 1..Len(k) : sp[k[i]] \in Seq(Letter)
  BY <1>1, TextFacts
<1>3. PICK a \in Seq(Letter), b \in Seq(Letter) : a = sp[n[1]] /\ b = sp[k[1]]
  BY <1>2
<1>4. t[1] = a
  BY <1>3 DEF Spells
<1>5. PICK r \in Seq(Letter) : u[j] = b \o r /\ (j # 1 => Len(r) # 0)
  <2>1. Continues(u[j], sp[k[1]], j)
    BY Beginning, Zenon
  <2> QED
    BY <1>3, <2>1 DEF Continues
<1>6. n[1] \in User /\ k[1] \in User
  BY DEF Generated
<1>7. j = 1 => n[1] = k[1]
  <2> SUFFICES ASSUME j = 1 PROVE n[1] = k[1]
    OBVIOUS
  <2>1. sp[n[1]] = sp[k[1]]
    BY DEF Spells
  <2> QED
    BY <1>1, <1>6, <2>1, SpellingAssumption
<1>8. ASSUME j # 1 PROVE FALSE
  <2>1. j \in 2..Len(k) /\ j - 1 \in 1..Len(k)
    BY <1>2, <1>8
  <2>2. k[j] \in Suffix
    BY <2>1 DEF Generated
  <2>3. u[j] = u[j - 1] \o sp[k[j]] /\ u[j - 1] \in Seq(Letter)
    BY <2>1 DEF Spells
  <2>4. PICK c \in Seq(Letter), x \in Seq(Letter) : c = sp[k[j]] /\ x = u[j - 1]
    BY <2>2, <2>3, SuffixLetters
  <2>5. a = x \o c /\ a = b \o r
    BY <1>4, <1>5, <2>3, <2>4
  <2>6. IsSuffix(c, a)
    BY <2>4, <2>5, EndOf
  <2>7. IsPrefix(b, a)
    BY <1>3, <1>5, <2>5, BeginsWith
  <2>8. n[1] = k[1]
    BY <1>1, <1>3, <1>6, <2>2, <2>4, <2>6, <2>7 DEF Decodable
  <2>9. a = b
    BY <1>3, <2>8
  <2>10. Len(b \o r) = Len(b) + Len(r) /\ Len(b) \in Nat /\ Len(r) \in Nat /\ Len(r) # 0
    BY <1>3, <1>5, <1>8
  <2>11. Len(b \o r) # Len(b)
    BY <2>10
  <2> QED
    BY <2>5, <2>9, <2>11
<1> QED
  BY <1>7, <1>8

(* In a spelling that can be told apart, a text belongs to one name.       *)
LEMMA TextTells ==
    ASSUME NEW sp \in DecodableSpellings, NEW n \in Name, Generated(n), NEW k \in Name, Generated(k),
           Text(sp, n) = Text(sp, k)
    PROVE  n = k
<1>1. /\ Len(n) \in Nat /\ Len(n) # 0 /\ Len(k) \in Nat /\ Len(k) # 0
      /\ \A i \in 1..Len(n) : sp[n[i]] \in Seq(Letter)
      /\ \A i \in 1..Len(k) : sp[k[i]] \in Seq(Letter)
  BY TextFacts DEF DecodableSpellings
<1>2. PICK t : Spells(sp, n, t) /\ Text(sp, n) = t[Len(n)]
  BY TextFacts DEF DecodableSpellings
<1>3. PICK u : Spells(sp, k, u) /\ Text(sp, k) = u[Len(k)]
  BY TextFacts DEF DecodableSpellings
<1> DEFINE Same(i, j) == i = j /\ \A m \in 1..i : n[m] = k[m]
           Tells(i) == \A j \in 1..Len(k) : t[i] = u[j] => Same(i, j)
           T == {i \in 1..Len(n) : ~Tells(i)}
<1>4. ASSUME NEW i \in 1..Len(n), \A y \in 1..Len(n) : y < i => Tells(y),
             NEW j \in 1..Len(k), t[i] = u[j]
      PROVE  Same(i, j)
  <2>1. CASE i = 1
    <3>1. j = 1 /\ n[1] = k[1]
      BY <1>2, <1>3, <1>4, <2>1, FirstText
    <3> QED
      BY <2>1, <3>1
  <2>2. CASE j = 1
    <3>1. i = 1 /\ k[1] = n[1]
      BY <1>2, <1>3, <1>4, <2>2, FirstText
    <3> QED
      BY <2>2, <3>1
  <2>3. CASE i # 1 /\ j # 1
    <3>1. /\ i \in 2..Len(n) /\ i - 1 \in 1..Len(n) /\ i - 1 < i
          /\ j \in 2..Len(k) /\ j - 1 \in 1..Len(k)
      BY <1>1, <1>4, <2>3
    <3>2. n[i] \in Suffix /\ k[j] \in Suffix
      BY <3>1 DEF Generated
    <3>3. /\ t[i] = t[i - 1] \o sp[n[i]] /\ t[i - 1] \in Seq(Letter)
          /\ u[j] = u[j - 1] \o sp[k[j]] /\ u[j - 1] \in Seq(Letter)
      BY <1>2, <1>3, <3>1 DEF Spells
    <3>4. n[i] = k[j] /\ t[i - 1] = u[j - 1]
      <4>1. PICK x \in Seq(Letter), y \in Seq(Letter) : x = t[i - 1] /\ y = u[j - 1]
        BY <3>3
      <4>2. PICK a \in Suffix, b \in Suffix : a = n[i] /\ b = k[j]
        BY <3>2
      <4>3. x \o sp[a] = y \o sp[b]
        BY <1>4, <3>3, <4>1, <4>2
      <4>4. a = b /\ x = y
        BY <4>3, SameSuffix
      <4> QED
        BY <4>1, <4>2, <4>4
    <3>5. Same(i - 1, j - 1)
      BY <1>4, <3>1, <3>4
    <3>6. i = j /\ \A m \in 1..i - 1 : n[m] = k[m]
      BY <3>1, <3>5
    <3>7. \A m \in 1..i : m = i \/ m \in 1..i - 1
      BY <3>1
    <3> QED
      BY <3>4, <3>6, <3>7
  <2> QED
    BY <2>1, <2>2, <2>3
<1>5. T = {}
  <2> SUFFICES ASSUME T # {} PROVE FALSE
    OBVIOUS
  <2>1. T \subseteq Nat
    OBVIOUS
  <2>2. PICK i \in T : \A y \in T : ~(y < i)
    <3> HIDE DEF T
    <3> QED
      BY <2>1, LeastNumber
  <2>3. i \in 1..Len(n) /\ ~Tells(i)
    BY <2>2
  <2>4. \A y \in 1..Len(n) : y < i => Tells(y)
    BY <2>2
  <2> HIDE DEF T
  <2>5. Tells(i)
    BY <1>4, <2>3, <2>4
  <2> QED
    BY <2>3, <2>5
<1>6. Len(n) \in 1..Len(n) /\ Len(k) \in 1..Len(k) /\ t[Len(n)] = u[Len(k)]
  <2>1. Len(n) \in 1..Len(n) /\ Len(k) \in 1..Len(k)
    BY <1>1
  <2> QED
    BY <1>2, <1>3, <2>1
<1>7. Same(Len(n), Len(k))
  BY <1>5, <1>6
<1>8. n \in Seq(Token) /\ k \in Seq(Token)
  BY DEF Name
<1> QED
  BY <1>7, <1>8, SeqEqual

-----------------------------------------------------------------------------
(* Steps before the main loop.                                             *)

(* tmrx_mark only sets tmrx_is_proper_submodule.                           *)
LEMMA MarkStep ==
    ASSUME HierarchyInv, Mark
    PROVE  /\ pc = "mark" /\ pc' = "synth" /\ DOMAIN design = UserName
           /\ todo = {} /\ stack = <<>>
           /\ UNCHANGED <<input, edges, todo, wrapper, path, stack, toRemove>>
           /\ DOMAIN design' = DOMAIN design
           /\ \A n \in DOMAIN design :
                /\ design'[n].cells = design[n].cells
                /\ design'[n].ports = design[n].ports
                /\ design'[n].bb = design[n].bb
                /\ design'[n].impl = design[n].impl
                /\ design[n].proper => design'[n].proper
                /\ (\E p \in input.markSel : /\ ~design[p].bb
                                             /\ \E c \in design[p].cells : c.type = n)
                     => design'[n].proper
<1>1. /\ pc = "mark" /\ pc' = "synth" /\ DOMAIN design = UserName
      /\ todo = {} /\ stack = <<>>
      /\ UNCHANGED <<input, edges, todo, wrapper, path, stack, toRemove>>
  BY DEF Mark, HierarchyInv, TodoOK, StackOK
<1> DEFINE scanned == {p \in input.markSel : ~design[p].bb}
           Instance_(n) == \E p \in scanned : \E c \in design[p].cells : c.type = n
<1>2. design' = [n \in DOMAIN design |->
                   [design[n] EXCEPT !.proper = @ \/ Instance_(n)]]
  BY DEF Mark
<1>3. \A n \in DOMAIN design : design[n] \in Module
  BY DEF HierarchyInv, TypeOK
<1>4. \A n \in DOMAIN design : Instance_(n) <=>
         \E p \in input.markSel : /\ ~design[p].bb
                                  /\ \E c \in design[p].cells : c.type = n
  OBVIOUS
<1> HIDE DEF Instance_
<1>5. \A n \in DOMAIN design :
         /\ design'[n].cells = design[n].cells
         /\ design'[n].ports = design[n].ports
         /\ design'[n].bb = design[n].bb
         /\ design'[n].impl = design[n].impl
         /\ design'[n].proper = (design[n].proper \/ Instance_(n))
  BY <1>2, <1>3 DEF Module
<1> QED
  BY <1>1, <1>2, <1>4, <1>5

(* Mapping changes the types of flip-flops and nothing else.               *)
LEMMA SynthesizeStep ==
    ASSUME HierarchyInv, Synthesize
    PROVE  /\ pc = "synth" /\ pc' = "plan" /\ DOMAIN design = UserName
           /\ todo = {} /\ stack = <<>>
           /\ UNCHANGED <<input, ffSources, edges, todo, wrapper, path, stack, toRemove>>
           /\ DOMAIN design' = DOMAIN design
           /\ \A n \in DOMAIN design :
                /\ design'[n].cells = IF input.mapped THEN {MapCell(c) : c \in design[n].cells}
                                      ELSE design[n].cells
                /\ design'[n].ports = design[n].ports
                /\ design'[n].bb = design[n].bb
                /\ design'[n].impl = design[n].impl
                /\ design'[n].proper = design[n].proper
<1>1. /\ pc = "synth" /\ pc' = "plan" /\ DOMAIN design = UserName
      /\ todo = {} /\ stack = <<>>
      /\ UNCHANGED <<input, ffSources, edges, todo, wrapper, path, stack, toRemove>>
  BY DEF Synthesize, HierarchyInv, TodoOK, StackOK
<1>2. \A n \in DOMAIN design : design[n] \in Module
  BY DEF HierarchyInv, TypeOK
<1>3. CASE ~input.mapped
  BY <1>1, <1>3 DEF Synthesize
<1>4. CASE input.mapped
  <2>1. design' = [n \in DOMAIN design |->
                     [design[n] EXCEPT !.cells = {MapCell(c) : c \in @}]]
    BY <1>4 DEF Synthesize
  <2>2. \A n \in DOMAIN design :
           /\ design'[n].cells = {MapCell(c) : c \in design[n].cells}
           /\ design'[n].ports = design[n].ports
           /\ design'[n].bb = design[n].bb
           /\ design'[n].impl = design[n].impl
           /\ design'[n].proper = design[n].proper
    BY <1>2, <2>1 DEF Module
  <2> QED
    BY <1>1, <1>4, <2>1, <2>2
<1> QED
  BY <1>3, <1>4

(* A cell that has been mapped.                                            *)
LEMMA MapCellFacts ==
    ASSUME NEW c \in Cell
    PROVE  /\ MapCell(c).inst = c.inst /\ MapCell(c).path = c.path
           /\ MapCell(c).ports = c.ports /\ MapCell(c).voted = c.voted
           /\ MapCell(c).type = IF c.type = BuiltinFf THEN LibraryFf ELSE c.type
BY DEF MapCell, Cell

-----------------------------------------------------------------------------
(* Processing a module.                                                    *)

(* The design with the clone that is to be expanded, if there is one.      *)
LEMMA TargetModules ==
    ASSUME HierarchyInv, pc = "process", NEW m \in todo
    PROVE  LET t == Target(m)
               w == WithTarget(m)
           IN  /\ w[t].ports = design[m].ports /\ w[t].bb = design[m].bb
               /\ t = m => /\ w = design
                           /\ ConfigOf(m).preserve \/ ~design[m].proper
               /\ t # m => t = Append(m, ImplSuffix) /\ w[t].proper /\ design[m].proper
               /\ \A x \in DOMAIN design : x # t =>
                    /\ w[x].ports = design[x].ports
                    /\ w[x].proper = design[x].proper
                    /\ w[x].bb = design[x].bb
<1> DEFINE t == Target(m)
           w == WithTarget(m)
<1>1. m \in DOMAIN design /\ design[m] \in Module
  BY DEF HierarchyInv, TypeOK, TodoOK
<1>2. t \in Name
  BY TargetFacts
<1>3. CASE t = m
  <2>1. w = design
    BY <1>3 DEF WithTarget
  <2>2. m # Append(m, ImplSuffix)
    <3>1. m \in Seq(Token)
      BY <1>2, <1>3 DEF Name
    <3>2. Len(Append(m, ImplSuffix)) = Len(m) + 1 /\ Len(m) \in Nat
      BY <3>1
    <3> QED
      BY <3>2
  <2>3. ConfigOf(m).preserve \/ ~design[m].proper
    BY <1>3, <2>2 DEF Target
  <2> QED
    BY <1>3, <2>1, <2>3
<1>4. CASE t # m
  <2>1. t = Append(m, ImplSuffix) /\ design[m].proper
    BY <1>4 DEF Target
  <2> DEFINE d == [design EXCEPT ![m].impl = t]
             k == [design[m] EXCEPT !.proper = TRUE]
  <2>2. w = Put(d, t, k)
    BY <1>4 DEF WithTarget
  <2>3. k.ports = design[m].ports /\ k.bb = design[m].bb /\ k.proper
    BY <1>1 DEF Module
  <2>4. /\ DOMAIN d = DOMAIN design
        /\ d[m].ports = design[m].ports /\ d[m].bb = design[m].bb
        /\ d[m].proper = design[m].proper
        /\ \A x \in DOMAIN design : x # m => d[x] = design[x]
    BY <1>1, <1>2 DEF Module
  <2> HIDE DEF d, k, w, t
  <2>5. w[t] = k /\ \A x \in DOMAIN design : x # t => w[x] = d[x]
    BY <2>2, <2>4 DEF Put
  <2>6. \A x \in DOMAIN design : x # t =>
           /\ w[x].ports = design[x].ports
           /\ w[x].proper = design[x].proper
           /\ w[x].bb = design[x].bb
    BY <2>4, <2>5
  <2> QED
    BY <1>4, <2>1, <2>3, <2>5, <2>6 DEF t, w
<1> QED
  BY <1>3, <1>4

(* What every step that processes a module m leaves alone, with the target *)
(* t and the cells and ports t is given by LogicTMR.                       *)
LEMMA ExpandLogicStep ==
    ASSUME HierarchyInv, NEW m \in todo, ExpandLogic(m)
    PROVE  LET t == Target(m)
               w == WithTarget(m)
           IN  /\ pc = "process" /\ todo' = todo \ {m} /\ stack = <<>>
               /\ UNCHANGED <<input, pc, ffSources, edges, wrapper, path, stack, toRemove>>
               /\ ConfigOf(m) = input.cfg[m] /\ ConfigOf(m).mode = "Logic" /\ ~design[m].bb
               /\ DOMAIN design' = DOMAIN design \cup {t}
               /\ design'[t].cells = ExpandedCells(w, t, ConfigOf(m))
               /\ design'[t].ports = IF ConfigOf(m).preserve THEN "base" ELSE "tri"
               /\ design'[t].bb = design[m].bb
               /\ design'[t].impl = NoName
               /\ design'[t].proper = w[t].proper
               /\ \A x \in DOMAIN design : x # t =>
                    /\ design'[x].cells = design[x].cells
                    /\ design'[x].ports = design[x].ports
                    /\ design'[x].bb <=> design[x].bb
                    /\ design'[x].proper <=> design[x].proper
                    /\ design'[x].impl = design[x].impl \/ x = m
<1> DEFINE t == Target(m)
           w == WithTarget(m)
           new == ExpandedCells(w, t, ConfigOf(m))
           p == IF ConfigOf(m).preserve THEN "base" ELSE "tri"
<1>1. /\ pc = "process" /\ todo' = todo \ {m} /\ stack = <<>>
      /\ UNCHANGED <<input, pc, ffSources, edges, wrapper, path, stack, toRemove>>
      /\ ConfigOf(m).mode = "Logic" /\ ~design[m].bb
  BY DEF ExpandLogic, HierarchyInv, StackOK, Skipped
<1>2. /\ m \in UserName
      /\ DOMAIN w = DOMAIN design \cup {t} /\ \A x \in DOMAIN w : w[x] \in Module
      /\ w[t].impl = NoName
      /\ \A x \in DOMAIN design : x # t =>
           w[x].cells = design[x].cells /\ (w[x].impl = design[x].impl \/ x = m)
  BY <1>1, TargetFacts
<1>3. /\ w[t].bb = design[m].bb
      /\ \A x \in DOMAIN design : x # t =>
           /\ w[x].ports = design[x].ports
           /\ w[x].proper = design[x].proper
           /\ w[x].bb = design[x].bb
  BY <1>1, TargetModules
<1>4. design' = [w EXCEPT ![t].cells = new, ![t].ports = p]
  BY DEF ExpandLogic, LogicTmrExpansion
<1>5. ConfigOf(m) = input.cfg[m]
  BY <1>2 DEF ConfigOf
<1>6. t \in DOMAIN w /\ w[t] \in Module
  BY <1>2
<1> HIDE DEF t, w, new, p
<1>7. /\ DOMAIN design' = DOMAIN w
      /\ design'[t].cells = new /\ design'[t].ports = p
      /\ design'[t].bb = w[t].bb /\ design'[t].impl = w[t].impl
      /\ design'[t].proper = w[t].proper
      /\ \A x \in DOMAIN w : x # t => design'[x] = w[x]
  BY <1>4, <1>6 DEF Module
<1>8. \A x \in DOMAIN design : x # t =>
         /\ design'[x].cells = design[x].cells
         /\ design'[x].ports = design[x].ports
         /\ design'[x].bb <=> design[x].bb
         /\ design'[x].proper <=> design[x].proper
         /\ design'[x].impl = design[x].impl \/ x = m
  BY <1>2, <1>3, <1>7
<1>9. p = IF ConfigOf(m).preserve THEN "base" ELSE "tri"
  BY DEF p
<1>10. new = ExpandedCells(w, t, ConfigOf(m))
  BY DEF new
<1> QED
  BY <1>1, <1>2, <1>3, <1>5, <1>7, <1>8, <1>9, <1>10 DEF t, w

(* The modules other than the target.                                       *)
LEMMA ExpandLogicOthers ==
    ASSUME HierarchyInv, NEW m \in todo, ExpandLogic(m),
           NEW x \in DOMAIN design, x # Target(m)
    PROVE  /\ design'[x].cells = design[x].cells
           /\ design'[x].ports = design[x].ports
           /\ design'[x].bb <=> design[x].bb
           /\ design'[x].proper <=> design[x].proper
           /\ design'[x].impl = design[x].impl \/ x = m
<1>1. design'[x].cells = design[x].cells
  BY ExpandLogicStep
<1>2. design'[x].ports = design[x].ports
  BY ExpandLogicStep
<1>3. design'[x].bb <=> design[x].bb
  BY ExpandLogicStep
<1>4. design'[x].proper <=> design[x].proper
  BY ExpandLogicStep
<1>5. design'[x].impl = design[x].impl \/ x = m
  BY ExpandLogicStep
<1> QED
  BY <1>1, <1>2, <1>3, <1>4, <1>5

(* FullModuleTMR of a module: the template and the wrapper.                *)
LEMMA StartFullStep ==
    ASSUME HierarchyInv, NEW m \in todo, StartFull(m)
    PROVE  LET t == Target(m)
               w == WithTarget(m)
               k == Template(t)
           IN  /\ pc = "process" /\ pc' = "full" /\ todo' = todo \ {m} /\ stack = <<>>
               /\ wrapper' = t /\ path' = 1
               /\ UNCHANGED <<input, ffSources, edges, stack, toRemove>>
               /\ ConfigOf(m) = input.cfg[m] /\ ConfigOf(m).mode = "Full" /\ ~design[m].bb
               /\ k \notin DOMAIN design /\ k # t /\ k \in Name /\ LastToken(k) = WorkerSuffix
               /\ k \notin UserName /\ k \notin Primitive
               /\ DOMAIN design' = DOMAIN design \cup {t, k}
               /\ design'[t].cells = {Duplicate(k, i) : i \in 1..3}
               /\ design'[t].ports = IF ConfigOf(m).preserve THEN "base" ELSE "tri"
               /\ ~design'[t].bb
               /\ design'[t].impl = NoName
               /\ design'[t].proper
               /\ design'[k].cells = design[m].cells
               /\ design'[k].ports = design[m].ports
               /\ ~design'[k].bb
               /\ design'[k].impl = NoName
               /\ \A x \in DOMAIN design : x # t =>
                    /\ design'[x].cells = design[x].cells
                    /\ design'[x].ports = design[x].ports
                    /\ design'[x].bb <=> design[x].bb
                    /\ design'[x].proper <=> design[x].proper
                    /\ design'[x].impl = design[x].impl \/ x = m
<1> DEFINE t == Target(m)
           w == WithTarget(m)
           k == Template(t)
           new == [ports |-> IF ConfigOf(m).preserve THEN "base" ELSE "tri",
                   proper |-> TRUE, bb |-> FALSE, impl |-> NoName,
                   cells |-> {Duplicate(k, i) : i \in 1..3}]
<1>1. /\ pc = "process" /\ pc' = "full" /\ todo' = todo \ {m} /\ stack = <<>>
      /\ wrapper' = t /\ path' = 1
      /\ UNCHANGED <<input, ffSources, edges, stack, toRemove>>
      /\ ConfigOf(m).mode = "Full" /\ ~design[m].bb
  BY DEF StartFull, HierarchyInv, StackOK, Skipped
<1>2. /\ m \in UserName /\ t \in Name /\ t # <<>>
      /\ DOMAIN w = DOMAIN design \cup {t} /\ w[t].cells = design[m].cells
      /\ w[t].impl = NoName
      /\ \A x \in DOMAIN design : x # t =>
           w[x].cells = design[x].cells /\ (w[x].impl = design[x].impl \/ x = m)
  BY <1>1, TargetFacts
<1>3. /\ w[t].bb = design[m].bb /\ w[t].ports = design[m].ports
      /\ \A x \in DOMAIN design : x # t =>
           /\ w[x].ports = design[x].ports
           /\ w[x].proper = design[x].proper
           /\ w[x].bb = design[x].bb
  BY <1>1, TargetModules
<1>4. ConfigOf(m) = input.cfg[m]
  BY <1>2 DEF ConfigOf
<1>5. /\ k \in Name /\ LastToken(k) = WorkerSuffix /\ k # t
      /\ k \notin UserName /\ k \notin Primitive
  BY <1>2, TemplateFacts
<1>6. k \notin DOMAIN design
  BY <1>1, <1>5 DEF HierarchyInv, NamesOK
<1>7. design' = Put(Put(w, k, w[t]), t, new)
  BY DEF StartFull, Wrap
<1> HIDE DEF t, w, k
<1>8. /\ DOMAIN design' = DOMAIN design \cup {t, k}
      /\ design'[t] = new /\ design'[k] = w[t]
      /\ \A x \in DOMAIN design : x # t => design'[x] = w[x]
  BY <1>2, <1>5, <1>6, <1>7 DEF Put
<1>9. /\ new.cells = {Duplicate(k, i) : i \in 1..3}
      /\ new.ports = IF ConfigOf(m).preserve THEN "base" ELSE "tri"
      /\ ~new.bb /\ new.impl = NoName /\ new.proper
  OBVIOUS
<1> HIDE DEF new
<1>10. \A x \in DOMAIN design : x # t =>
          /\ design'[x].cells = design[x].cells
          /\ design'[x].ports = design[x].ports
          /\ design'[x].bb <=> design[x].bb
          /\ design'[x].proper <=> design[x].proper
          /\ design'[x].impl = design[x].impl \/ x = m
  BY <1>2, <1>3, <1>8
<1> QED
  BY <1>1, <1>2, <1>3, <1>4, <1>5, <1>6, <1>8, <1>9, <1>10 DEF t, w, k

(* The modules other than the wrapper.                                      *)
LEMMA StartFullOthers ==
    ASSUME HierarchyInv, NEW m \in todo, StartFull(m),
           NEW x \in DOMAIN design, x # Target(m)
    PROVE  /\ design'[x].cells = design[x].cells
           /\ design'[x].ports = design[x].ports
           /\ design'[x].bb <=> design[x].bb
           /\ design'[x].proper <=> design[x].proper
           /\ design'[x].impl = design[x].impl \/ x = m
<1>1. design'[x].cells = design[x].cells
  BY StartFullStep
<1>2. design'[x].ports = design[x].ports
  BY StartFullStep
<1>3. design'[x].bb <=> design[x].bb
  BY StartFullStep
<1>4. design'[x].proper <=> design[x].proper
  BY StartFullStep
<1>5. design'[x].impl = design[x].impl \/ x = m
  BY StartFullStep
<1> QED
  BY <1>1, <1>2, <1>3, <1>4, <1>5

-----------------------------------------------------------------------------
(* The recursion.                                                          *)

(* The worker of a path is a marked copy of the template.                  *)
LEMMA CloneWorkerStep ==
    ASSUME HierarchyInv, CloneWorker
    PROVE  LET t == Template(wrapper)
               un == WorkerName(path)
           IN  /\ pc = "full" /\ path \in 1..3 /\ stack = <<>>
               /\ UNCHANGED <<input, pc, ffSources, edges, todo, wrapper, path, toRemove>>
               /\ t \in DOMAIN design /\ t \in Name /\ t # <<>> /\ LastToken(t) = WorkerSuffix
               /\ t \notin UserName
               /\ un = Append(t, PathSuffix[path]) /\ un \in Name /\ un # <<>>
               /\ LastToken(un) = PathSuffix[path] /\ PathSuffix[path] \in PathSuffixes
               /\ un \notin UserName /\ un \notin Primitive /\ un # t /\ un # wrapper
               /\ Base(un) = Base(t)
               /\ DOMAIN design' = DOMAIN design \cup {un}
               /\ design'[un].cells = design[t].cells
               /\ design'[un].ports = design[t].ports
               /\ design'[un].bb = design[t].bb
               /\ design'[un].impl = NoName
               /\ design'[un].proper = TRUE
               /\ \A x \in DOMAIN design : x # un => design'[x] = design[x]
               /\ stack' = <<[mod |-> un, cells |-> design[t].cells, owner |-> wrapper,
                              cell |-> Duplicate(t, path)]>>
<1> DEFINE t == Template(wrapper)
           un == WorkerName(path)
           k == [design[t] EXCEPT !.proper = TRUE]
<1>1. /\ pc = "full" /\ path \in 1..3 /\ stack = <<>>
      /\ UNCHANGED <<input, pc, ffSources, edges, todo, wrapper, path, toRemove>>
      /\ stack' = <<[mod |-> un, cells |-> design[t].cells, owner |-> wrapper,
                     cell |-> Duplicate(t, path)]>>
  BY DEF CloneWorker
<1>2. wrapper \in Name /\ wrapper # <<>> /\ t \in DOMAIN design
  BY <1>1, FullFacts
<1>3. /\ t \in Name /\ t # <<>> /\ LastToken(t) = WorkerSuffix /\ t \notin UserName
      /\ Len(t) = Len(wrapper) + 1
  BY <1>2, TemplateFacts, AppendName, SuffixFacts DEF Template
<1>4. PathSuffix[path] \in PathSuffixes /\ PathSuffix[path] \in Token
  BY <1>1, SuffixFacts
<1>5. un = Append(t, PathSuffix[path])
  BY DEF WorkerName
<1>6. /\ un \in Name /\ un # <<>> /\ LastToken(un) = PathSuffix[path]
      /\ un \notin UserName /\ un \notin Primitive /\ Len(un) = Len(t) + 1
  BY <1>3, <1>4, <1>5, PathName
<1>7. un # t /\ un # wrapper
  <2>1. Len(wrapper) \in Nat
    BY <1>2 DEF Name
  <2> QED
    BY <1>3, <1>6, <2>1
<1>8. Base(un) = Base(t)
  BY <1>3, <1>4, <1>5, SecondToken
<1>9. design[t] \in Module /\ design[t].impl = NoName
  BY <1>2, <1>3, DesignNames DEF HierarchyInv, ImplOK
<1>10. design' = Put(design, un, k)
  BY DEF CloneWorker
<1>11. /\ k.cells = design[t].cells /\ k.ports = design[t].ports /\ k.bb = design[t].bb
       /\ k.impl = NoName /\ k.proper = TRUE
  BY <1>9 DEF Module
<1> HIDE DEF t, un, k
<1>12. /\ DOMAIN design' = DOMAIN design \cup {un} /\ design'[un] = k
       /\ \A x \in DOMAIN design : x # un => design'[x] = design[x]
  BY <1>10 DEF Put
<1> QED
  BY <1>1, <1>2, <1>3, <1>4, <1>5, <1>6, <1>7, <1>8, <1>11, <1>12 DEF t, un

(* The clone of a submodule is a marked copy of it without tmrx_impl_module*)
LEMMA CloneSubmoduleStep ==
    ASSUME HierarchyInv, VisitCell, NEW c \in stack[1].cells, CloneSubmodule(c)
    PROVE  LET un == UniqueName(c)
               s  == PathSuffix[path]
           IN  /\ pc = "full" /\ path \in 1..3 /\ stack # <<>>
               /\ UNCHANGED <<input, pc, ffSources, edges, todo, wrapper, path, toRemove>>
               /\ c \in Cell /\ c.type \in DOMAIN design /\ c.type \in Name /\ c.type # <<>>
               /\ c.type # Template(wrapper) /\ c.type # wrapper
               /\ design[c.type].proper /\ ~design[c.type].bb
               /\ s \in PathSuffixes /\ s \in Token
               /\ un = Append(c.type, s) /\ un \in Name /\ un # <<>> /\ LastToken(un) = s
               /\ un \notin DOMAIN design /\ un \notin UserName /\ un \notin Primitive
               /\ Base(un) = Base(c.type)
               /\ DOMAIN design' = DOMAIN design \cup {un}
               /\ design'[un].cells = design[c.type].cells
               /\ design'[un].ports = design[c.type].ports
               /\ design'[un].bb = design[c.type].bb
               /\ design'[un].impl = NoName
               /\ design'[un].proper = TRUE
               /\ \A x \in DOMAIN design : x # un => design'[x] = design[x]
               /\ Len(stack') = Len(stack) + 1 /\ Len(stack) \in Nat
               /\ stack'[1] = [mod |-> un, cells |-> design[c.type].cells,
                               owner |-> stack[1].mod, cell |-> c]
               /\ \A i \in 1..Len(stack) :
                    /\ stack'[i + 1].mod = stack[i].mod
                    /\ stack'[i + 1].owner = stack[i].owner
                    /\ stack'[i + 1].cell = stack[i].cell
                    /\ stack'[i + 1].cells \subseteq stack[i].cells
<1> DEFINE un == UniqueName(c)
           s == PathSuffix[path]
           k == [design[c.type] EXCEPT !.proper = TRUE, !.impl = NoName]
           f == [mod |-> un, cells |-> design[c.type].cells, owner |-> stack[1].mod, cell |-> c]
<1>1. /\ stack # <<>> /\ stack' = <<f>> \o Visited(c) /\ ~KeepsType(c)
      /\ un \notin DOMAIN design /\ design' = Put(design, un, k)
      /\ UNCHANGED <<input, pc, ffSources, edges, todo, wrapper, path, toRemove>>
  BY DEF VisitCell, CloneSubmodule
<1>2. pc = "full" /\ path \in 1..3 /\ stack[1] \in Frame
  BY <1>1, TopFacts
<1>3. /\ c \in Cell /\ c.type \in DOMAIN design /\ c.type # Template(wrapper) /\ c.type # wrapper
      /\ un \in Name /\ un # <<>> /\ un \notin UserName /\ un \notin Primitive
  BY <1>1, UniqueFacts
<1>4. design[c.type].proper /\ ~design[c.type].bb
  BY <1>1 DEF KeepsType, IsProper
<1>5. c.type \in Name /\ c.type # <<>> /\ design[c.type] \in Module
  BY <1>3, DesignNames
<1>6. s \in PathSuffixes /\ s \in Token
  BY <1>2, SuffixFacts
<1>7. un = Append(c.type, s)
  BY DEF UniqueName
<1>8. LastToken(un) = s
  BY <1>5, <1>6, <1>7, AppendName
<1>9. Base(un) = Base(c.type)
  BY <1>5, <1>6, <1>7, SecondToken
<1>10. /\ k.cells = design[c.type].cells /\ k.ports = design[c.type].ports
       /\ k.bb = design[c.type].bb /\ k.impl = NoName /\ k.proper = TRUE
       /\ design[c.type].cells \subseteq Cell
  BY <1>5 DEF Module
<1>11. f \in Frame
  BY <1>2, <1>3, <1>10 DEF Frame
<1> HIDE DEF un, s, k, f
<1>12. /\ DOMAIN design' = DOMAIN design \cup {un} /\ design'[un] = k
       /\ \A x \in DOMAIN design : x # un => design'[x] = design[x]
  BY <1>1 DEF Put
<1>13. /\ Len(stack') = Len(stack) + 1 /\ Len(stack) \in Nat /\ stack'[1] = f
       /\ \A i \in 1..Len(stack) :
             /\ stack'[i + 1].mod = stack[i].mod
             /\ stack'[i + 1].owner = stack[i].owner
             /\ stack'[i + 1].cell = stack[i].cell
             /\ stack'[i + 1].cells \subseteq stack[i].cells
  <2> DEFINE v == Visited(c)
  <2>1. /\ v \in Seq(Frame) /\ Len(v) = Len(stack)
        /\ \A i \in 1..Len(stack) :
             /\ v[i].mod = stack[i].mod /\ v[i].owner = stack[i].owner
             /\ v[i].cell = stack[i].cell /\ v[i].cells \subseteq stack[i].cells
    BY <1>1, VisitedFacts
  <2>2. stack' = <<f>> \o v
    BY <1>1
  <2> HIDE DEF v
  <2>3. /\ Len(stack') = Len(v) + 1 /\ Len(v) \in Nat /\ stack'[1] = f
        /\ \A i \in 1..Len(v) : stack'[i + 1] = v[i]
    BY <1>11, <2>1, <2>2
  <2> QED
    BY <2>1, <2>3
<1> QED
  BY <1>1, <1>2, <1>3, <1>4, <1>5, <1>6, <1>7, <1>8, <1>9, <1>10, <1>12, <1>13 DEF un, s, f

(* A cell that is retyped to an existing clone.                            *)
LEMMA ReuseCloneStep ==
    ASSUME HierarchyInv, VisitCell, NEW c \in stack[1].cells, ReuseClone(c)
    PROVE  LET un == UniqueName(c)
               o  == stack[1].mod
               s  == PathSuffix[path]
           IN  /\ pc = "full" /\ path \in 1..3 /\ stack # <<>>
               /\ UNCHANGED <<input, pc, ffSources, edges, todo, wrapper, path, toRemove>>
               /\ c \in Cell /\ c.type \in DOMAIN design /\ c.type \in Name /\ c.type # <<>>
               /\ s \in PathSuffixes /\ s \in Token
               /\ un = Append(c.type, s) /\ un \in DOMAIN design /\ LastToken(un) = s
               /\ un \in Name /\ un # <<>> /\ un \notin UserName
               /\ o \in DOMAIN design /\ o \notin UserName /\ o # Template(wrapper)
               /\ DOMAIN design' = DOMAIN design
               /\ \A x \in DOMAIN design : x # o => design'[x] = design[x]
               /\ design'[o].cells = (design[o].cells \ {c}) \cup {[c EXCEPT !.type = un]}
               /\ design'[o].ports = design[o].ports
               /\ design'[o].bb = design[o].bb
               /\ design'[o].impl = design[o].impl
               /\ design'[o].proper = design[o].proper
               /\ stack' \in Seq(Frame) /\ Len(stack') = Len(stack)
               /\ \A i \in 1..Len(stack) :
                    /\ stack'[i].mod = stack[i].mod
                    /\ stack'[i].owner = stack[i].owner
                    /\ stack'[i].cell = stack[i].cell
                    /\ stack'[i].cells \subseteq stack[i].cells
<1> DEFINE un == UniqueName(c)
           o == stack[1].mod
           s == PathSuffix[path]
<1>1. /\ stack # <<>> /\ stack' = Visited(c) /\ ~KeepsType(c) /\ un \in DOMAIN design
      /\ design' = Retype(design, o, c, un)
      /\ UNCHANGED <<input, pc, ffSources, edges, todo, wrapper, path, toRemove>>
  BY DEF VisitCell, ReuseClone
<1>2. /\ pc = "full" /\ path \in 1..3
      /\ o \notin UserName /\ o # Template(wrapper) /\ o \in DOMAIN design
  BY <1>1, TopFacts DEF FrameOK
<1>3. /\ c \in Cell /\ c.type \in DOMAIN design /\ un \in Name /\ un # <<>> /\ un \notin UserName
  BY <1>1, UniqueFacts
<1>4. c.type \in Name /\ c.type # <<>> /\ design[o] \in Module
  BY <1>2, <1>3, DesignNames
<1>5. s \in PathSuffixes /\ s \in Token
  BY <1>2, SuffixFacts
<1>6. un = Append(c.type, s)
  BY DEF UniqueName
<1>7. LastToken(un) = s
  BY <1>4, <1>5, <1>6, AppendName
<1> HIDE DEF un, o, s
<1>8. /\ DOMAIN design' = DOMAIN design
      /\ \A x \in DOMAIN design : x # o => design'[x] = design[x]
      /\ design'[o].cells = (design[o].cells \ {c}) \cup {[c EXCEPT !.type = un]}
      /\ design'[o].ports = design[o].ports
      /\ design'[o].bb = design[o].bb
      /\ design'[o].impl = design[o].impl
      /\ design'[o].proper = design[o].proper
  BY <1>1, <1>2, <1>3, <1>4, RetypeFacts
<1>9. /\ stack' \in Seq(Frame) /\ Len(stack') = Len(stack)
      /\ \A i \in 1..Len(stack) :
           /\ stack'[i].mod = stack[i].mod
           /\ stack'[i].owner = stack[i].owner
           /\ stack'[i].cell = stack[i].cell
           /\ stack'[i].cells \subseteq stack[i].cells
  BY <1>1, VisitedFacts
<1> QED
  BY <1>1, <1>2, <1>3, <1>4, <1>5, <1>6, <1>7, <1>8, <1>9 DEF un, o, s

(* The cell an activation was for is retyped to the clone it has finished. *)
LEMMA ReturnStep ==
    ASSUME HierarchyInv, Return
    PROVE  LET f == stack[1]
               o == f.owner
           IN  /\ pc = "full" /\ path \in 1..3 /\ stack # <<>>
               /\ UNCHANGED <<input, pc, ffSources, edges, todo, wrapper, toRemove>>
               /\ f.cell \in Cell /\ f.mod \in DOMAIN design /\ f.mod \in Name
               /\ LastToken(f.mod) \in PathSuffixes /\ f.mod \notin UserName
               /\ o \in DOMAIN design /\ o # Template(wrapper)
               /\ o = wrapper \/ o \notin UserName
               /\ DOMAIN design' = DOMAIN design
               /\ \A x \in DOMAIN design : x # o => design'[x] = design[x]
               /\ design'[o].cells = (design[o].cells \ {f.cell}) \cup {[f.cell EXCEPT !.type = f.mod]}
               /\ design'[o].ports = design[o].ports
               /\ design'[o].bb = design[o].bb
               /\ design'[o].impl = design[o].impl
               /\ design'[o].proper = design[o].proper
               /\ Len(stack) \in Nat /\ Len(stack) >= 1 /\ Len(stack') = Len(stack) - 1
               /\ \A i \in 1..Len(stack') : stack'[i] = stack[i + 1]
               /\ path' = IF Len(stack) = 1 THEN path + 1 ELSE path
               /\ stack' = <<>> <=> Len(stack) = 1
<1> DEFINE f == stack[1]
           o == f.owner
<1>1. /\ stack # <<>> /\ stack' = Tail(stack)
      /\ design' = Retype(design, o, f.cell, f.mod)
      /\ path' = IF Len(stack) = 1 THEN path + 1 ELSE path
      /\ UNCHANGED <<input, pc, ffSources, edges, todo, wrapper, toRemove>>
  BY DEF Return
<1>2. /\ pc = "full" /\ path \in 1..3 /\ FrameOK(1) /\ f \in Frame
      /\ stack \in Seq(Frame) /\ Len(stack) \in Nat /\ 1 \in 1..Len(stack)
  BY <1>1, TopFacts
<1>3. f.cell \in Cell
  BY <1>2 DEF Frame
<1>4. /\ o \in DOMAIN design /\ f.mod \in DOMAIN design /\ LastToken(f.mod) \in PathSuffixes
      /\ o = wrapper \/ LastToken(o) \in PathSuffixes
  BY <1>2 DEF FrameOK
<1>5. f.mod \in Name /\ design[o] \in Module
  BY <1>4, DesignNames
<1>6. o # Template(wrapper) /\ (o = wrapper \/ o \notin UserName) /\ f.mod \notin UserName
  BY <1>2, <1>4, FullFacts, TemplateFacts, UserNameFacts, SuffixFacts
<1>7. Len(stack') = Len(stack) - 1 /\ \A i \in 1..Len(stack') : stack'[i] = stack[i + 1]
  BY <1>1, <1>2, HeadTailProperties
<1>8. stack' = <<>> <=> Len(stack) = 1
  <2>1. stack' \in Seq(Frame)
    BY <1>1, <1>2
  <2>2. stack' = <<>> <=> Len(stack') = 0
    BY <2>1
  <2> QED
    BY <1>2, <1>7, <2>2
<1> HIDE DEF f, o
<1>9. /\ DOMAIN design' = DOMAIN design
      /\ \A x \in DOMAIN design : x # o => design'[x] = design[x]
      /\ design'[o].cells = (design[o].cells \ {f.cell}) \cup {[f.cell EXCEPT !.type = f.mod]}
      /\ design'[o].ports = design[o].ports
      /\ design'[o].bb = design[o].bb
      /\ design'[o].impl = design[o].impl
      /\ design'[o].proper = design[o].proper
  BY <1>1, <1>3, <1>4, <1>5, RetypeFacts
<1> QED
  BY <1>1, <1>2, <1>3, <1>4, <1>5, <1>6, <1>7, <1>8, <1>9 DEF f, o

(* The template goes.                                                      *)
LEMMA FinishFullStep ==
    ASSUME HierarchyInv, FinishFull
    PROVE  /\ pc = "full" /\ pc' = "process" /\ stack = <<>>
           /\ UNCHANGED <<input, ffSources, edges, todo, stack, toRemove>>
           /\ Template(wrapper) \notin UserName
           /\ LastToken(Template(wrapper)) = WorkerSuffix
           /\ DOMAIN design' = DOMAIN design \ {Template(wrapper)}
           /\ \A x \in DOMAIN design' : x \in DOMAIN design /\ design'[x] = design[x]
<1>1. /\ pc = "full" /\ pc' = "process" /\ stack = <<>>
      /\ UNCHANGED <<input, ffSources, edges, todo, stack, toRemove>>
      /\ design' = Drop(design, Template(wrapper))
  BY DEF FinishFull
<1>2. /\ Template(wrapper) \notin UserName
      /\ LastToken(Template(wrapper)) = WorkerSuffix
  BY <1>1, FullFacts, TemplateFacts
<1>3. /\ DOMAIN design' = DOMAIN design \ {Template(wrapper)}
      /\ \A x \in DOMAIN design' : x \in DOMAIN design /\ design'[x] = design[x]
  BY <1>1, DropFacts
<1> QED
  BY <1>1, <1>2, <1>3

(* An original is removed if nothing refers to it.                         *)
LEMMA CleanupOneStep ==
    ASSUME HierarchyInv, NEW n \in toRemove, CleanupOne(n)
    PROVE  /\ pc = "cleanup" /\ todo = {} /\ stack = <<>>
           /\ toRemove' = toRemove \ {n}
           /\ UNCHANGED <<input, pc, ffSources, edges, todo, wrapper, path, stack>>
           /\ DOMAIN design \ {n} \subseteq DOMAIN design'
           /\ \A x \in DOMAIN design' : x \in DOMAIN design /\ design'[x] = design[x]
<1>1. /\ pc = "cleanup" /\ todo = {} /\ stack = <<>>
      /\ toRemove' = toRemove \ {n}
      /\ UNCHANGED <<input, pc, ffSources, edges, todo, wrapper, path, stack>>
  BY DEF CleanupOne, HierarchyInv, TodoOK, StackOK
<1>2. /\ DOMAIN design \ {n} \subseteq DOMAIN design'
      /\ \A x \in DOMAIN design' : x \in DOMAIN design /\ design'[x] = design[x]
  <2>1. CASE StillReferenced(n)
    BY <2>1 DEF CleanupOne
  <2>2. CASE ~StillReferenced(n)
    <3>1. design' = Drop(design, n)
      BY <2>2 DEF CleanupOne
    <3> QED
      BY <3>1, DropFacts
  <2> QED
    BY <2>1, <2>2
<1> QED
  BY <1>1, <1>2

-----------------------------------------------------------------------------
(* Identity.                                                               *)

(* The name of the module a step expands is that of a module still to do,  *)
(* or continues it with _tmrx_impl; names that continue it do not exist.   *)
LEMMA FreshTarget ==
    ASSUME HierarchyInv, FreshOK, pc = "process", NEW m \in todo
    PROVE  LET t == Target(m)
           IN  /\ t \in Name /\ t # <<>> /\ Base(t) = m /\ m \in UserName
               /\ t # m => /\ Len(t) > 1 /\ t[2] = ImplSuffix
                           /\ t \notin UserName /\ t \notin DOMAIN design
               /\ Base(Template(t)) = m /\ Len(Template(t)) > 1
               /\ Template(t)[2] \in {ImplSuffix, WorkerSuffix}
               /\ \A s \in Token :
                    /\ Append(Template(t), s) \notin DOMAIN design
                    /\ t # m => Append(t, s) \notin DOMAIN design
<1> DEFINE t == Target(m)
<1>1. /\ m \in UserName /\ t \in Name /\ t # <<>>
      /\ t = m \/ (t = Append(m, ImplSuffix) /\ t \notin UserName)
  BY TargetFacts
<1>2. m \in Name /\ m # <<>> /\ Len(m) = 1 /\ Base(m) = m
  BY <1>1, UserNameFacts, BaseOfUser
<1>3. ImplSuffix \in Token /\ WorkerSuffix \in Token
  BY SuffixFacts
<1>4. t # m => Len(t) > 1 /\ t[2] = ImplSuffix /\ Base(t) = m
  BY <1>1, <1>2, <1>3, SecondToken
<1> HIDE DEF t
<1>5. Template(t) \in Name /\ Template(t) # <<>>
  BY <1>1, TemplateFacts
<1>6. /\ Base(Template(t)) = m /\ Len(Template(t)) > 1
      /\ Template(t)[2] \in {ImplSuffix, WorkerSuffix}
  <2>1. CASE t = m
    BY <1>2, <1>3, <2>1, SecondToken DEF Template
  <2>2. CASE t # m
    BY <1>1, <1>3, <1>4, <2>2, SecondToken DEF Template
  <2> QED
    BY <2>1, <2>2
<1>7. \A n \in DOMAIN design :
         (Len(n) > 1 /\ n[2] \in {ImplSuffix, WorkerSuffix}) => Base(n) # m
  BY DEF FreshOK
<1>8. ASSUME NEW s \in Token
      PROVE  /\ Append(Template(t), s) \notin DOMAIN design
             /\ t # m => Append(t, s) \notin DOMAIN design
  <2>1. /\ Len(Append(Template(t), s)) > 1 /\ Base(Append(Template(t), s)) = m
        /\ Append(Template(t), s)[2] = Template(t)[2]
    BY <1>5, <1>6, SecondToken
  <2>2. t # m => /\ Len(Append(t, s)) > 1 /\ Base(Append(t, s)) = m
                 /\ Append(t, s)[2] = ImplSuffix
    BY <1>1, <1>4, SecondToken
  <2> QED
    BY <1>6, <1>7, <2>1, <2>2
<1>9. t # m => t \notin DOMAIN design /\ t \notin UserName
  BY <1>1, <1>4, <1>7
<1> QED
  BY <1>1, <1>2, <1>4, <1>6, <1>8, <1>9 DEF t

(* Names that are given without looking are new.                           *)
LEMMA NamesNewFromInv == HierarchyInv /\ IdentityInv => NamesNew
<1> SUFFICES ASSUME HierarchyInv, IdentityInv PROVE NamesNew
  OBVIOUS
<1>1. ASSUME pc = "process", NEW m \in todo
      PROVE  /\ Target(m) = m \/ Target(m) \notin DOMAIN design
             /\ Template(Target(m)) \notin DOMAIN design
  <2>1. Target(m) = m \/ Target(m) \notin DOMAIN design
    BY <1>1, FreshTarget DEF IdentityInv
  <2>2. Target(m) \in Name /\ Target(m) # <<>>
    BY <1>1, TargetFacts
  <2>3. LastToken(Template(Target(m))) = WorkerSuffix
    BY <2>2, TemplateFacts
  <2>4. Template(Target(m)) \notin DOMAIN design
    BY <1>1, <2>3 DEF HierarchyInv, NamesOK
  <2> QED
    BY <2>1, <2>4
<1>2. (pc = "full" /\ stack = <<>> /\ path \in 1..3) => WorkerName(path) \notin DOMAIN design
  BY DEF IdentityInv, FreshOK
<1> QED
  BY <1>1, <1>2 DEF NamesNew

-----------------------------------------------------------------------------
(* The names that the steps give are generated.                            *)
LEMMA UserGenerated == \A n \in UserName : n \in Name /\ Generated(n)
<1> SUFFICES ASSUME NEW n \in UserName PROVE n \in Name /\ Generated(n)
  OBVIOUS
<1>1. n \in Name /\ Len(n) = 1 /\ n # <<>> /\ n[1] \in User
  BY UserNameFacts
<1>2. 2..Len(n) = {}
  BY <1>1
<1> QED
  BY <1>1, <1>2 DEF Generated

LEMMA AppendGenerated ==
    ASSUME NEW n \in Name, Generated(n), NEW s \in Suffix
    PROVE  Append(n, s) \in Name /\ Generated(Append(n, s))
<1>1. n \in Seq(Token) /\ Len(n) \in Nat /\ n # <<>> /\ s \in Token
  BY SuffixFacts DEF Generated, Name
<1>2. /\ Append(n, s) \in Name /\ Append(n, s) # <<>> /\ Append(n, s)[1] = n[1]
      /\ Len(Append(n, s)) = Len(n) + 1
  BY <1>1, AppendName
<1>3. /\ \A i \in 1..Len(n) : Append(n, s)[i] = n[i]
      /\ Append(n, s)[Len(n) + 1] = s
  BY <1>1, AppendProperties
<1>4. ASSUME NEW k \in 2..Len(Append(n, s))
      PROVE  Append(n, s)[k] \in Suffix
  <2>1. k \in 2..Len(n) \/ k = Len(n) + 1
    BY <1>1, <1>2, <1>4
  <2>2. k \in 2..Len(n) => k \in 1..Len(n) /\ n[k] \in Suffix
    BY <1>1 DEF Generated
  <2> QED
    BY <1>3, <2>1, <2>2
<1> QED
  BY <1>2, <1>4 DEF Generated

LEMMA TargetGenerated ==
    ASSUME HierarchyInv, pc = "process", NEW m \in todo
    PROVE  /\ Target(m) \in Name /\ Generated(Target(m))
           /\ Template(Target(m)) \in Name /\ Generated(Template(Target(m)))
<1>1. /\ m \in UserName /\ Target(m) \in Name
      /\ Target(m) = m \/ Target(m) = Append(m, ImplSuffix)
  BY TargetFacts
<1>2. m \in Name /\ Generated(m)
  BY <1>1, UserGenerated
<1>3. Generated(Target(m))
  BY <1>1, <1>2, AppendGenerated, SuffixFacts
<1> QED
  BY <1>1, <1>3, AppendGenerated, SuffixFacts DEF Template

LEMMA WorkerGenerated ==
    ASSUME HierarchyInv, NamesGenerated, pc = "full", path \in 1..3
    PROVE  WorkerName(path) \in Name /\ Generated(WorkerName(path))
<1>1. Template(wrapper) \in DOMAIN design
  BY DEF HierarchyInv, TemplateOK
<1>2. Template(wrapper) \in Name /\ Generated(Template(wrapper))
  BY <1>1, DesignNames DEF NamesGenerated
<1> QED
  BY <1>2, AppendGenerated, SuffixFacts DEF WorkerName

LEMMA UniqueGenerated ==
    ASSUME HierarchyInv, NamesGenerated, stack # <<>>, NEW c \in stack[1].cells, ~KeepsType(c)
    PROVE  UniqueName(c) \in Name /\ Generated(UniqueName(c))
<1>1. c.type \in DOMAIN design
  BY UniqueFacts
<1>2. c.type \in Name /\ Generated(c.type) /\ path \in 1..3
  BY <1>1, DesignNames, TopFacts DEF NamesGenerated
<1> QED
  BY <1>2, AppendGenerated, SuffixFacts DEF UniqueName

LEMMA InitGenerated == Init => NamesGenerated
BY UserGenerated DEF Init, NamesGenerated

(* Every step adds generated names, if any.                                *)
LEMMA NextGenerated == HierarchyInv /\ NamesGenerated /\ [Next]_vars => NamesGenerated'
<1> SUFFICES ASSUME HierarchyInv, NamesGenerated, [Next]_vars PROVE NamesGenerated'
  OBVIOUS
<1>1. ASSUME NEW n, DOMAIN design' \subseteq DOMAIN design \cup {n}, Generated(n)
      PROVE  NamesGenerated'
  BY <1>1 DEF NamesGenerated
<1>2. ASSUME DOMAIN design' \subseteq DOMAIN design
      PROVE  NamesGenerated'
  BY <1>2 DEF NamesGenerated
<1>3. CASE Mark \/ Synthesize
  BY <1>2, <1>3, MarkStep, SynthesizeStep
<1>4. CASE Plan \/ StartCleanup \/ Finish \/ Terminated \/ UNCHANGED vars
  BY <1>2, <1>4 DEF Plan, StartCleanup, Finish, Terminated, vars
<1>5. ASSUME NEW m \in todo, SkipModule(m) \/ ExpandLogic(m) \/ StartFull(m)
      PROVE  NamesGenerated'
  <2>1. CASE SkipModule(m)
    BY <1>2, <2>1 DEF SkipModule
  <2>2. CASE ExpandLogic(m)
    <3>1. pc = "process" /\ DOMAIN design' = DOMAIN design \cup {Target(m)}
      BY <2>2, ExpandLogicStep
    <3> QED
      BY <1>1, <3>1, TargetGenerated
  <2>3. CASE StartFull(m)
    <3>1. pc = "process" /\ DOMAIN design' = DOMAIN design \cup {Target(m), Template(Target(m))}
      BY <2>3, StartFullStep
    <3>2. Generated(Target(m)) /\ Generated(Template(Target(m)))
      BY <3>1, TargetGenerated
    <3> QED
      BY <3>1, <3>2 DEF NamesGenerated
  <2> QED
    BY <1>5, <2>1, <2>2, <2>3
<1>6. CASE CloneWorker
  <2>1. pc = "full" /\ path \in 1..3 /\ DOMAIN design' = DOMAIN design \cup {WorkerName(path)}
    BY <1>6, CloneWorkerStep
  <2> QED
    BY <1>1, <2>1, WorkerGenerated
<1>7. CASE VisitCell
  <2>1. PICK c \in stack[1].cells : LeaveCell(c) \/ ReuseClone(c) \/ CloneSubmodule(c)
    BY <1>7 DEF VisitCell
  <2>2. CASE LeaveCell(c)
    BY <1>2, <2>2 DEF LeaveCell
  <2>3. CASE ReuseClone(c)
    BY <1>2, <1>7, <2>3, ReuseCloneStep
  <2>4. CASE CloneSubmodule(c)
    <3>1. stack # <<>> /\ DOMAIN design' = DOMAIN design \cup {UniqueName(c)}
      BY <1>7, <2>4, CloneSubmoduleStep
    <3>2. ~KeepsType(c)
      BY <2>4 DEF CloneSubmodule
    <3> QED
      BY <1>1, <3>1, <3>2, UniqueGenerated
  <2> QED
    BY <2>1, <2>2, <2>3, <2>4
<1>8. CASE Return
  BY <1>2, <1>8, ReturnStep
<1>9. CASE FinishFull
  BY <1>2, <1>9, FinishFullStep
<1>10. ASSUME NEW n \in toRemove, CleanupOne(n)
       PROVE  NamesGenerated'
  BY <1>2, <1>10, CleanupOneStep
<1> QED
  BY <1>3, <1>4, <1>5, <1>6, <1>7, <1>8, <1>9, <1>10 DEF Next

(* Names that read alike are the same name.                                *)
LEMMA FoundTells ==
    ASSUME HierarchyInv, NamesGenerated, NEW sp \in DecodableSpellings,
           NEW n \in Name, Generated(n)
    PROVE  Found(sp, n) = {n} \cap (DOMAIN design \cup UserName)
<1>1. ASSUME NEW x \in DOMAIN design \cup UserName, Text(sp, x) = Text(sp, n)
      PROVE  x = n
  <2>1. x \in Name /\ Generated(x)
    BY DesignNames, UserGenerated DEF NamesGenerated
  <2> QED
    BY <1>1, <2>1, TextTells
<1> QED
  BY <1>1 DEF Found

(* NamesFresh follows.                                                     *)
LEMMA NamesFreshFromInv == HierarchyInv /\ IdentityInv /\ NamesGenerated => NamesFresh
<1> SUFFICES ASSUME HierarchyInv, IdentityInv, NamesGenerated, NEW sp \in DecodableSpellings
             PROVE  /\ pc = "process" =>
                         \A m \in todo :
                           (Ready(m) /\ ~Skipped(m)) =>
                             /\ Target(m) # m => Found(sp, Target(m)) = {}
                             /\ ConfigOf(m).mode = "Full" => Found(sp, Template(Target(m))) = {}
                    /\ (pc = "full" /\ stack = <<>> /\ path \in 1..3) =>
                         Found(sp, WorkerName(path)) = {}
                    /\ stack # <<>> =>
                         \A c \in stack[1].cells :
                           ~KeepsType(c) => Found(sp, UniqueName(c)) \subseteq {UniqueName(c)}
  BY DEF NamesFresh
<1>1. NamesNew
  BY NamesNewFromInv
<1>2. ASSUME pc = "process", NEW m \in todo, Ready(m), ~Skipped(m), Target(m) # m
      PROVE  Found(sp, Target(m)) = {}
  <2>1. Target(m) \notin DOMAIN design /\ Target(m) \notin UserName
    BY <1>2, FreshTarget DEF IdentityInv
  <2>2. Found(sp, Target(m)) = {Target(m)} \cap (DOMAIN design \cup UserName)
    BY <1>2, TargetGenerated, FoundTells
  <2> QED
    BY <2>1, <2>2
<1>3. ASSUME pc = "process", NEW m \in todo, Ready(m), ~Skipped(m), ConfigOf(m).mode = "Full"
      PROVE  Found(sp, Template(Target(m))) = {}
  <2>1. Template(Target(m)) \notin DOMAIN design
    BY <1>1, <1>3 DEF NamesNew
  <2>2. Template(Target(m)) \notin UserName
    BY <1>3, TargetFacts, TemplateFacts
  <2>3. Found(sp, Template(Target(m))) = {Template(Target(m))} \cap (DOMAIN design \cup UserName)
    BY <1>3, TargetGenerated, FoundTells
  <2> QED
    BY <2>1, <2>2, <2>3
<1>4. ASSUME pc = "full", stack = <<>>, path \in 1..3
      PROVE  Found(sp, WorkerName(path)) = {}
  <2>1. WorkerName(path) \notin DOMAIN design
    BY <1>1, <1>4 DEF NamesNew
  <2>2. WorkerName(path) \notin UserName
    <3>1. Template(wrapper) \in DOMAIN design
      BY <1>4 DEF HierarchyInv, TemplateOK
    <3>2. Template(wrapper) \in Name /\ Template(wrapper) # <<>>
      BY <3>1, DesignNames DEF NamesGenerated, Generated
    <3>3. PathSuffix[path] \in Suffix
      BY <1>4, SuffixFacts
    <3> QED
      BY <3>2, <3>3, GeneratedName DEF WorkerName
  <2>3. Found(sp, WorkerName(path)) = {WorkerName(path)} \cap (DOMAIN design \cup UserName)
    BY <1>4, WorkerGenerated, FoundTells
  <2> QED
    BY <2>1, <2>2, <2>3
<1>5. ASSUME stack # <<>>, NEW c \in stack[1].cells, ~KeepsType(c)
      PROVE  Found(sp, UniqueName(c)) \subseteq {UniqueName(c)}
  BY <1>5, UniqueGenerated, FoundTells
<1> QED
  BY <1>2, <1>3, <1>4, <1>5

-----------------------------------------------------------------------------
(* The user's design holds the user's names and nothing generated. *)
LEMMA InitIdentity == Init => IdentityInv
<1> SUFFICES ASSUME Init PROVE IdentityInv
  OBVIOUS
<1>1. /\ pc = "mark" /\ todo = {} /\ toRemove = {} /\ stack = <<>>
      /\ DOMAIN design = UserName /\ \A n \in UserName : design[n] = UserModule(n[1])
      /\ InputType(input)
  BY InputsAssumption DEF Init
<1>2. ASSUME NEW n \in UserName, design[n].bb
      PROVE  n \in input.bb /\ design[n].cells = {} /\ design[n].impl = NoName
  <2>1. n[1] \in User /\ n = <<n[1]>>
    BY DEF UserName
  <2>2. /\ design[n].bb = (<<n[1]>> \in input.bb)
        /\ design[n].cells = {UserCell(e) : e \in input.cells[n[1]]}
        /\ design[n].impl = NoName
    BY <1>1 DEF UserModule
  <2>3. n \in input.bb
    BY <1>2, <2>1, <2>2
  <2>4. input.cells[n[1]] = {}
    BY <1>1, <2>1, <2>3 DEF InputType
  <2> QED
    BY <2>2, <2>3, <2>4
<1>3. FreshOK
  BY <1>1 DEF FreshOK
<1>4. BlackboxOK
  BY <1>1, <1>2 DEF BlackboxOK
<1>5. WrapperOK
  BY <1>1 DEF WrapperOK
<1> QED
  BY <1>3, <1>4, <1>5 DEF IdentityInv

(* The steps up to the plan: the design only has the user's modules.       *)
LEMMA EarlyIdentity ==
    ASSUME HierarchyInv, IdentityInv, Mark \/ Synthesize \/ Plan
    PROVE  IdentityInv' /\ KeepsBlackboxes /\ KeepsOriginals
<1>1. /\ pc' \in {"synth", "plan", "process"} /\ DOMAIN design = UserName
      /\ UNCHANGED <<input, wrapper, path, stack, toRemove>>
      /\ DOMAIN design' = DOMAIN design
      /\ \A n \in DOMAIN design :
           /\ design'[n].ports = design[n].ports
           /\ design'[n].bb = design[n].bb
           /\ design'[n].impl = design[n].impl
           /\ design[n].cells = {} => design'[n].cells = {}
           /\ pc = "plan" => design'[n].cells = design[n].cells
  <2>1. CASE Mark
    BY <2>1, MarkStep
  <2>2. CASE Synthesize
    BY <2>2, SynthesizeStep
  <2>3. CASE Plan
    BY <2>3 DEF Plan, HierarchyInv, TodoOK
  <2> QED
    BY <2>1, <2>2, <2>3
<1>2. FreshOK'
  <2>1. \A n \in UserName : ~(Len(n) > 1)
    <3>1. \A n \in UserName : Len(n) = 1
      BY UserNameFacts
    <3>2. ~(1 > 1)
      OBVIOUS
    <3> QED
      BY <3>1, <3>2
  <2> QED
    BY <1>1, <2>1 DEF FreshOK
<1>3. BlackboxOK'
  BY <1>1 DEF IdentityInv, BlackboxOK
<1>4. WrapperOK'
  BY <1>1 DEF WrapperOK
<1>5. KeepsBlackboxes
  BY <1>1 DEF IdentityInv, BlackboxOK, KeepsBlackboxes
<1>6. KeepsOriginals
  <2>1. pc \in {"mark", "synth", "plan"}
    BY DEF Mark, Synthesize, Plan
  <2> QED
    BY <1>1, <2>1 DEF KeepsOriginals
<1> QED
  BY <1>2, <1>3, <1>4, <1>5, <1>6 DEF IdentityInv

(* Steps that do not touch the design.                                     *)
LEMMA IdleIdentity ==
    ASSUME HierarchyInv, IdentityInv,
           (\E m \in todo : SkipModule(m)) \/ StartCleanup \/ Finish \/ UNCHANGED vars
    PROVE  IdentityInv' /\ KeepsBlackboxes /\ KeepsOriginals
<1>1. /\ UNCHANGED <<input, design, wrapper, path, stack>>
      /\ todo' \subseteq todo
      /\ pc' = pc \/ pc' \in {"cleanup", "done"}
      /\ toRemove' = toRemove \/ toRemove' = {n \in DOMAIN design : design[n].impl # NoName}
  BY DEF SkipModule, StartCleanup, Finish, vars
<1>2. FreshOK'
  BY <1>1 DEF IdentityInv, FreshOK, WorkerName, Template
<1>3. BlackboxOK'
  <2>1. \A n \in DOMAIN design : design[n].impl # NoName => n \in UserName /\ ~design[n].bb
    BY DEF HierarchyInv, ImplOK, IdentityInv, BlackboxOK
  <2> QED
    BY <1>1, <2>1 DEF IdentityInv, BlackboxOK
<1>4. WrapperOK'
  BY <1>1 DEF IdentityInv, WrapperOK
<1>5. KeepsBlackboxes /\ KeepsOriginals
  BY <1>1 DEF IdentityInv, BlackboxOK, KeepsBlackboxes, KeepsOriginals
<1> QED
  BY <1>2, <1>3, <1>4, <1>5 DEF IdentityInv

(* LogicTMR: a clone under a new name, or a module that is neither a       *)
(* blackbox nor an original that has been cloned.                          *)
LEMMA ExpandLogicIdentity ==
    ASSUME HierarchyInv, IdentityInv, NEW m \in todo, ExpandLogic(m)
    PROVE  IdentityInv' /\ KeepsBlackboxes /\ KeepsOriginals
<1> DEFINE t == Target(m)
<1>1. /\ pc = "process" /\ todo' = todo \ {m} /\ stack = <<>>
      /\ UNCHANGED <<input, pc, ffSources, edges, wrapper, path, stack, toRemove>>
      /\ ConfigOf(m) = input.cfg[m] /\ ConfigOf(m).mode = "Logic" /\ ~design[m].bb
      /\ DOMAIN design' = DOMAIN design \cup {t}
      /\ design'[t].bb = design[m].bb
      /\ design'[t].impl = NoName
  BY ExpandLogicStep
<1>9. \A x \in DOMAIN design : x # t =>
         /\ design'[x].cells = design[x].cells
         /\ design'[x].ports = design[x].ports
         /\ design'[x].bb <=> design[x].bb
         /\ design'[x].impl = design[x].impl \/ x = m
  BY ExpandLogicOthers
<1>2. /\ Base(t) = m /\ m \in UserName
      /\ t # m => Len(t) > 1 /\ t[2] = ImplSuffix /\ t \notin UserName /\ t \notin DOMAIN design
  BY <1>1, FreshTarget DEF IdentityInv
<1>3. m \in DOMAIN design /\ design[m].impl = NoName
  BY DEF HierarchyInv, TodoOK, ImplOK
<1> HIDE DEF t
<1>4. FreshOK'
  BY <1>1, <1>2 DEF IdentityInv, FreshOK
<1>5. BlackboxOK'
  BY <1>1, <1>3, <1>9 DEF IdentityInv, BlackboxOK
<1>6. WrapperOK'
  BY <1>1 DEF WrapperOK
<1>7. KeepsBlackboxes
  BY <1>1, <1>2, <1>9 DEF IdentityInv, BlackboxOK, KeepsBlackboxes
<1>8. KeepsOriginals
  BY <1>1, <1>2, <1>3, <1>9 DEF KeepsOriginals
<1> QED
  BY <1>4, <1>5, <1>6, <1>7, <1>8 DEF IdentityInv

(* FullModuleTMR: the same, and a template; the workers to come are new.   *)
LEMMA StartFullIdentity ==
    ASSUME HierarchyInv, IdentityInv, NEW m \in todo, StartFull(m)
    PROVE  IdentityInv' /\ KeepsBlackboxes /\ KeepsOriginals
<1> DEFINE t == Target(m)
           k == Template(t)
<1>1. /\ pc = "process" /\ pc' = "full" /\ todo' = todo \ {m} /\ stack = <<>>
      /\ wrapper' = t /\ path' = 1
      /\ UNCHANGED <<input, ffSources, edges, stack, toRemove>>
      /\ ConfigOf(m) = input.cfg[m] /\ ConfigOf(m).mode = "Full" /\ ~design[m].bb
  BY StartFullStep
<1>11. /\ k \notin DOMAIN design /\ k # t /\ k \in Name
       /\ k \notin UserName
       /\ DOMAIN design' = DOMAIN design \cup {t, k}
  BY StartFullStep
<1>12. ~design'[t].bb /\ design'[t].impl = NoName /\ ~design'[k].bb
  BY StartFullStep
<1>13. \A x \in DOMAIN design : x # t =>
          /\ design'[x].cells = design[x].cells
          /\ design'[x].ports = design[x].ports
          /\ design'[x].bb <=> design[x].bb
          /\ design'[x].impl = design[x].impl \/ x = m
  BY StartFullOthers
<1>2. /\ Base(t) = m /\ m \in UserName
      /\ t # m => Len(t) > 1 /\ t[2] = ImplSuffix /\ t \notin UserName /\ t \notin DOMAIN design
      /\ Base(k) = m
      /\ \A s \in Token : Append(k, s) \notin DOMAIN design
      /\ t \in Name /\ t # <<>>
  BY <1>1, FreshTarget DEF IdentityInv
<1>3. m \in DOMAIN design /\ design[m].impl = NoName
  BY DEF HierarchyInv, TodoOK, ImplOK
<1>4. \A i \in 1..3 : WorkerName(i)' = Append(k, PathSuffix[i])
  BY <1>1 DEF WorkerName, Template
<1>5. \A i \in 1..3 : Append(k, PathSuffix[i]) \notin DOMAIN design'
  <2> TAKE i \in 1..3
  <2>1. PathSuffix[i] \in PathSuffixes /\ PathSuffix[i] \in Token
    BY SuffixFacts
  <2>2. /\ LastToken(Append(k, PathSuffix[i])) = PathSuffix[i]
        /\ Append(k, PathSuffix[i]) # k /\ Append(k, PathSuffix[i]) # t
    <3>1. k # <<>> /\ LastToken(k) = WorkerSuffix /\ Len(k) = Len(t) + 1 /\ Len(t) \in Nat
      BY <1>2, TemplateFacts, AppendName, SuffixFacts DEF Template, Name
    <3>2. /\ LastToken(Append(k, PathSuffix[i])) = PathSuffix[i]
          /\ Len(Append(k, PathSuffix[i])) = Len(k) + 1
      BY <1>11, <2>1, AppendName
    <3> QED
      BY <3>1, <3>2
  <2> QED
    BY <1>2, <1>11, <2>1, <2>2
<1> HIDE DEF t, k
<1>6. FreshOK'
  <2>1. \A n \in DOMAIN design' :
           (Len(n) > 1 /\ n[2] \in {ImplSuffix, WorkerSuffix}) => Base(n) \notin todo'
    BY <1>1, <1>2, <1>11 DEF IdentityInv, FreshOK
  <2> QED
    BY <1>1, <1>4, <1>5, <1>11, <2>1 DEF FreshOK
<1>7. BlackboxOK'
  BY <1>1, <1>3, <1>11, <1>12, <1>13 DEF IdentityInv, BlackboxOK
<1>8. WrapperOK'
  BY <1>1, <1>2, <1>3, <1>11, <1>12, <1>13 DEF WrapperOK
<1>9. KeepsBlackboxes
  BY <1>1, <1>2, <1>11, <1>12, <1>13 DEF IdentityInv, BlackboxOK, KeepsBlackboxes
<1>10. KeepsOriginals
  BY <1>1, <1>2, <1>3, <1>11, <1>12, <1>13 DEF KeepsOriginals
<1> QED
  BY <1>6, <1>7, <1>8, <1>9, <1>10 DEF IdentityInv

-----------------------------------------------------------------------------
(* Inside fullModuleTmrExpansion.                                          *)

(* A clone that the recursion adds, seen from the modules there are.       *)
LEMMA AddCloneIdentity ==
    ASSUME HierarchyInv, IdentityInv, pc = "full",
           NEW src \in DOMAIN design, src # <<>>, src \in Name,
           NEW s \in PathSuffixes,
           DOMAIN design' = DOMAIN design \cup {Append(src, s)},
           Append(src, s) \notin UserName, Append(src, s) # wrapper,
           design'[Append(src, s)].bb = design[src].bb,
           ~design[src].bb,
           \A x \in DOMAIN design : x # Append(src, s) => design'[x] = design[x],
           UNCHANGED <<input, pc, todo, wrapper, path, toRemove>>
    PROVE  /\ \A n \in DOMAIN design' :
                (Len(n) > 1 /\ n[2] \in {ImplSuffix, WorkerSuffix}) => Base(n) \notin todo'
           /\ BlackboxOK' /\ WrapperOK' /\ KeepsBlackboxes /\ KeepsOriginals
<1> DEFINE un == Append(src, s)
<1>1. s \in Token /\ s \notin {ImplSuffix, WorkerSuffix}
  BY SuffixFacts
<1>2. /\ Base(un) = Base(src)
      /\ Len(src) = 1 \/ Len(src) > 1
      /\ Len(src) = 1 => un[2] = s
      /\ Len(src) > 1 => un[2] = src[2]
  BY <1>1, SecondToken
<1>3. \A n \in DOMAIN design :
         (Len(n) > 1 /\ n[2] \in {ImplSuffix, WorkerSuffix}) => Base(n) \notin todo
  BY DEF IdentityInv, FreshOK
<1>4. wrapper \in DOMAIN design
  BY FullFacts
<1> HIDE DEF un
<1>5. \A n \in DOMAIN design' :
         (Len(n) > 1 /\ n[2] \in {ImplSuffix, WorkerSuffix}) => Base(n) \notin todo'
  BY <1>1, <1>2, <1>3 DEF un
<1>6. un \notin UserName /\ \A n \in DOMAIN design : design[n].bb => n \in UserName
  BY DEF IdentityInv, BlackboxOK, HierarchyInv, TypeOK, InputType, un
<1>7. BlackboxOK'
  BY <1>4, <1>6 DEF IdentityInv, BlackboxOK, un
<1>8. WrapperOK'
  BY <1>4 DEF IdentityInv, WrapperOK, un
<1>9. KeepsBlackboxes
  BY <1>6 DEF IdentityInv, BlackboxOK, KeepsBlackboxes, un
<1>10. KeepsOriginals
  BY <1>6 DEF KeepsOriginals, un
<1> QED
  BY <1>5, <1>7, <1>8, <1>9, <1>10

(* The template gets a name no module has. *)
LEMMA CloneWorkerIdentity ==
    ASSUME HierarchyInv, IdentityInv, CloneWorker
    PROVE  IdentityInv' /\ KeepsBlackboxes /\ KeepsOriginals
<1> DEFINE t == Template(wrapper)
           un == WorkerName(path)
<1>1. /\ pc = "full" /\ path \in 1..3 /\ stack = <<>>
      /\ UNCHANGED <<input, pc, ffSources, edges, todo, wrapper, path, toRemove>>
      /\ t \in DOMAIN design /\ t \in Name /\ t # <<>> /\ t \notin UserName
      /\ un = Append(t, PathSuffix[path]) /\ PathSuffix[path] \in PathSuffixes
      /\ un \notin UserName /\ un # wrapper
      /\ DOMAIN design' = DOMAIN design \cup {un}
      /\ design'[un].bb = design[t].bb
      /\ \A x \in DOMAIN design : x # un => design'[x] = design[x]
  BY CloneWorkerStep
<1>2. ~design[t].bb
  BY <1>1 DEF IdentityInv, BlackboxOK, HierarchyInv, TypeOK, InputType
<1>3. \A i \in 1..3 : /\ WorkerName(i) = Append(t, PathSuffix[i])
                     /\ WorkerName(i)' = WorkerName(i)
                     /\ PathSuffix[i] \in Token
  BY <1>1, SuffixFacts DEF WorkerName, Template
<1>4. \A i \in 1..3 : WorkerName(i) = un => i = path
  BY <1>1, <1>3, SameClone, PathsDiffer
<1>5. \A i \in path..3 : i > path => WorkerName(i) \notin DOMAIN design
  BY <1>1 DEF IdentityInv, FreshOK
<1>9. stack' # <<>>
  BY DEF CloneWorker
<1> HIDE DEF t, un
<1>6. /\ \A n \in DOMAIN design' :
           (Len(n) > 1 /\ n[2] \in {ImplSuffix, WorkerSuffix}) => Base(n) \notin todo'
      /\ BlackboxOK' /\ WrapperOK' /\ KeepsBlackboxes /\ KeepsOriginals
  BY <1>1, <1>2, AddCloneIdentity
<1>7. ASSUME NEW i \in path'..3, i > path' \/ stack' = <<>>
      PROVE  WorkerName(i)' \notin DOMAIN design'
  <2>1. i \in 1..3 /\ i \in path..3 /\ i > path
    BY <1>1, <1>7, <1>9
  <2>2. WorkerName(i)' = WorkerName(i) /\ WorkerName(i) # un /\ WorkerName(i) \notin DOMAIN design
    BY <1>3, <1>4, <1>5, <2>1
  <2> QED
    BY <1>1, <2>2
<1>8. FreshOK'
  BY <1>6, <1>7 DEF FreshOK
<1> QED
  BY <1>6, <1>8 DEF IdentityInv

(* The clone of a submodule gets the path it is reached by as its name. *)
LEMMA CloneSubmoduleIdentity ==
    ASSUME HierarchyInv, IdentityInv, VisitCell, NEW c \in stack[1].cells, CloneSubmodule(c)
    PROVE  IdentityInv' /\ KeepsBlackboxes /\ KeepsOriginals
<1> DEFINE un == UniqueName(c)
<1>1. /\ pc = "full" /\ path \in 1..3 /\ stack # <<>>
      /\ UNCHANGED <<input, pc, ffSources, edges, todo, wrapper, path, toRemove>>
      /\ c.type \in DOMAIN design /\ c.type \in Name /\ c.type # <<>>
      /\ c.type # Template(wrapper)
      /\ ~design[c.type].bb
      /\ PathSuffix[path] \in PathSuffixes
      /\ un = Append(c.type, PathSuffix[path])
      /\ un \notin UserName /\ un \notin DOMAIN design
      /\ DOMAIN design' = DOMAIN design \cup {un}
      /\ design'[un].bb = design[c.type].bb
      /\ \A x \in DOMAIN design : x # un => design'[x] = design[x]
      /\ Len(stack') = Len(stack) + 1 /\ Len(stack) \in Nat
  BY CloneSubmoduleStep
<1>2. wrapper \in DOMAIN design /\ Template(wrapper) \in Name
  BY <1>1, FullFacts, TemplateFacts
<1>3. \A i \in 1..3 : /\ WorkerName(i) = Append(Template(wrapper), PathSuffix[i])
                     /\ WorkerName(i)' = WorkerName(i)
                     /\ PathSuffix[i] \in Token
  BY <1>1, SuffixFacts DEF WorkerName, Template
<1>4. ASSUME NEW i \in 1..3 PROVE WorkerName(i) # un
  <2> DEFINE t == Template(wrapper)
             s == PathSuffix[i]
             u == PathSuffix[path]
  <2>1. s \in Token /\ u \in Token /\ t \in Name /\ c.type \in Name /\ c.type # t
    BY <1>1, <1>2, <1>3
  <2>2. WorkerName(i) = Append(t, s) /\ un = Append(c.type, u)
    BY <1>1, <1>3
  <2> HIDE DEF t, s, u, un
  <2>3. Append(t, s) = Append(c.type, u) => t = c.type
    BY <2>1, SameClone
  <2> QED
    BY <2>1, <2>2, <2>3
<1>5. \A i \in path..3 : i > path => WorkerName(i) \notin DOMAIN design
  BY <1>1 DEF IdentityInv, FreshOK
<1>6. stack' # <<>>
  BY <1>1
<1> HIDE DEF un
<1>7. un # wrapper
  BY <1>1, <1>2
<1>8. /\ \A n \in DOMAIN design' :
           (Len(n) > 1 /\ n[2] \in {ImplSuffix, WorkerSuffix}) => Base(n) \notin todo'
      /\ BlackboxOK' /\ WrapperOK' /\ KeepsBlackboxes /\ KeepsOriginals
  BY <1>1, <1>7, AddCloneIdentity
<1>9. \A i \in path'..3 : (i > path' \/ stack' = <<>>) => WorkerName(i)' \notin DOMAIN design'
  BY <1>1, <1>3, <1>4, <1>5, <1>6
<1>10. FreshOK'
  BY <1>8, <1>9 DEF FreshOK
<1> QED
  BY <1>8, <1>10 DEF IdentityInv

(* The steps that only retype a cell, or visit it.                         *)
LEMMA RetypeIdentity ==
    ASSUME HierarchyInv, IdentityInv, pc = "full",
           NEW o \in DOMAIN design, o = wrapper \/ o \notin UserName,
           DOMAIN design' = DOMAIN design,
           \A x \in DOMAIN design : x # o => design'[x] = design[x],
           design'[o].bb = design[o].bb, design'[o].impl = design[o].impl,
           design'[o].ports = design[o].ports,
           UNCHANGED <<input, pc, todo, wrapper, toRemove>>,
           \A i \in path'..3 : (i > path' \/ stack' = <<>>) =>
                i \in path..3 /\ (i > path \/ stack = <<>>)
    PROVE  IdentityInv' /\ KeepsBlackboxes /\ KeepsOriginals
<1>1. ~design[o].bb
  BY DEF IdentityInv, BlackboxOK, HierarchyInv, TypeOK, InputType
<1>2. wrapper \in DOMAIN design /\ \A i \in 1..3 : WorkerName(i)' = WorkerName(i)
  BY FullFacts DEF WorkerName, Template
<1>3. path \in 1..4
  BY DEF HierarchyInv, StackOK
<1>4. FreshOK'
  <2>1. \A n \in DOMAIN design' :
           (Len(n) > 1 /\ n[2] \in {ImplSuffix, WorkerSuffix}) => Base(n) \notin todo'
    BY DEF IdentityInv, FreshOK
  <2>2. \A i \in path'..3 : (i > path' \/ stack' = <<>>) => WorkerName(i)' \notin DOMAIN design'
    BY <1>2, <1>3 DEF IdentityInv, FreshOK
  <2> QED
    BY <2>1, <2>2 DEF FreshOK
<1>5. BlackboxOK'
  BY <1>1, <1>2 DEF IdentityInv, BlackboxOK
<1>6. WrapperOK'
  BY <1>2 DEF IdentityInv, WrapperOK
<1>7. KeepsBlackboxes
  BY <1>1 DEF IdentityInv, BlackboxOK, KeepsBlackboxes
<1>8. KeepsOriginals
  BY DEF KeepsOriginals, IdentityInv, WrapperOK
<1> QED
  BY <1>4, <1>5, <1>6, <1>7, <1>8 DEF IdentityInv

(* A cell the recursion leaves alone changes no module. *)
LEMMA LeaveCellIdentity ==
    ASSUME HierarchyInv, IdentityInv, VisitCell, NEW c \in stack[1].cells, LeaveCell(c)
    PROVE  IdentityInv' /\ KeepsBlackboxes /\ KeepsOriginals
<1>1. /\ pc = "full" /\ stack # <<>> /\ stack' = Visited(c)
      /\ UNCHANGED <<input, pc, design, todo, wrapper, path, toRemove>>
  BY DEF VisitCell, LeaveCell
<1>2. path \in 1..3 /\ wrapper \in DOMAIN design
  BY <1>1, TopFacts, FullFacts
<1>3. stack' # <<>>
  BY <1>1, TopFacts, VisitedFacts
<1> QED
  BY <1>1, <1>2, <1>3, RetypeIdentity

(* Only cells of modules that were generated in this expansion are         *)
(* retyped.                                                                *)
LEMMA ReuseCloneIdentity ==
    ASSUME HierarchyInv, IdentityInv, VisitCell, NEW c \in stack[1].cells, ReuseClone(c)
    PROVE  IdentityInv' /\ KeepsBlackboxes /\ KeepsOriginals
<1> DEFINE o == stack[1].mod
<1>1. /\ pc = "full" /\ path \in 1..3 /\ stack # <<>>
      /\ UNCHANGED <<input, pc, ffSources, edges, todo, wrapper, path, toRemove>>
      /\ o \in DOMAIN design /\ o \notin UserName
      /\ DOMAIN design' = DOMAIN design
      /\ \A x \in DOMAIN design : x # o => design'[x] = design[x]
      /\ design'[o].ports = design[o].ports
      /\ design'[o].bb = design[o].bb
      /\ design'[o].impl = design[o].impl
      /\ Len(stack') = Len(stack) /\ stack' \in Seq(Frame)
  BY ReuseCloneStep
<1>2. stack' # <<>>
  BY <1>1, TopFacts
<1> HIDE DEF o
<1> QED
  BY <1>1, <1>2, RetypeIdentity

(* Leaving a submodule changes no module. *)
LEMMA ReturnIdentity ==
    ASSUME HierarchyInv, IdentityInv, Return
    PROVE  IdentityInv' /\ KeepsBlackboxes /\ KeepsOriginals
<1> DEFINE o == stack[1].owner
<1>1. /\ pc = "full" /\ path \in 1..3 /\ stack # <<>>
      /\ UNCHANGED <<input, pc, ffSources, edges, todo, wrapper, toRemove>>
      /\ o \in DOMAIN design /\ (o = wrapper \/ o \notin UserName)
      /\ DOMAIN design' = DOMAIN design
      /\ \A x \in DOMAIN design : x # o => design'[x] = design[x]
      /\ design'[o].ports = design[o].ports
      /\ design'[o].bb = design[o].bb
      /\ design'[o].impl = design[o].impl
      /\ path' = IF Len(stack) = 1 THEN path + 1 ELSE path
      /\ stack' = <<>> <=> Len(stack) = 1
  BY ReturnStep
<1>2. \A i \in path'..3 : (i > path' \/ stack' = <<>>) => i \in path..3 /\ i > path
  BY <1>1
<1> HIDE DEF o
<1> QED
  BY <1>1, <1>2, RetypeIdentity

(* The wrapper takes the place of its original, and the template goes. *)
LEMMA FinishFullIdentity ==
    ASSUME HierarchyInv, IdentityInv, FinishFull
    PROVE  IdentityInv' /\ KeepsBlackboxes /\ KeepsOriginals
<1>1. /\ pc = "full" /\ pc' = "process"
      /\ UNCHANGED <<input, ffSources, edges, todo, stack, toRemove>>
      /\ Template(wrapper) \notin UserName
      /\ DOMAIN design' = DOMAIN design \ {Template(wrapper)}
      /\ \A x \in DOMAIN design' : x \in DOMAIN design /\ design'[x] = design[x]
  BY FinishFullStep
<1>2. \A n \in DOMAIN design : design[n].bb => n \in UserName
  BY DEF IdentityInv, BlackboxOK, HierarchyInv, TypeOK, InputType
<1>3. FreshOK'
  BY <1>1 DEF IdentityInv, FreshOK
<1>4. BlackboxOK' /\ WrapperOK'
  BY <1>1 DEF IdentityInv, BlackboxOK, WrapperOK
<1>5. KeepsBlackboxes /\ KeepsOriginals
  BY <1>1, <1>2 DEF IdentityInv, BlackboxOK, KeepsBlackboxes, KeepsOriginals
<1> QED
  BY <1>3, <1>4, <1>5 DEF IdentityInv

(* The cleanup loop removes originals that have an implementation. *)
LEMMA CleanupOneIdentity ==
    ASSUME HierarchyInv, IdentityInv, NEW n \in toRemove, CleanupOne(n)
    PROVE  IdentityInv' /\ KeepsBlackboxes /\ KeepsOriginals
<1>1. /\ pc = "cleanup" /\ todo = {}
      /\ toRemove' = toRemove \ {n}
      /\ UNCHANGED <<input, pc, ffSources, edges, todo, wrapper, path, stack>>
      /\ DOMAIN design \ {n} \subseteq DOMAIN design'
      /\ \A x \in DOMAIN design' : x \in DOMAIN design /\ design'[x] = design[x]
  BY CleanupOneStep
<1>2. n \in DOMAIN design => ~design[n].bb
  BY DEF IdentityInv, BlackboxOK
<1>3. FreshOK'
  BY <1>1 DEF FreshOK
<1>4. BlackboxOK' /\ WrapperOK'
  BY <1>1 DEF IdentityInv, BlackboxOK, WrapperOK
<1>5. KeepsBlackboxes /\ KeepsOriginals
  BY <1>1, <1>2 DEF IdentityInv, BlackboxOK, KeepsBlackboxes, KeepsOriginals
<1> QED
  BY <1>3, <1>4, <1>5 DEF IdentityInv

-----------------------------------------------------------------------------
(* Every step keeps the invariant, the blackboxes and the originals.       *)
LEMMA NextIdentity ==
    ASSUME HierarchyInv, IdentityInv, [Next]_vars
    PROVE  IdentityInv' /\ KeepsBlackboxes /\ KeepsOriginals
<1>1. CASE Mark \/ Synthesize \/ Plan
  BY <1>1, EarlyIdentity
<1>2. ASSUME NEW m \in todo, SkipModule(m) \/ ExpandLogic(m) \/ StartFull(m)
      PROVE  IdentityInv' /\ KeepsBlackboxes /\ KeepsOriginals
  BY <1>2, IdleIdentity, ExpandLogicIdentity, StartFullIdentity
<1>3. CASE CloneWorker
  BY <1>3, CloneWorkerIdentity
<1>4. CASE VisitCell
  <2>1. PICK c \in stack[1].cells : LeaveCell(c) \/ ReuseClone(c) \/ CloneSubmodule(c)
    BY <1>4 DEF VisitCell
  <2> QED
    BY <1>4, <2>1, LeaveCellIdentity, ReuseCloneIdentity, CloneSubmoduleIdentity
<1>5. CASE Return
  BY <1>5, ReturnIdentity
<1>6. CASE FinishFull
  BY <1>6, FinishFullIdentity
<1>7. ASSUME NEW n \in toRemove, CleanupOne(n)
      PROVE  IdentityInv' /\ KeepsBlackboxes /\ KeepsOriginals
  BY <1>7, CleanupOneIdentity
<1>8. CASE StartCleanup \/ Finish \/ Terminated \/ UNCHANGED vars
  BY <1>8, IdleIdentity DEF Terminated
<1> QED
  BY <1>1, <1>2, <1>3, <1>4, <1>5, <1>6, <1>7, <1>8 DEF Next

(* The inductive invariant holds in every state of the two passes.         *)
THEOREM IdentityInvariant == Spec => [](HierarchyInv /\ IdentityInv)
<1>1. Init => IdentityInv
  BY InitIdentity
<1>2. HierarchyInv /\ IdentityInv /\ [Next]_vars => IdentityInv'
  BY NextIdentity
<1> QED
  BY <1>1, <1>2, HierarchyInvariant, PTL DEF Spec

(* The names of all modules are generated ones in every state.             *)
LEMMA GeneratedInvariant == Spec => []NamesGenerated
<1>1. Init => NamesGenerated
  BY InitGenerated
<1>2. HierarchyInv /\ NamesGenerated /\ [Next]_vars => NamesGenerated'
  BY NextGenerated
<1> QED
  BY <1>1, <1>2, HierarchyInvariant, PTL DEF Spec

(* Whatever texts the user's modules have and the suffixes are configured  *)
(* to, as long as they can be told apart: nothing reads like a name that a *)
(* pass gives without looking first - the _tmrx_impl clone, the            *)
(* _tmrx_worker template, the workers -, so that no assertion of           *)
(* RTLIL::Design fails, and what the recursion finds under the name of the *)
(* clone of a submodule for a path is that clone.                          *)
THEOREM NamesFreshHolds == Spec => []NamesFresh
<1>1. HierarchyInv /\ IdentityInv /\ NamesGenerated => NamesFresh
  BY NamesFreshFromInv
<1> QED
  BY <1>1, IdentityInvariant, GeneratedInvariant, PTL

(* No step changes, removes or clones a blackbox.                          *)
THEOREM BlackboxesUntouchedHolds == Spec => BlackboxesUntouched
<1>1. HierarchyInv /\ IdentityInv /\ [Next]_vars => [KeepsBlackboxes]_vars
  BY NextIdentity
<1> QED
  BY <1>1, IdentityInvariant, PTL DEF Spec, BlackboxesUntouched

(* Once tmrx runs, no step changes the contents or the interface of an     *)
(* original that has been cloned or of a module in mode None.              *)
THEOREM OriginalsUntouchedHolds == Spec => OriginalsUntouched
<1>1. HierarchyInv /\ IdentityInv /\ [Next]_vars => [KeepsOriginals]_vars
  BY NextIdentity
<1> QED
  BY <1>1, IdentityInvariant, PTL DEF Spec, OriginalsUntouched
=============================================================================
