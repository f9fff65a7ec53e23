----------------------- MODULE BackpressureLedgerProofs -----------------------
(***************************************************************************)
(* Theorems about BackpressureLedger, for every finite set of peers, all   *)
(* watermarks and every bound: a pane paused below the low watermark is    *)
(* being continued, by one Continue and no more, and what the ledger       *)
(* believes of tmux is true once tmux has answered.                        *)
(***************************************************************************)
EXTENDS BackpressureLedger, FiniteSetTheorems, SequenceTheorems, TLAPS

(* Every nonempty set of subsets of a finite set has a minimal element: what *)
(* induction over finite sets comes down to.                               *)
LEMMA MinimalSubset ==
  ASSUME NEW D, IsFiniteSet(D), NEW T \in SUBSET SUBSET D, T # {}
  PROVE  \E s \in T : \A t \in T : ~(t \subseteq s /\ t # s)
<1>1. IsWellFoundedOn(StrictSubsetOrdering(D), SUBSET D)
  BY FS_StrictSubsetOrderingWellFounded, FS_FiniteSubsetsOfFinite
<1>2. PICK s \in T : \A t \in T : ~(<<t, s>> \in StrictSubsetOrdering(D))
  BY <1>1, WFMin
<1> QED BY <1>2 DEF StrictSubsetOrdering

LEMMA Least ==
  ASSUME NEW N \in Nat, NEW T \in SUBSET (0..N), T # {}
  PROVE  \E n \in T : \A m \in T : n <= m
<1> DEFINE S == {s \in SUBSET (0..N) : \E n \in T : s = 0..n}
<1>1. IsFiniteSet(0..N) BY FS_Interval
<1>2. \A n \in T : 0..n \in S
  <2>1. ASSUME NEW n \in T PROVE 0..n \subseteq 0..N BY <2>1
  <2> QED BY <2>1
<1>3. S # {} BY <1>2
<1>4. PICK s \in S : \A t \in S : ~(t \subseteq s /\ t # s)
  <2> DEFINE D == 0..N
  <2>1. S \in SUBSET SUBSET D /\ IsFiniteSet(D) BY <1>1
  <2> HIDE DEF S, D
  <2> QED BY <1>3, <2>1, MinimalSubset
<1>5. PICK n \in T : s = 0..n BY <1>4
<1>6. ASSUME NEW m \in T, m < n PROVE FALSE
  <2>1. m \in Nat /\ n \in Nat BY <1>6
  <2>2. 0..m \subseteq 0..n BY <1>6, <2>1
  <2>3. n \in 0..n /\ n \notin 0..m BY <1>6, <2>1
  <2> HIDE DEF S
  <2> QED BY <1>2, <1>4, <1>5, <2>2, <2>3
<1> QED BY <1>6

(* What holds of 0, and of n + 1 when it holds of n, holds up to N.        *)
LEMMA RangeInduction ==
  ASSUME NEW N \in Nat, NEW Good \in SUBSET (0..N), 0 \in Good,
         \A n \in 0..N : n # N /\ n \in Good => n + 1 \in Good
  PROVE  N \in Good
<1> DEFINE Bad == (0..N) \ Good
<1>1. SUFFICES ASSUME Bad # {} PROVE FALSE OBVIOUS
<1>2. PICK n \in Bad : \A m \in Bad : n <= m
  <2>1. Bad \in SUBSET (0..N) OBVIOUS
  <2> HIDE DEF Bad
  <2> QED BY <1>1, <2>1, Least
<1>3. n # 0 /\ n \in Nat OBVIOUS
<1>4. n - 1 \in 0..N /\ n - 1 # N /\ n - 1 + 1 = n /\ n - 1 < n BY <1>3
<1>5. n - 1 \notin Bad BY <1>2, <1>3, <1>4
<1> QED BY <1>4, <1>5

(* The sum of the community module takes out the elements of its domain in  *)
(* an order that depends on what is left only.                             *)
First(s) == CHOOSE x \in s : TRUE
Sums(f, g) ==
  [s \in SUBSET DOMAIN f |-> IF s = {} THEN 0 ELSE f[First(s)] + g[s \ {First(s)}]]

LEMMA FirstIn == ASSUME NEW s, s # {} PROVE First(s) \in s
BY DEF First

LEMMA SumIsIteration ==
  ASSUME NEW f
  PROVE  SumFunction(f) = (CHOOSE g : g = Sums(f, g))[DOMAIN f]
BY DEF SumFunction, SumFunctionOnSet, FoldFunctionOnSet, MapThenFoldSet, Sums, First

LEMMA IterationExists ==
  ASSUME NEW D, IsFiniteSet(D), NEW f \in [D -> Nat]
  PROVE  \E g : g = Sums(f, g)
<1> DEFINE Small(n) == {s \in SUBSET D : Cardinality(s) <= n}
           Good(n) == \E g \in [Small(n) -> Nat] : \A s \in Small(n) :
                        g[s] = IF s = {} THEN 0 ELSE f[First(s)] + g[s \ {First(s)}]
           N == Cardinality(D)
<1>0. N \in Nat /\ \A s \in SUBSET D : IsFiniteSet(s) /\ Cardinality(s) \in 0..N
  BY FS_CardinalityType, FS_Subset
<1>1. Good(0)
  <2>1. \A s \in Small(0) : s = {} BY <1>0, FS_EmptySet
  <2>2. [s \in Small(0) |-> 0] \in [Small(0) -> Nat] OBVIOUS
  <2> QED BY <2>1, <2>2
<1>2. ASSUME NEW n \in Nat, Good(n) PROVE Good(n + 1)
  <2>1. PICK g \in [Small(n) -> Nat] : \A s \in Small(n) :
          g[s] = IF s = {} THEN 0 ELSE f[First(s)] + g[s \ {First(s)}]
    BY <1>2
  <2> DEFINE h == [s \in Small(n + 1) |-> IF s \in Small(n) THEN g[s]
                                            ELSE f[First(s)] + g[s \ {First(s)}]]
  <2>2. ASSUME NEW s \in Small(n + 1), s # {}
        PROVE  /\ First(s) \in D
               /\ s \ {First(s)} \in Small(n) /\ s \ {First(s)} \in Small(n + 1)
    <3>1. First(s) \in s BY <2>2, FirstIn
    <3>2. Cardinality(s \ {First(s)}) = Cardinality(s) - 1 BY <1>0, <3>1, FS_RemoveElement
    <3> QED BY <1>0, <3>1, <3>2
  <2>3. ASSUME NEW s \in Small(n + 1), s \notin Small(n) PROVE s # {}
    BY <2>3, <1>0, FS_EmptySet
  <2>4. h \in [Small(n + 1) -> Nat]
    <3>1. ASSUME NEW s \in Small(n + 1) PROVE h[s] \in Nat BY <2>2, <2>3
    <3> QED BY <3>1
  <2>5. ASSUME NEW s \in Small(n + 1)
        PROVE  h[s] = IF s = {} THEN 0 ELSE f[First(s)] + h[s \ {First(s)}]
    BY <2>1, <2>2, <2>3
  <2> HIDE DEF h
  <2> QED BY <2>4, <2>5
<1>3. Good(N)
  <2> DEFINE Levels == {n \in 0..N : Good(n)}
  <2> HIDE DEF Good
  <2>1. 0 \in Levels /\ Levels \in SUBSET (0..N) BY <1>0, <1>1
  <2>2. ASSUME NEW n \in 0..N, n # N, n \in Levels PROVE n + 1 \in Levels
    <3>1. n \in Nat /\ n + 1 \in 0..N BY <1>0, <2>2
    <3> QED BY <1>2, <2>2, <3>1
  <2>3. N \in Levels
    <3> HIDE DEF Levels, N
    <3> QED BY <1>0, <2>1, <2>2, RangeInduction
  <2> QED BY <2>3
<1>4. Small(N) = SUBSET D BY <1>0
<1>5. PICK g \in [SUBSET D -> Nat] : \A s \in SUBSET D :
        g[s] = IF s = {} THEN 0 ELSE f[First(s)] + g[s \ {First(s)}]
  BY <1>3, <1>4
<1>6. g = Sums(f, g) BY <1>5 DEF Sums
<1> QED BY <1>6

(* g[s] is the sum of f over s.                                            *)
Adds(g, f, D) ==
  /\ SumFunction(f) = g[D] /\ g[{}] = 0
  /\ \A s \in SUBSET D : s # {} =>
       First(s) \in s /\ g[s] = f[First(s)] + g[s \ {First(s)}]

LEMMA SumEquation ==
  ASSUME NEW D, IsFiniteSet(D), NEW f \in [D -> Nat]
  PROVE  \E g : Adds(g, f, D)
<1> DEFINE g == CHOOSE h : h = Sums(f, h)
<1>1. g = Sums(f, g) BY IterationExists
<1>2. SumFunction(f) = g[D] BY SumIsIteration
<1> HIDE DEF g
<1>3. \A s \in SUBSET D : Sums(f, g)[s] = IF s = {} THEN 0 ELSE f[First(s)] + g[s \ {First(s)}]
  BY DEF Sums
<1>4. \A s \in SUBSET D : g[s] = IF s = {} THEN 0 ELSE f[First(s)] + g[s \ {First(s)}]
  BY <1>1, <1>3
<1>5. g[{}] = 0 BY <1>4
<1>6. \A s \in SUBSET D : s # {} => First(s) \in s BY FirstIn
<1> QED BY <1>2, <1>4, <1>5, <1>6 DEF Adds

(* What holds of the empty set, and of a set when it holds of the set       *)
(* without its first element, holds of all of them.                        *)
LEMMA SubsetInduction ==
  ASSUME NEW D, IsFiniteSet(D), NEW Good \in SUBSET SUBSET D, {} \in Good,
         \A s \in SUBSET D : s # {} /\ s \ {First(s)} \in Good => s \in Good
  PROVE  D \in Good
<1>1. SUFFICES ASSUME D \notin Good PROVE FALSE OBVIOUS
<1> DEFINE Bad == (SUBSET D) \ Good
<1>2. PICK s \in Bad : \A t \in Bad : ~(t \subseteq s /\ t # s)
  <2>1. Bad \in SUBSET SUBSET D /\ Bad # {} BY <1>1
  <2> HIDE DEF Bad
  <2> QED BY <2>1, MinimalSubset
<1>3. s # {} BY <1>2
<1>4. First(s) \in s BY <1>3, FirstIn
<1>5. s \ {First(s)} \in SUBSET D /\ s \ {First(s)} # s BY <1>4
<1> QED BY <1>2, <1>3, <1>5

LEMMA SumType ==
  ASSUME NEW D, IsFiniteSet(D), NEW f \in [D -> Nat]
  PROVE  SumFunction(f) \in Nat /\ \A d \in D : f[d] <= SumFunction(f)
<1>1. PICK g : Adds(g, f, D) BY SumEquation
<1> DEFINE Good == {s \in SUBSET D : g[s] \in Nat /\ \A d \in s : f[d] <= g[s]}
<1>2. {} \in Good BY <1>1 DEF Adds
<1>3. ASSUME NEW s \in SUBSET D, s # {}, s \ {First(s)} \in Good PROVE s \in Good
  <2>1. First(s) \in s /\ g[s] = f[First(s)] + g[s \ {First(s)}] BY <1>1, <1>3 DEF Adds
  <2> QED BY <1>3, <2>1
<1>4. Good \in SUBSET SUBSET D OBVIOUS
<1>5. D \in Good
  <2> HIDE DEF Good
  <2> QED BY <1>2, <1>3, <1>4, SubsetInduction
<1> QED BY <1>1, <1>5 DEF Adds

(* One entry changes: the sum changes by as much.                          *)
LEMMA SumExcept ==
  ASSUME NEW D, IsFiniteSet(D), NEW f \in [D -> Nat], NEW d \in D, NEW n \in Nat
  PROVE  SumFunction([f EXCEPT ![d] = n]) = SumFunction(f) - f[d] + n
<1> DEFINE h == [f EXCEPT ![d] = n]
<1>0. h \in [D -> Nat] /\ h[d] = n /\ \A e \in D : e # d => h[e] = f[e] OBVIOUS
<1> HIDE DEF h
<1>1. PICK g : Adds(g, f, D) BY SumEquation
<1>2. PICK k : Adds(k, h, D) BY <1>0, SumEquation
<1> DEFINE Good == {s \in SUBSET D :
                      g[s] \in Nat /\ k[s] = IF d \in s THEN g[s] - f[d] + n ELSE g[s]}
<1>3. {} \in Good BY <1>1, <1>2 DEF Adds
<1>4. ASSUME NEW s \in SUBSET D, s # {}, s \ {First(s)} \in Good PROVE s \in Good
  <2>1. First(s) \in s /\ g[s] = f[First(s)] + g[s \ {First(s)}] BY <1>1, <1>4 DEF Adds
  <2>2. k[s] = h[First(s)] + k[s \ {First(s)}] BY <1>2, <1>4 DEF Adds
  <2>3. CASE First(s) = d BY <1>0, <1>4, <2>1, <2>2, <2>3
  <2>4. CASE First(s) # d BY <1>0, <1>4, <2>1, <2>2, <2>4
  <2> QED BY <2>3, <2>4
<1>5. Good \in SUBSET SUBSET D OBVIOUS
<1>6. D \in Good
  <2> HIDE DEF Good
  <2> QED BY <1>3, <1>4, <1>5, SubsetInduction
<1>7. SumFunction(h) = SumFunction(f) - f[d] + n BY <1>1, <1>2, <1>6 DEF Adds
<1> QED BY <1>7 DEF h

At(s, S) == {i \in DOMAIN s : s[i] \in S}
Count(s, S) == Cardinality(At(s, S))

LEMMA CountType ==
  ASSUME NEW T, NEW s \in Seq(T), NEW S
  PROVE  /\ IsFiniteSet(At(s, S)) /\ Count(s, S) \in Nat
         /\ Count(s, S) = 0 <=> At(s, S) = {}
<1>1. DOMAIN s = 1..Len(s) /\ Len(s) \in Nat OBVIOUS
<1>2. IsFiniteSet(1..Len(s)) BY <1>1, FS_Interval
<1>3. IsFiniteSet(At(s, S)) BY <1>1, <1>2, FS_Subset DEF At
<1> QED BY <1>3, FS_CardinalityType, FS_EmptySet DEF Count

LEMMA CountEmpty == ASSUME NEW S PROVE Count(<<>>, S) = 0
<1>1. At(<<>>, S) = {} BY DEF At
<1> QED BY <1>1, FS_EmptySet DEF Count

LEMMA CountOne ==
  ASSUME NEW x, NEW S
  PROVE  Count(<<x>>, S) = IF x \in S THEN 1 ELSE 0
<1>1. DOMAIN <<x>> = {1} /\ <<x>>[1] = x OBVIOUS
<1>2. At(<<x>>, S) = IF x \in S THEN {1} ELSE {} BY <1>1 DEF At
<1> QED BY <1>2, FS_EmptySet, FS_Singleton DEF Count

LEMMA CountConcat ==
  ASSUME NEW T, NEW s \in Seq(T), NEW t \in Seq(T), NEW S
  PROVE  Count(s \o t, S) = Count(s, S) + Count(t, S)
<1> DEFINE n == Len(s)
           B == {n + i : i \in At(t, S)}
<1>1. /\ n \in Nat /\ Len(t) \in Nat /\ DOMAIN s = 1..n /\ DOMAIN t = 1..Len(t)
      /\ DOMAIN (s \o t) = 1..(n + Len(t))
      /\ \A i \in 1..n : (s \o t)[i] = s[i]
      /\ \A i \in 1..Len(t) : (s \o t)[n + i] = t[i]
  <2>1. s \o t \in Seq(T) /\ Len(s \o t) = n + Len(t) BY ConcatProperties
  <2>2. \A i \in 1..(n + Len(t)) : (s \o t)[i] = IF i <= n THEN s[i] ELSE t[i - n]
    BY ConcatProperties
  <2>3. ASSUME NEW i \in 1..Len(t) PROVE (s \o t)[n + i] = t[i]
    <3>1. n + i \in 1..(n + Len(t)) /\ ~(n + i <= n) /\ n + i - n = i OBVIOUS
    <3> QED BY <2>2, <3>1
  <2> QED BY <2>1, <2>2, <2>3
<1>2. At(s \o t, S) = At(s, S) \cup B
  <2>1. ASSUME NEW j \in At(s \o t, S) PROVE j \in At(s, S) \cup B
    <3>1. CASE j <= n BY <1>1, <2>1, <3>1 DEF At
    <3>2. CASE ~(j <= n)
      <4>1. j \in Nat /\ j - n \in 1..Len(t) /\ j = n + (j - n) BY <1>1, <2>1, <3>2 DEF At
      <4>2. t[j - n] \in S BY <1>1, <2>1, <4>1 DEF At
      <4>3. j - n \in At(t, S) BY <1>1, <4>1, <4>2 DEF At
      <4> QED BY <4>1, <4>3
    <3> QED BY <3>1, <3>2
  <2>2. At(s, S) \subseteq At(s \o t, S) BY <1>1 DEF At
  <2>3. B \subseteq At(s \o t, S)
    <3>1. ASSUME NEW i \in At(t, S) PROVE n + i \in At(s \o t, S)
      <4>1. i \in 1..Len(t) /\ t[i] \in S BY <1>1, <3>1 DEF At
      <4>2. n + i \in 1..(n + Len(t)) /\ (s \o t)[n + i] = t[i] BY <1>1, <4>1
      <4> QED BY <1>1, <4>1, <4>2 DEF At
    <3> QED BY <3>1
  <2> QED BY <2>1, <2>2, <2>3
<1>3. At(s, S) \cap B = {} BY <1>1 DEF At
<1>4. IsFiniteSet(B) /\ Cardinality(B) = Count(t, S)
  <2> DEFINE shift == [i \in At(t, S) |-> n + i]
  <2>1. At(t, S) \subseteq Nat BY <1>1 DEF At
  <2>2. shift \in Bijection(At(t, S), B)
    <3>1. shift \in [At(t, S) -> B] OBVIOUS
    <3>2. IsInjective(shift) BY <1>1, <2>1 DEF IsInjective
    <3>3. \A b \in B : \E i \in At(t, S) : shift[i] = b OBVIOUS
    <3> QED BY <3>1, <3>2, <3>3 DEF Bijection, Injection, Surjection
  <2>3. ExistsBijection(At(t, S), B) BY <2>2 DEF ExistsBijection
  <2>4. IsFiniteSet(At(t, S)) BY CountType
  <2> QED BY <2>3, <2>4, FS_Bijection DEF Count
<1>5. IsFiniteSet(At(s, S)) BY CountType
<1>6. Cardinality(At(s, S) \cup B) = Cardinality(At(s, S)) + Cardinality(B) - Cardinality(At(s, S) \cap B)
  BY <1>4, <1>5, FS_Union
<1>7. Cardinality(At(s, S) \cap B) = 0 BY <1>3, FS_EmptySet
<1>8. Cardinality(At(s, S)) \in Nat /\ Cardinality(B) \in Nat BY <1>4, <1>5, FS_CardinalityType
<1> QED BY <1>2, <1>4, <1>6, <1>7, <1>8 DEF Count

LEMMA CountAppend ==
  ASSUME NEW T, NEW s \in Seq(T), NEW x \in T, NEW S
  PROVE  Count(Append(s, x), S) = Count(s, S) + IF x \in S THEN 1 ELSE 0
<1>1. Append(s, x) = s \o <<x>> BY AppendIsConcat
<1>2. Count(s \o <<x>>, S) = Count(s, S) + Count(<<x>>, S)
  <2>1. <<x>> \in Seq(T) OBVIOUS
  <2> QED BY <2>1, CountConcat
<1> QED BY <1>1, <1>2, CountOne

LEMMA CountTail ==
  ASSUME NEW T, NEW s \in Seq(T), s # <<>>, NEW S
  PROVE  Count(s, S) = Count(Tail(s), S) + IF s[1] \in S THEN 1 ELSE 0
<1>1. s = <<s[1]>> \o Tail(s) /\ <<s[1]>> \in Seq(T) /\ Tail(s) \in Seq(T)
  BY HeadTailProperties
<1>2. Count(s, S) = Count(<<s[1]>>, S) + Count(Tail(s), S) BY <1>1, CountConcat
<1>3. Count(Tail(s), S) \in Nat BY <1>1, CountType
<1> QED BY <1>2, <1>3, CountOne

LEMMA CountUnique ==
  ASSUME NEW T, NEW s \in Seq(T), NEW S, Count(s, S) <= 1,
         NEW i \in At(s, S), NEW j \in At(s, S)
  PROVE  i = j
<1>1. SUFFICES ASSUME i # j PROVE FALSE OBVIOUS
<1> DEFINE one == {i}
           both == one \cup {j}
<1>2. IsFiniteSet(one) /\ Cardinality(one) = 1 BY FS_Singleton
<1>3. both \subseteq At(s, S) /\ j \notin one BY <1>1
<1> HIDE DEF one
<1>4. Cardinality(both) = Cardinality(one) + 1 BY <1>2, <1>3, FS_AddElement
<1> HIDE DEF both
<1>5. Cardinality(both) <= Cardinality(At(s, S)) BY <1>3, CountType, FS_Subset
<1>6. Cardinality(At(s, S)) \in Nat /\ Cardinality(At(s, S)) <= 1 BY CountType DEF Count
<1> QED BY <1>2, <1>4, <1>5, <1>6

(* Where an element of a concatenation comes from, and its last.           *)
LEMMA ConcatPlace ==
  ASSUME NEW T, NEW s \in Seq(T), NEW t \in Seq(T), NEW i \in DOMAIN (s \o t)
  PROVE  \/ i \in DOMAIN s /\ (s \o t)[i] = s[i]
         \/ \E j \in DOMAIN t : (s \o t)[i] = t[j]
<1>1. /\ Len(s) \in Nat /\ Len(t) \in Nat /\ DOMAIN s = 1..Len(s) /\ DOMAIN t = 1..Len(t)
      /\ DOMAIN (s \o t) = 1..(Len(s) + Len(t))
  BY ConcatProperties
<1>2. (s \o t)[i] = IF i <= Len(s) THEN s[i] ELSE t[i - Len(s)] BY <1>1, ConcatProperties
<1>3. ~(i <= Len(s)) => i - Len(s) \in DOMAIN t BY <1>1
<1> QED BY <1>1, <1>2, <1>3

LEMMA LastOfConcat ==
  ASSUME NEW T, NEW s \in Seq(T), NEW t \in Seq(T), t # <<>>
  PROVE  s \o t # <<>> /\ (s \o t)[Len(s \o t)] = t[Len(t)]
<1>1. Len(s) \in Nat /\ Len(t) \in Nat /\ Len(t) # 0 OBVIOUS
<1>2. Len(s \o t) = Len(s) + Len(t) /\ s \o t \in Seq(T) BY ConcatProperties
<1>3. Len(s) + Len(t) \in 1..(Len(s) + Len(t)) /\ ~(Len(s) + Len(t) <= Len(s))
      /\ Len(s) + Len(t) - Len(s) = Len(t)
  BY <1>1
<1>4. (s \o t)[Len(s) + Len(t)] = t[Len(t)] BY <1>3, ConcatProperties
<1> QED BY <1>1, <1>2, <1>4

-----------------------------------------------------------------------------
(* What LoopContinues selects *)

Selects(g, cmds) ==
  /\ LoopContinues(cmds) = g[Len(cmds)] /\ g[0] = <<>>
  /\ \A n \in 1..Len(cmds) :
       g[n] = IF LoopContinue(cmds[n]) THEN Append(g[n - 1], cmds[n]) ELSE g[n - 1]

LEMMA SelectionEquation ==
  ASSUME NEW cmds \in Seq(Command)
  PROVE  \E g : Selects(g, cmds)
<1> DEFINE N == Len(cmds)
           Next1(g, n) == IF n = 0 THEN <<>>
                          ELSE IF LoopContinue(cmds[n]) THEN Append(g[n - 1], cmds[n]) ELSE g[n - 1]
           Good(n) == \E g \in [0..n -> Seq(Command)] : \A i \in 0..n : g[i] = Next1(g, i)
           Levels == {n \in 0..N : Good(n)}
<1>0. N \in Nat /\ \A n \in 1..N : cmds[n] \in Command OBVIOUS
<1>1. Good(0)
  <2> DEFINE z == [i \in 0..0 |-> <<>>]
  <2>1. z \in [0..0 -> Seq(Command)] OBVIOUS
  <2>2. \A i \in 0..0 : z[i] = Next1(z, i) OBVIOUS
  <2> HIDE DEF z, Next1
  <2> QED BY <2>1, <2>2
<1>2. ASSUME NEW n \in 0..N, n # N, Good(n) PROVE Good(n + 1)
  <2>1. PICK g \in [0..n -> Seq(Command)] : \A i \in 0..n : g[i] = Next1(g, i) BY <1>2
  <2> DEFINE h == [i \in 0..(n + 1) |-> IF i <= n THEN g[i] ELSE Next1(g, i)]
  <2>2. n + 1 \in 1..N /\ cmds[n + 1] \in Command /\ g[n] \in Seq(Command)
    <3>1. n \in Nat /\ n + 1 \in 1..N /\ n \in 0..n BY <1>0, <1>2
    <3> QED BY <1>0, <3>1
  <2>3. h \in [0..(n + 1) -> Seq(Command)]
    <3>1. ASSUME NEW i \in 0..(n + 1) PROVE h[i] \in Seq(Command)
      <4>1. CASE i <= n BY <4>1
      <4>2. CASE ~(i <= n)
        <5>1. i = n + 1 /\ i - 1 = n BY <4>2
        <5> QED BY <2>2, <4>2, <5>1, AppendProperties
      <4> QED BY <4>1, <4>2
    <3> QED BY <3>1
  <2>4. ASSUME NEW i \in 0..(n + 1) PROVE h[i] = Next1(h, i)
    <3>1. CASE i <= n
      <4>1. i # 0 => i - 1 \in 0..(n + 1) /\ i - 1 <= n BY <3>1
      <4>2. i # 0 => h[i - 1] = g[i - 1] BY <4>1
      <4>3. h[i] = g[i] BY <3>1
      <4>4. i \in 0..n BY <3>1
      <4>5. g[i] = Next1(g, i)
        <5> HIDE DEF Next1, h
        <5> QED BY <2>1, <4>4
      <4> HIDE DEF h
      <4> QED BY <4>2, <4>3, <4>5
    <3>2. CASE ~(i <= n)
      <4>1. i # 0 /\ i - 1 \in 0..(n + 1) /\ i - 1 <= n BY <3>2
      <4>2. h[i - 1] = g[i - 1] BY <4>1
      <4> QED BY <3>2, <4>1, <4>2
    <3> QED BY <3>1, <3>2
  <2> HIDE DEF h, Next1
  <2> QED BY <2>3, <2>4
<1>3. N \in Levels
  <2> HIDE DEF Good
  <2>1. 0 \in Levels /\ Levels \in SUBSET (0..N) BY <1>0, <1>1
  <2>2. ASSUME NEW n \in 0..N, n # N, n \in Levels PROVE n + 1 \in Levels
    <3>1. n + 1 \in 0..N BY <1>0, <2>2
    <3> QED BY <1>2, <2>2, <3>1
  <2> HIDE DEF Levels, N
  <2> QED BY <1>0, <2>1, <2>2, RangeInduction
<1>4. \E g : g = [i \in 0..N |-> Next1(g, i)]
  <2>1. PICK g \in [0..N -> Seq(Command)] : \A i \in 0..N : g[i] = Next1(g, i) BY <1>3
  <2>2. g = [i \in 0..N |-> Next1(g, i)]
    <3> HIDE DEF Next1
    <3> QED BY <2>1
  <2> QED BY <2>2
<1> DEFINE g == CHOOSE h : h = [i \in 0..N |-> Next1(h, i)]
<1>5. g = [i \in 0..N |-> Next1(g, i)] BY <1>4
<1>6. LoopContinues(cmds) = g[N] BY DEF LoopContinues
<1> HIDE DEF g
<1>7. \A i \in 0..N : g[i] = Next1(g, i)
  <2> HIDE DEF Next1
  <2> QED BY <1>5
<1>8. g[0] = <<>> BY <1>0, <1>7
<1>9. \A n \in 1..N : g[n] = IF LoopContinue(cmds[n]) THEN Append(g[n - 1], cmds[n]) ELSE g[n - 1]
  BY <1>0, <1>7
<1> QED BY <1>6, <1>8, <1>9 DEF Selects

(* It keeps the Continues of the loop, each as often as it was there.      *)
LEMMA LoopContinuesCount ==
  ASSUME NEW cmds \in Seq(Command), NEW A
  PROVE  /\ LoopContinues(cmds) \in Seq(Command)
         /\ Count(LoopContinues(cmds), A) = Count(cmds, {c \in A : LoopContinue(c)})
<1>1. PICK g : Selects(g, cmds) BY SelectionEquation
<1> DEFINE S == {c \in A : LoopContinue(c)}
           N == Len(cmds)
           Good == {n \in 0..N : g[n] \in Seq(Command) /\ Count(g[n], A) = Count(SubSeq(cmds, 1, n), S)}
<1>2. N \in Nat OBVIOUS
<1>3. 0 \in Good
  <2>1. SubSeq(cmds, 1, 0) = <<>> OBVIOUS
  <2>2. g[0] = <<>> BY <1>1 DEF Selects
  <2>3. g[0] \in Seq(Command) BY <2>2
  <2>4. Count(g[0], A) = 0 /\ Count(SubSeq(cmds, 1, 0), S) = 0
    <3> HIDE DEF S
    <3> QED BY <2>1, <2>2, CountEmpty
  <2>5. 0 \in 0..N BY <1>2
  <2> HIDE DEF N
  <2> QED BY <2>3, <2>4, <2>5
<1>4. ASSUME NEW n \in 0..N, n # N, n \in Good PROVE n + 1 \in Good
  <2>1. n + 1 \in 1..N /\ n + 1 - 1 = n /\ cmds[n + 1] \in Command BY <1>2, <1>4
  <2>2. g[n + 1] = IF LoopContinue(cmds[n + 1]) THEN Append(g[n], cmds[n + 1]) ELSE g[n]
    BY <1>1, <2>1 DEF Selects
  <2>3. SubSeq(cmds, 1, n + 1) = Append(SubSeq(cmds, 1, n), cmds[n + 1])
        /\ SubSeq(cmds, 1, n) \in Seq(Command)
    BY <1>2, <2>1
  <2>4. Count(SubSeq(cmds, 1, n + 1), S)
          = Count(SubSeq(cmds, 1, n), S) + IF cmds[n + 1] \in S THEN 1 ELSE 0
    <3> DEFINE p == SubSeq(cmds, 1, n)
    <3>1. p \in Seq(Command) /\ SubSeq(cmds, 1, n + 1) = Append(p, cmds[n + 1]) BY <2>3
    <3> HIDE DEF Command, p
    <3>2. Count(Append(p, cmds[n + 1]), S) = Count(p, S) + IF cmds[n + 1] \in S THEN 1 ELSE 0
      BY <2>1, <3>1, CountAppend
    <3> QED BY <3>1, <3>2 DEF p
  <2>5. g[n] \in Seq(Command) /\ Count(g[n], A) = Count(SubSeq(cmds, 1, n), S)
        /\ Count(g[n], A) \in Nat
    BY <1>4, CountType
  <2>6. CASE LoopContinue(cmds[n + 1])
    <3>1. Count(g[n + 1], A) = Count(g[n], A) + IF cmds[n + 1] \in A THEN 1 ELSE 0
      BY <2>1, <2>2, <2>5, <2>6, CountAppend
    <3>2. g[n + 1] \in Seq(Command) BY <2>1, <2>2, <2>5, <2>6
    <3>3. cmds[n + 1] \in S <=> cmds[n + 1] \in A BY <2>6
    <3> HIDE DEF S
    <3> QED BY <2>1, <2>4, <2>5, <3>1, <3>2, <3>3
  <2>7. CASE ~LoopContinue(cmds[n + 1])
    <3>1. cmds[n + 1] \notin S BY <2>7
    <3> QED BY <2>1, <2>2, <2>4, <2>5, <2>7, <3>1
  <2> QED BY <2>6, <2>7
<1>5. N \in Good
  <2>1. Good \in SUBSET (0..N) OBVIOUS
  <2> HIDE DEF Good, N
  <2> QED BY <1>2, <1>3, <1>4, <2>1, RangeInduction
<1>6. SubSeq(cmds, 1, N) = cmds BY SubSeqFull
<1> QED BY <1>1, <1>5, <1>6 DEF Selects

-----------------------------------------------------------------------------
(* The inductive invariant *)

Last(s) == s[Len(s)]
IsReply(m) == m.reply /\ LoopContinue(m.of)

(* Whatever is on its way belongs to an episode that was begun, and only a *)
(* reply carries a command.                                                *)
Numbered ==
  /\ ledger.flow \in 0..ledger.episodes
  /\ ledger.resuming => ledger.flow # 0
  /\ \A i \in DOMAIN sent : sent[i].episode \in 1..ledger.episodes
  /\ \A i \in DOMAIN inbox :
       IF inbox[i].reply THEN inbox[i].of.episode \in 1..ledger.episodes
                         ELSE inbox[i].of = NoCommand
  /\ \A i \in DOMAIN jobs : jobs[i].episode \in 1..ledger.episodes

(* The connection rejects a Continue only when it is gone, and an answer is *)
(* a refusal only when tmux has refused something.                         *)
Honest ==
  /\ live => \A i \in DOMAIN jobs : jobs[i].outcome # "gone"
  /\ ~live => sent = <<>> /\ inbox = <<>>
  /\ refusals = 0 =>
       /\ \A i \in DOMAIN inbox : inbox[i].ok
       /\ \A i \in DOMAIN jobs : jobs[i].outcome # "refused"

OneContinue == ledger.flow # 0 => InFlight(ledger.flow) = IF ledger.resuming THEN 1 ELSE 0

(* While the pane is resuming, its Continue is the last command issued: it  *)
(* is the last of those tmux has not executed, or tmux executed it last and *)
(* its answer is on the way.                                               *)
ContinueIsLast ==
  live /\ ledger.resuming =>
    \/ sent # <<>> /\ LoopContinue(Last(sent)) /\ Last(sent).episode = ledger.flow
    \/ /\ sent = <<>>
       /\ \E i \in DOMAIN inbox : IsReply(inbox[i]) /\ inbox[i].of.episode = ledger.flow
                                    /\ (inbox[i].ok => ~tmuxPaused)
    \/ /\ sent = <<>>
       /\ \E i \in DOMAIN jobs : jobs[i].episode = ledger.flow
                                    /\ (jobs[i].outcome = "ok" => ~tmuxPaused)

(* A refused Continue whose refusal the ledger has not dealt with yet.     *)
RefusalPending ==
  \/ \E i \in DOMAIN inbox : inbox[i].reply /\ ~inbox[i].ok /\ inbox[i].of.action = "continue"
  \/ \E i \in DOMAIN jobs : jobs[i].outcome = "refused"

(* A pane the ledger takes to flow will flow: the last command is a         *)
(* Continue, and if tmux holds the pane back all the same the refusal that  *)
(* says so has not arrived.                                                *)
FlowsWhenBelieved ==
  live /\ ledger.flow = 0 /\ ~moot =>
    IF sent # <<>> THEN Last(sent).action = "continue" ELSE tmuxPaused => RefusalPending

(* A pane it takes to be paused, and has not asked to continue, will be.   *)
PausedWhenBelieved ==
  live /\ refusals = 0 /\ ledger.flow # 0 /\ ~ledger.resuming =>
    IF sent # <<>> THEN Last(sent).action = "pause" ELSE tmuxPaused

IInv ==
  /\ TypeOK /\ Numbered /\ Honest
  /\ PausedBelowLowIsResuming /\ OneContinue
  /\ ContinueIsLast /\ FlowsWhenBelieved /\ PausedWhenBelieved

-----------------------------------------------------------------------------
(* What is in flight, as counts *)

Message == [reply : BOOLEAN, ok : BOOLEAN, of : Command]
Settlement == [episode : Nat, outcome : {"ok", "refused", "gone"}]

Loop(e) == {c \in Command : LoopContinue(c) /\ c.episode = e}
LoopReply(e) == {m \in Message : LoopContinue(m.of) /\ m.of.episode = e}
JobOf(e) == {j \in Settlement : j.episode = e}

LEMMA SentCount ==
  ASSUME NEW s \in Seq(Command), NEW e
  PROVE  Cardinality({i \in DOMAIN s : LoopContinue(s[i]) /\ s[i].episode = e}) = Count(s, Loop(e))
<1>1. \A i \in DOMAIN s : s[i] \in Command BY ElementOfSeq
<1>2. At(s, Loop(e)) = {i \in DOMAIN s : LoopContinue(s[i]) /\ s[i].episode = e}
  BY <1>1 DEF At, Loop
<1> QED BY <1>2 DEF Count

LEMMA InboxCount ==
  ASSUME NEW s \in Seq(Message), NEW e
  PROVE  Cardinality({i \in DOMAIN s : LoopContinue(s[i].of) /\ s[i].of.episode = e})
           = Count(s, LoopReply(e))
<1>1. \A i \in DOMAIN s : s[i] \in Message BY ElementOfSeq
<1>2. At(s, LoopReply(e)) = {i \in DOMAIN s : LoopContinue(s[i].of) /\ s[i].of.episode = e}
  BY <1>1 DEF At, LoopReply
<1> QED BY <1>2 DEF Count

LEMMA JobsCount ==
  ASSUME NEW s \in Seq(Settlement), NEW e
  PROVE  Cardinality({i \in DOMAIN s : s[i].episode = e}) = Count(s, JobOf(e))
<1>1. \A i \in DOMAIN s : s[i] \in Settlement BY ElementOfSeq
<1>2. At(s, JobOf(e)) = {i \in DOMAIN s : s[i].episode = e} BY <1>1 DEF At, JobOf
<1> QED BY <1>2 DEF Count

(* The rejected Continues are those among the commands.                    *)
LEMMA RejectedCount ==
  ASSUME NEW cmds \in Seq(Command)
  PROVE  /\ Rejected(cmds) \in Seq(Settlement)
         /\ \A i \in DOMAIN Rejected(cmds) :
              /\ Rejected(cmds)[i].outcome = "gone"
              /\ \E j \in DOMAIN cmds :
                   LoopContinue(cmds[j]) /\ cmds[j].episode = Rejected(cmds)[i].episode
         /\ \A e : Count(Rejected(cmds), JobOf(e)) = Count(cmds, Loop(e))
<1> DEFINE R == LoopContinues(cmds)
           J == Rejected(cmds)
<1>1. R \in Seq(Command) BY LoopContinuesCount
<1>2. DOMAIN J = DOMAIN R /\ \A i \in DOMAIN R : J[i] = [episode |-> R[i].episode, outcome |-> "gone"]
  BY DEF Rejected
<1>3. \A i \in DOMAIN R : R[i] \in Command /\ J[i] \in Settlement
  <2>1. \A i \in DOMAIN R : R[i] \in Command BY <1>1, ElementOfSeq
  <2> QED BY <1>2, <2>1 DEF Command, Settlement
<1>4. J \in Seq(Settlement)
  <2>1. Len(R) \in Nat /\ DOMAIN R = 1..Len(R) BY <1>1
  <2>2. J \in [1..Len(R) -> Settlement] BY <1>2, <1>3, <2>1 DEF Rejected
  <2> QED BY <2>1, <2>2, IsASeq
<1> HIDE DEF J, R
<1>5. ASSUME NEW e PROVE Count(J, JobOf(e)) = Count(cmds, Loop(e))
  <2> DEFINE A == {c \in Command : c.episode = e}
  <2>1. At(J, JobOf(e)) = At(R, A) BY <1>2, <1>3 DEF At, JobOf
  <2>2. {c \in A : LoopContinue(c)} = Loop(e) BY DEF Loop
  <2>3. Count(R, A) = Count(cmds, {c \in A : LoopContinue(c)}) BY LoopContinuesCount DEF R
  <2> QED BY <2>1, <2>2, <2>3 DEF Count
<1>6. ASSUME NEW i \in DOMAIN J
      PROVE  \E j \in DOMAIN cmds : LoopContinue(cmds[j]) /\ cmds[j].episode = J[i].episode
  <2> DEFINE e == J[i].episode
  <2>1. i \in At(J, JobOf(e)) BY <1>2, <1>3, <1>6 DEF At, JobOf
  <2>2. Count(cmds, Loop(e)) # 0 BY <1>4, <1>5, <2>1, CountType
  <2>3. PICK j \in At(cmds, Loop(e)) : TRUE BY <2>2, CountType
  <2> QED BY <2>3 DEF At, Loop
<1> QED BY <1>2, <1>4, <1>5, <1>6 DEF J

-----------------------------------------------------------------------------
(* The methods *)

LedgerRecord ==
  [registered : SUBSET Peers, outstanding : [Peers -> Nat], flow : Nat,
   resuming : BOOLEAN, episodes : Nat, issued : Seq(Command)]

Pause(e) == [action |-> "pause", episode |-> e, flush |-> FALSE]
Continue(e, flush) == [action |-> "continue", episode |-> e, flush |-> flush]

(* What a call can do to the pane: nothing; begin an episode; begin one and *)
(* end it at once; ask for its end; forget it, having asked or asking now.  *)
Stays(m) ==
  /\ m.flow = ledger.flow /\ m.resuming = ledger.resuming
  /\ m.episodes = ledger.episodes /\ m.issued = <<>>
Pauses(m) ==
  /\ ledger.flow = 0 /\ ~ledger.resuming /\ ~m.resuming
  /\ m.flow = ledger.episodes + 1 /\ m.episodes = ledger.episodes + 1
  /\ m.issued = <<Pause(m.flow)>>
PausesBriefly(m) ==
  /\ ledger.flow = 0 /\ m.resuming
  /\ m.flow = ledger.episodes + 1 /\ m.episodes = ledger.episodes + 1
  /\ m.issued = <<Pause(m.flow), Continue(m.flow, FALSE)>>
Resumes(m) ==
  /\ ledger.flow # 0 /\ ~ledger.resuming /\ m.resuming
  /\ m.flow = ledger.flow /\ m.episodes = ledger.episodes
  /\ m.issued = <<Continue(m.flow, FALSE)>>
Forgets(m) ==
  /\ m.flow = 0 /\ ~m.resuming /\ m.episodes = ledger.episodes
  /\ \/ (ledger.flow = 0 \/ ledger.resuming) /\ m.issued = <<>>
     \/ /\ ledger.flow # 0 /\ ~ledger.resuming
        /\ \E flush \in BOOLEAN : m.issued = <<Continue(ledger.flow, flush)>>

(* A ledger that answers for the low watermark.                            *)
Watched(m) == m.flow # 0 /\ totalOutstanding(m) <= Low => m.resuming \/ m.flow \in reported

Moves(m) ==
  /\ m \in LedgerRecord /\ Watched(m)
  /\ Stays(m) \/ Pauses(m) \/ PausesBriefly(m) \/ Resumes(m) \/ Forgets(m)

LEMMA TotalType ==
  ASSUME NEW l \in LedgerRecord
  PROVE  totalOutstanding(l) \in Nat /\ \A p \in Peers : l.outstanding[p] <= totalOutstanding(l)
<1>1. l.outstanding \in [Peers -> Nat] BY DEF LedgerRecord
<1> QED BY <1>1, SumType, PeersAssumption DEF totalOutstanding

LEMMA IssueOne ==
  ASSUME NEW l \in LedgerRecord, NEW action \in {"pause", "continue"}, NEW flush \in BOOLEAN
  PROVE  /\ Issue(l, action, flush) \in LedgerRecord
         /\ Issue(l, action, flush).issued
              = Append(l.issued, [action |-> action, episode |-> l.flow, flush |-> flush])
         /\ Issue(l, action, flush).outstanding = l.outstanding
         /\ Issue(l, action, flush).registered = l.registered
         /\ Issue(l, action, flush).flow = l.flow
         /\ Issue(l, action, flush).resuming = l.resuming
         /\ Issue(l, action, flush).episodes = l.episodes
<1> DEFINE c == [action |-> action, episode |-> l.flow, flush |-> flush]
<1>1. c \in Command /\ l.issued \in Seq(Command) BY DEF LedgerRecord, Command
<1>2. Append(l.issued, c) \in Seq(Command)
  <2> HIDE DEF c, Command
  <2> QED BY <1>1
<1>3. Issue(l, action, flush) = [l EXCEPT !.issued = Append(@, c)] BY DEF Issue
<1> HIDE DEF c
<1> QED BY <1>2, <1>3 DEF LedgerRecord, c

(* maybeResume asks for the end of the episode, unless it has.             *)
MayResume(l, m) ==
  /\ m \in LedgerRecord
  /\ m.flow = l.flow /\ m.episodes = l.episodes /\ m.registered = l.registered
  /\ m.outstanding = l.outstanding
  /\ m.flow # 0 /\ totalOutstanding(m) <= Low => m.resuming
  /\ \/ m.resuming = l.resuming /\ m.issued = l.issued
     \/ /\ l.flow # 0 /\ ~l.resuming /\ m.resuming
        /\ m.issued = Append(l.issued, Continue(l.flow, FALSE))

LEMMA MaybeResumeDoes ==
  ASSUME NEW l \in LedgerRecord
  PROVE  MayResume(l, maybeResume(l))
<1> DEFINE r == [l EXCEPT !.resuming = TRUE]
<1>1. r \in LedgerRecord /\ r.outstanding = l.outstanding /\ r.flow = l.flow /\ r.resuming
      /\ r.episodes = l.episodes /\ r.registered = l.registered /\ r.issued = l.issued
  BY DEF LedgerRecord
<1>2. maybeResume(l) = IF l.flow = 0 \/ totalOutstanding(l) > Low \/ l.resuming THEN l
                       ELSE Issue(r, "continue", FALSE)
  BY DEF maybeResume
<1>3. totalOutstanding(l) \in Nat /\ Low \in Nat BY TotalType, WatermarkAssumption
<1> HIDE DEF r
<1>4. CASE l.flow = 0 \/ totalOutstanding(l) > Low \/ l.resuming
  <2>1. maybeResume(l) = l BY <1>2, <1>4
  <2>2. MayResume(l, l) BY <1>3, <1>4 DEF MayResume
  <2> QED BY <2>1, <2>2
<1>5. CASE ~(l.flow = 0 \/ totalOutstanding(l) > Low \/ l.resuming)
  <2>1. maybeResume(l) = Issue(r, "continue", FALSE) BY <1>2, <1>5
  <2> DEFINE m == Issue(r, "continue", FALSE)
  <2>2. /\ m \in LedgerRecord /\ m.issued = Append(r.issued, Continue(r.flow, FALSE))
        /\ m.outstanding = r.outstanding /\ m.registered = r.registered /\ m.flow = r.flow
        /\ m.resuming = r.resuming /\ m.episodes = r.episodes
    BY <1>1, IssueOne DEF Continue
  <2> HIDE DEF m
  <2> QED BY <1>1, <1>5, <2>1, <2>2 DEF MayResume, m
<1> QED BY <1>4, <1>5
(* maybePause begins an episode at the high watermark.                     *)
MayPause(l, m) ==
  /\ m \in LedgerRecord /\ m.registered = l.registered /\ m.outstanding = l.outstanding
  /\ m.resuming = l.resuming
  /\ \/ m.flow = l.flow /\ m.episodes = l.episodes /\ m.issued = l.issued
     \/ /\ l.flow = 0 /\ totalOutstanding(l) > Low
        /\ m.flow = l.episodes + 1 /\ m.episodes = l.episodes + 1
        /\ m.issued = Append(l.issued, Pause(m.flow))

LEMMA MaybePauseDoes ==
  ASSUME NEW l \in LedgerRecord
  PROVE  MayPause(l, maybePause(l))
<1> DEFINE b == [l EXCEPT !.flow = l.episodes + 1, !.episodes = @ + 1]
<1>1. b \in LedgerRecord /\ b.outstanding = l.outstanding /\ b.flow = l.episodes + 1
      /\ b.resuming = l.resuming
      /\ b.episodes = l.episodes + 1 /\ b.registered = l.registered /\ b.issued = l.issued
  <2>1. l.episodes + 1 \in Nat BY DEF LedgerRecord
  <2> QED BY <2>1 DEF LedgerRecord
<1>2. maybePause(l) = IF l.flow # 0 \/ totalOutstanding(l) < High THEN l
                      ELSE Issue(b, "pause", FALSE)
  BY DEF maybePause
<1>3. totalOutstanding(l) \in Nat /\ Low \in Nat /\ High \in Nat /\ Low < High
  BY TotalType, WatermarkAssumption
<1> HIDE DEF b
<1>4. CASE l.flow # 0 \/ totalOutstanding(l) < High
  <2>1. maybePause(l) = l BY <1>2, <1>4
  <2>2. MayPause(l, l) BY DEF MayPause
  <2> QED BY <2>1, <2>2
<1>5. CASE ~(l.flow # 0 \/ totalOutstanding(l) < High)
  <2>1. maybePause(l) = Issue(b, "pause", FALSE) BY <1>2, <1>5
  <2> DEFINE m == Issue(b, "pause", FALSE)
  <2>2. /\ m \in LedgerRecord /\ m.issued = Append(b.issued, Pause(b.flow))
        /\ m.outstanding = b.outstanding /\ m.registered = b.registered /\ m.flow = b.flow
        /\ m.resuming = b.resuming /\ m.episodes = b.episodes
    BY <1>1, IssueOne DEF Pause
  <2> HIDE DEF m
  <2>3. totalOutstanding(l) > Low BY <1>3, <1>5
  <2> QED BY <1>1, <1>5, <2>1, <2>2, <2>3 DEF MayPause, m
<1> QED BY <1>4, <1>5

-----------------------------------------------------------------------------
(* Every call moves the pane in one of those ways *)

(* The ledger of a reachable state, between calls.                         *)
AtRest(l) ==
  /\ l \in LedgerRecord /\ l.issued = <<>>
  /\ l.resuming => l.flow # 0
  /\ Watched(l)

LEMMA LedgerAtRest ==
  ASSUME IInv
  PROVE  AtRest(ledger) /\ ledger.flow <= ledger.episodes
<1>1. ledger \in [registered : SUBSET Peers, outstanding : [Peers -> Nat], flow : Nat,
                   resuming : BOOLEAN, episodes : Nat, issued : {<<>>}]
  BY DEF IInv, TypeOK
<1>2. ledger \in LedgerRecord /\ ledger.issued = <<>>
  <2> DEFINE commands == Seq(Command)
  <2>1. {<<>>} \subseteq commands OBVIOUS
  <2> HIDE DEF commands
  <2>2. ledger \in [registered : SUBSET Peers, outstanding : [Peers -> Nat], flow : Nat,
                    resuming : BOOLEAN, episodes : Nat, issued : commands]
    BY <1>1, <2>1
  <2> QED BY <1>1, <2>2 DEF LedgerRecord, commands
<1>3. Watched(ledger) BY DEF IInv, PausedBelowLowIsResuming, Watched, Sum
<1>4. (ledger.resuming => ledger.flow # 0) /\ ledger.flow <= ledger.episodes
  BY <1>1 DEF IInv, Numbered
<1> QED BY <1>2, <1>3, <1>4 DEF AtRest

(* Fewer bytes, or as many: the low watermark is looked at.                *)
LEMMA ResumeMoves ==
  ASSUME AtRest(ledger), NEW l \in LedgerRecord,
         l.flow = ledger.flow, l.resuming = ledger.resuming, l.episodes = ledger.episodes,
         l.issued = <<>>
  PROVE  Moves(maybeResume(l)) /\ (Stays(maybeResume(l)) \/ Resumes(maybeResume(l)))
<1> DEFINE m == maybeResume(l)
<1>1. MayResume(l, m) BY MaybeResumeDoes
<1> HIDE DEF m
<1>2. Append(<<>>, Continue(l.flow, FALSE)) = <<Continue(l.flow, FALSE)>> OBVIOUS
<1>3. m \in LedgerRecord /\ Watched(m) BY <1>1 DEF MayResume, Watched
<1>4. Stays(m) \/ Resumes(m) BY <1>1, <1>2 DEF MayResume, Stays, Resumes
<1> QED BY <1>3, <1>4 DEF m, Moves

LEMMA EmptyPeer ==
  ASSUME NEW l \in LedgerRecord, NEW p \in Peers, NEW n \in Nat
  PROVE  LET m == [l EXCEPT !.outstanding[p] = n] IN
         /\ m \in LedgerRecord /\ m.outstanding = [l.outstanding EXCEPT ![p] = n]
         /\ m.flow = l.flow /\ m.resuming = l.resuming /\ m.episodes = l.episodes
         /\ m.issued = l.issued /\ m.registered = l.registered
         /\ totalOutstanding(m) = totalOutstanding(l) - l.outstanding[p] + n
<1> DEFINE o == [l.outstanding EXCEPT ![p] = n]
           m == [l EXCEPT !.outstanding[p] = n]
<1>1. l.outstanding \in [Peers -> Nat] BY DEF LedgerRecord
<1>2. o \in [Peers -> Nat] BY <1>1
<1>3. SumFunction(o) = SumFunction(l.outstanding) - l.outstanding[p] + n
  BY <1>1, SumExcept, PeersAssumption
<1>4. m = [l EXCEPT !.outstanding = o] BY DEF LedgerRecord
<1> HIDE DEF o, m
<1>5. /\ m \in LedgerRecord /\ m.outstanding = o /\ m.flow = l.flow /\ m.resuming = l.resuming
      /\ m.episodes = l.episodes /\ m.issued = l.issued /\ m.registered = l.registered
  BY <1>2, <1>4 DEF LedgerRecord
<1>6. totalOutstanding(m) = totalOutstanding(l) - l.outstanding[p] + n
  BY <1>3, <1>5 DEF totalOutstanding
<1> QED BY <1>5, <1>6 DEF o, m
LEMMA RegisterMoves ==
  ASSUME AtRest(ledger), NEW R \in SUBSET Peers
  PROVE  Moves([ledger EXCEPT !.registered = R])
<1> DEFINE m == [ledger EXCEPT !.registered = R]
<1>1. /\ m \in LedgerRecord /\ m.outstanding = ledger.outstanding /\ m.flow = ledger.flow
      /\ m.resuming = ledger.resuming /\ m.episodes = ledger.episodes /\ m.issued = ledger.issued
  BY DEF AtRest, LedgerRecord
<1> HIDE DEF m
<1> QED BY <1>1 DEF AtRest, Moves, Stays, Watched, totalOutstanding, m

LEMMA AckMoves ==
  ASSUME AtRest(ledger), NEW p \in Peers, NEW n \in Nat
  PROVE  Moves(ack(ledger, p, n))
<1> DEFINE o == ledger.outstanding[p]
           k == IF n < o THEN o - n ELSE 0
           l == [ledger EXCEPT !.outstanding[p] = k]
<1>1. ledger \in LedgerRecord /\ o \in Nat /\ k \in Nat BY DEF AtRest, LedgerRecord
<1>2. ack(ledger, p, n) = maybeResume(l) BY <1>1 DEF ack, LedgerRecord
<1> HIDE DEF k
<1>3. /\ l \in LedgerRecord /\ l.flow = ledger.flow /\ l.resuming = ledger.resuming
      /\ l.episodes = ledger.episodes /\ l.issued = <<>>
  BY <1>1, EmptyPeer DEF AtRest
<1> HIDE DEF l
<1> QED BY <1>2, <1>3, ResumeMoves

LEMMA ClearMoves ==
  ASSUME AtRest(ledger), NEW p \in Peers
  PROVE  Moves(clearPeer(ledger, p))
<1> DEFINE l == [ledger EXCEPT !.outstanding[p] = 0]
<1>1. clearPeer(ledger, p) = IF ledger.outstanding[p] = 0 THEN ledger ELSE maybeResume(l)
  BY DEF clearPeer
<1>2. /\ l \in LedgerRecord /\ l.flow = ledger.flow /\ l.resuming = ledger.resuming
      /\ l.episodes = ledger.episodes /\ l.issued = <<>>
  <2>1. ledger \in LedgerRecord /\ ledger.issued = <<>> /\ 0 \in Nat BY DEF AtRest
  <2> QED BY <2>1, EmptyPeer
<1> HIDE DEF l
<1>3. Moves(maybeResume(l)) BY <1>2, ResumeMoves
<1>4. Moves(ledger) BY DEF AtRest, Moves, Stays
<1> QED BY <1>1, <1>3, <1>4

LEMMA ReleaseMoves ==
  ASSUME AtRest(ledger), NEW p \in Peers
  PROVE  Moves(releasePeer(ledger, p))
<1> DEFINE r == [ledger EXCEPT !.registered = @ \ {p}]
           l == [r EXCEPT !.outstanding[p] = 0]
<1>1. /\ r \in LedgerRecord /\ r.outstanding = ledger.outstanding /\ r.flow = ledger.flow
      /\ r.resuming = ledger.resuming /\ r.episodes = ledger.episodes /\ r.issued = <<>>
  BY DEF AtRest, LedgerRecord
<1>2. releasePeer(ledger, p) = clearPeer(r, p) BY DEF releasePeer
<1> HIDE DEF r
<1>3. clearPeer(r, p) = IF r.outstanding[p] = 0 THEN r ELSE maybeResume(l)
  BY DEF clearPeer
<1>4. /\ l \in LedgerRecord /\ l.flow = r.flow /\ l.resuming = r.resuming
      /\ l.episodes = r.episodes /\ l.issued = <<>>
  BY <1>1, EmptyPeer
<1> HIDE DEF l
<1>5. Moves(maybeResume(l)) BY <1>1, <1>4, ResumeMoves
<1>6. Moves(r) BY <1>1 DEF AtRest, Moves, Stays, Watched, totalOutstanding
<1> QED BY <1>2, <1>3, <1>5, <1>6

(* One more byte for a peer: the sum can only reach the high watermark.    *)
LEMMA AccountMoves ==
  ASSUME AtRest(ledger), NEW p \in Peers
  PROVE  /\ Moves(account(ledger, p))
         /\ Stays(account(ledger, p)) \/ Pauses(account(ledger, p))
         /\ account(ledger, p).outstanding[p] # 0
         /\ account(ledger, p).registered = ledger.registered
<1> DEFINE n == ledger.outstanding[p] + 1
           l == [ledger EXCEPT !.outstanding[p] = n]
           m == account(ledger, p)
<1>1. ledger \in LedgerRecord /\ ledger.outstanding[p] \in Nat /\ n \in Nat
  BY DEF AtRest, LedgerRecord
<1>2. m = maybePause(l) BY <1>1 DEF account, LedgerRecord
<1>3. /\ l \in LedgerRecord /\ l.outstanding = [ledger.outstanding EXCEPT ![p] = n]
      /\ l.flow = ledger.flow /\ l.resuming = ledger.resuming
      /\ l.episodes = ledger.episodes /\ l.issued = <<>> /\ l.registered = ledger.registered
      /\ totalOutstanding(l) = totalOutstanding(ledger) - ledger.outstanding[p] + n
  BY <1>1, EmptyPeer DEF AtRest
<1>4. l.outstanding[p] # 0 BY <1>1, <1>3 DEF LedgerRecord
<1>5. totalOutstanding(l) = totalOutstanding(ledger) + 1 /\ totalOutstanding(ledger) \in Nat
  BY <1>1, <1>3, TotalType
<1> HIDE DEF l, m
<1>6. MayPause(l, m) BY <1>2, <1>3, MaybePauseDoes
<1>7. totalOutstanding(m) = totalOutstanding(l) BY <1>6 DEF MayPause, totalOutstanding
<1>8. Append(<<>>, Pause(m.flow)) = <<Pause(m.flow)>> OBVIOUS
<1>9. CASE m.flow = l.flow /\ m.episodes = l.episodes /\ m.issued = l.issued
  <2>1. Watched(m) BY <1>3, <1>5, <1>6, <1>7, <1>9, WatermarkAssumption DEF Watched, AtRest, MayPause
  <2>2. Stays(m) BY <1>3, <1>6, <1>9 DEF Stays, MayPause
  <2> QED BY <1>3, <1>4, <1>6, <2>1, <2>2 DEF Moves, MayPause, m
<1>10. CASE /\ l.flow = 0 /\ totalOutstanding(l) > Low
            /\ m.flow = l.episodes + 1 /\ m.episodes = l.episodes + 1
            /\ m.issued = Append(l.issued, Pause(m.flow))
  <2>1. Watched(m) BY <1>5, <1>7, <1>10, WatermarkAssumption DEF Watched
  <2>2. Pauses(m) BY <1>3, <1>6, <1>8, <1>10 DEF Pauses, MayPause, AtRest
  <2> QED BY <1>3, <1>4, <1>6, <2>1, <2>2 DEF Moves, MayPause, m
<1> QED BY <1>6, <1>9, <1>10 DEF MayPause

LEMMA AppendTwo == ASSUME NEW x, NEW y PROVE Append(<<x>>, y) = <<x, y>>
<1>1. <<x>> \in Seq({x, y}) /\ <<x, y>> \in Seq({x, y}) OBVIOUS
<1>2. Append(<<x>>, y) \in Seq({x, y}) /\ Len(Append(<<x>>, y)) = 2
      /\ Append(<<x>>, y)[1] = x /\ Append(<<x>>, y)[2] = y
  OBVIOUS
<1>3. \A i \in 1..Len(<<x, y>>) : Append(<<x>>, y)[i] = <<x, y>>[i]
  <2>1. \A i \in 1..2 : i = 1 \/ i = 2 OBVIOUS
  <2> QED BY <1>2, <2>1
<1> QED BY <1>1, <1>2, <1>3, SeqEqual

LEMMA AccountAndClearMoves ==
  ASSUME AtRest(ledger), NEW p \in Peers
  PROVE  /\ Moves(clearPeer(account(ledger, p), p))
         /\ clearPeer(account(ledger, p), p).registered = ledger.registered
<1> DEFINE a == account(ledger, p)
           l == [a EXCEPT !.outstanding[p] = 0]
           m == maybeResume(l)
<1>1. Moves(a) /\ (Stays(a) \/ Pauses(a)) /\ a.outstanding[p] # 0 /\ a.registered = ledger.registered
  BY AccountMoves
<1>2. clearPeer(a, p) = m BY <1>1 DEF clearPeer
<1> HIDE DEF a
<1>3. a \in LedgerRecord BY <1>1 DEF Moves
<1>4. /\ l \in LedgerRecord /\ l.flow = a.flow /\ l.resuming = a.resuming
      /\ l.episodes = a.episodes /\ l.issued = a.issued /\ l.registered = a.registered
  <2>1. 0 \in Nat OBVIOUS
  <2> HIDE DEF l
  <2>2. l = [a EXCEPT !.outstanding[p] = 0] BY DEF l
  <2> QED BY <1>3, <2>1, <2>2, EmptyPeer
<1> HIDE DEF l
<1>5. MayResume(l, m) BY <1>4, MaybeResumeDoes
<1> HIDE DEF m
<1>6. m.registered = ledger.registered BY <1>1, <1>4, <1>5 DEF MayResume
<1>7. ASSUME Stays(a) PROVE Moves(m)
  <2>1. Append(<<>>, Continue(l.flow, FALSE)) = <<Continue(l.flow, FALSE)>> OBVIOUS
  <2>2. m \in LedgerRecord /\ Watched(m) BY <1>5 DEF MayResume, Watched
  <2>3. Stays(m) \/ Resumes(m) BY <1>4, <1>5, <1>7, <2>1 DEF MayResume, Stays, Resumes
  <2> QED BY <2>2, <2>3 DEF Moves
<1>8. ASSUME Pauses(a) PROVE Moves(m)
  <2>1. Append(<<Pause(l.flow)>>, Continue(l.flow, FALSE)) = <<Pause(l.flow), Continue(l.flow, FALSE)>>
    BY AppendTwo
  <2>2. m \in LedgerRecord /\ Watched(m) BY <1>5 DEF MayResume, Watched
  <2>3. Pauses(m) \/ PausesBriefly(m)
    BY <1>4, <1>5, <1>8, <2>1 DEF MayResume, Pauses, PausesBriefly
  <2> QED BY <2>2, <2>3 DEF Moves
<1>9. Moves(m) BY <1>1, <1>7, <1>8
<1> QED BY <1>2, <1>6, <1>9 DEF a

LEMMA DropDoes ==
  ASSUME NEW l \in LedgerRecord
  PROVE  /\ Drop(l) \in LedgerRecord /\ Drop(l).flow = 0 /\ ~Drop(l).resuming
         /\ Drop(l).episodes = l.episodes /\ Drop(l).issued = l.issued
         /\ Drop(l).outstanding = l.outstanding /\ Drop(l).registered = l.registered
BY DEF Drop, LedgerRecord

(* dispose releases every peer and lets what is paused flow.               *)
LEMMA DisposeMoves ==
  ASSUME AtRest(ledger)
  PROVE  Moves(flushPausedPanes(releaseAll(ledger)))
<1> DEFINE none == [ledger EXCEPT !.registered = {}, !.outstanding = [p \in Peers |-> 0]]
           l == releaseAll(ledger)
           m == flushPausedPanes(l)
<1>1. /\ none \in LedgerRecord /\ none.flow = ledger.flow /\ none.resuming = ledger.resuming
      /\ none.episodes = ledger.episodes /\ none.issued = <<>>
  <2>1. [p \in Peers |-> 0] \in [Peers -> Nat] OBVIOUS
  <2> QED BY <2>1 DEF AtRest, LedgerRecord
<1>2. l = none \/ l = maybeResume(none) BY DEF releaseAll
<1> HIDE DEF none, l
<1>3. /\ l \in LedgerRecord /\ l.flow = ledger.flow /\ l.episodes = ledger.episodes
      /\ \/ l.resuming = ledger.resuming /\ l.issued = <<>>
         \/ /\ ledger.flow # 0 /\ ~ledger.resuming /\ l.resuming
            /\ l.issued = <<Continue(ledger.flow, FALSE)>>
  <2>1. CASE l = none BY <1>1, <2>1
  <2>2. CASE l = maybeResume(none)
    <3>1. Moves(l) /\ (Stays(l) \/ Resumes(l)) BY <1>1, <2>2, ResumeMoves
    <3> QED BY <3>1 DEF Moves, Stays, Resumes
  <2> QED BY <1>2, <2>1, <2>2
<1>4. m = Drop(IF l.flow = 0 \/ l.resuming THEN l ELSE Issue(l, "continue", TRUE))
  BY DEF flushPausedPanes
<1> HIDE DEF m
<1>5. ASSUME l.flow = 0 \/ l.resuming PROVE Moves(m)
  <2>1. m = Drop(l) BY <1>4, <1>5
  <2>2. /\ m \in LedgerRecord /\ m.flow = 0 /\ ~m.resuming /\ m.episodes = ledger.episodes
        /\ m.issued = l.issued
    BY <1>3, <2>1, DropDoes
  <2>3. Forgets(m) BY <1>3, <1>5, <2>2 DEF Forgets
  <2> QED BY <2>2, <2>3 DEF Moves, Watched
<1>6. ASSUME ~(l.flow = 0 \/ l.resuming) PROVE Moves(m)
  <2> DEFINE i == Issue(l, "continue", TRUE)
  <2>1. m = Drop(i) BY <1>4, <1>6
  <2>2. i \in LedgerRecord /\ i.episodes = l.episodes
        /\ i.issued = Append(l.issued, Continue(l.flow, TRUE))
    BY <1>3, IssueOne DEF Continue
  <2>3. Append(<<>>, Continue(l.flow, TRUE)) = <<Continue(l.flow, TRUE)>> OBVIOUS
  <2> HIDE DEF i
  <2>4. /\ m \in LedgerRecord /\ m.flow = 0 /\ ~m.resuming /\ m.episodes = ledger.episodes
        /\ m.issued = i.issued
    BY <1>3, <2>1, <2>2, DropDoes
  <2>5. ledger.flow # 0 /\ ~ledger.resuming /\ l.issued = <<>> BY <1>3, <1>6
  <2>6. m.issued = <<Continue(ledger.flow, TRUE)>> BY <1>3, <2>2, <2>3, <2>4, <2>5
  <2>7. Forgets(m) BY <2>4, <2>5, <2>6 DEF Forgets
  <2> QED BY <2>4, <2>7 DEF Moves, Watched
<1> QED BY <1>5, <1>6 DEF m, l
-----------------------------------------------------------------------------
(* A call of the ledger keeps the invariant *)

Types ==
  /\ ledger \in [registered : SUBSET Peers, outstanding : [Peers -> Nat], flow : Nat,
                 resuming : BOOLEAN, episodes : Nat, issued : {<<>>}]
  /\ sent \in Seq(Command) /\ inbox \in Seq(Message) /\ jobs \in Seq(Settlement)

LEMMA TypesHold == TypeOK => Types
BY DEF TypeOK, Types, Message, Settlement

LEMMA CommitTypes ==
  ASSUME Types, NEW m, Moves(m), Commit(m, jobs), UNCHANGED inbox
  PROVE  /\ Types'
         /\ ledger'.flow = m.flow /\ ledger'.resuming = m.resuming
         /\ ledger'.episodes = m.episodes /\ ledger'.outstanding = m.outstanding
         /\ ledger'.registered = m.registered
         /\ m.issued \in Seq(Command)
<1>1. m \in LedgerRecord BY DEF Moves
<1>2. ledger' = [m EXCEPT !.issued = <<>>] BY DEF Commit
<1>3. /\ ledger' \in [registered : SUBSET Peers, outstanding : [Peers -> Nat], flow : Nat,
                      resuming : BOOLEAN, episodes : Nat, issued : {<<>>}]
      /\ ledger'.flow = m.flow /\ ledger'.resuming = m.resuming
      /\ ledger'.episodes = m.episodes /\ ledger'.outstanding = m.outstanding
      /\ ledger'.registered = m.registered
      /\ m.issued \in Seq(Command)
  BY <1>1, <1>2 DEF LedgerRecord
<1>4. Rejected(m.issued) \in Seq(Settlement) BY <1>3, RejectedCount
<1>5. sent' \in Seq(Command) /\ jobs' \in Seq(Settlement)
  <2>1. sent \o m.issued \in Seq(Command) BY <1>3, ConcatProperties DEF Types
  <2>2. jobs \o Rejected(m.issued) \in Seq(Settlement) BY <1>4, ConcatProperties DEF Types
  <2> QED BY <2>1, <2>2 DEF Types, Commit
<1> QED BY <1>3, <1>5 DEF Types

LEMMA InFlightType ==
  ASSUME Types, NEW e
  PROVE  /\ Count(sent, Loop(e)) \in Nat /\ Count(inbox, LoopReply(e)) \in Nat
         /\ Count(jobs, JobOf(e)) \in Nat /\ InFlight(e) \in Nat
         /\ InFlight(e) = Count(sent, Loop(e)) + Count(inbox, LoopReply(e)) + Count(jobs, JobOf(e))
<1>1. /\ Count(sent, Loop(e)) \in Nat /\ Count(inbox, LoopReply(e)) \in Nat
      /\ Count(jobs, JobOf(e)) \in Nat
  BY CountType DEF Types
<1>2. InFlight(e) = Count(sent, Loop(e)) + Count(inbox, LoopReply(e)) + Count(jobs, JobOf(e))
  BY SentCount, InboxCount, JobsCount DEF Types, InFlight
<1> QED BY <1>1, <1>2

LEMMA InFlightNext ==
  ASSUME Types', NEW e
  PROVE  InFlight(e)'
           = Count(sent', Loop(e)) + Count(inbox', LoopReply(e)) + Count(jobs', JobOf(e))
BY SentCount, InboxCount, JobsCount DEF Types, InFlight

(* A call adds the Continues it issues to those in flight.                 *)
LEMMA CommitCount ==
  ASSUME Types, Honest, NEW m, Moves(m), Commit(m, jobs), UNCHANGED inbox, NEW e
  PROVE  InFlight(e)' = InFlight(e) + Count(m.issued, Loop(e))
<1>1. Types' /\ m.issued \in Seq(Command) BY CommitTypes
<1>2. InFlight(e)' = Count(sent', Loop(e)) + Count(inbox, LoopReply(e)) + Count(jobs', JobOf(e))
  BY <1>1, InFlightNext
<1>3. InFlight(e) = Count(sent, Loop(e)) + Count(inbox, LoopReply(e)) + Count(jobs, JobOf(e))
      /\ Count(sent, Loop(e)) \in Nat /\ Count(inbox, LoopReply(e)) \in Nat
      /\ Count(jobs, JobOf(e)) \in Nat
  BY InFlightType
<1>4. Count(m.issued, Loop(e)) \in Nat BY <1>1, CountType
<1>5. CASE live
  <2>1. sent' = sent \o m.issued /\ jobs' = jobs BY <1>5 DEF Commit
  <2>2. Count(sent', Loop(e)) = Count(sent, Loop(e)) + Count(m.issued, Loop(e))
    BY <1>1, <2>1, CountConcat DEF Types
  <2> QED BY <1>2, <1>3, <1>4, <2>1, <2>2
<1>6. CASE ~live
  <2>1. sent' = sent /\ jobs' = jobs \o Rejected(m.issued) BY <1>6 DEF Commit
  <2>2. Count(jobs', JobOf(e)) = Count(jobs, JobOf(e)) + Count(Rejected(m.issued), JobOf(e))
    BY <1>1, <2>1, RejectedCount, CountConcat DEF Types
  <2>3. Count(Rejected(m.issued), JobOf(e)) = Count(m.issued, Loop(e)) BY <1>1, RejectedCount
  <2> QED BY <1>2, <1>3, <1>4, <2>1, <2>2, <2>3
<1> QED BY <1>5, <1>6

(* No Continue of an episode yet to come is in flight.                     *)
LEMMA NoneAhead ==
  ASSUME Types, Numbered
  PROVE  InFlight(ledger.episodes + 1) = 0
<1> DEFINE e == ledger.episodes + 1
<1>1. ledger.episodes \in Nat BY DEF Types
<1>2. At(sent, Loop(e)) = {}
  <2>1. \A i \in DOMAIN sent : sent[i].episode # e BY <1>1 DEF Numbered
  <2> HIDE DEF e
  <2> QED BY <2>1 DEF At, Loop
<1>3. At(inbox, LoopReply(e)) = {}
  <2>1. ASSUME NEW i \in DOMAIN inbox PROVE inbox[i].of.episode # e
    <3>1. NoCommand.episode = 0 BY DEF NoCommand
    <3> QED BY <1>1, <3>1 DEF Numbered
  <2> HIDE DEF e
  <2> QED BY <2>1 DEF At, LoopReply
<1>4. At(jobs, JobOf(e)) = {}
  <2>1. \A i \in DOMAIN jobs : jobs[i].episode # e BY <1>1 DEF Numbered
  <2> HIDE DEF e
  <2> QED BY <2>1 DEF At, JobOf
<1> HIDE DEF e
<1>5. Count(sent, Loop(e)) = 0 /\ Count(inbox, LoopReply(e)) = 0 /\ Count(jobs, JobOf(e)) = 0
  BY <1>2, <1>3, <1>4, FS_EmptySet DEF Count
<1>6. InFlight(e) = 0 BY <1>5, InFlightType
<1> QED BY <1>6 DEF e

(* The Continues among what a call issues.                                 *)
LEMMA IssuedCount ==
  ASSUME NEW e \in Nat
  PROVE  /\ Pause(e) \in Command /\ Count(<<Pause(e)>>, Loop(e)) = 0
         /\ Continue(e, FALSE) \in Command /\ Count(<<Continue(e, FALSE)>>, Loop(e)) = 1
         /\ Count(<<Pause(e), Continue(e, FALSE)>>, Loop(e)) = 1
<1>1. Pause(e) \in Command /\ Pause(e) \notin Loop(e) BY DEF Pause, Command, Loop, LoopContinue
<1>2. Continue(e, FALSE) \in Command /\ Continue(e, FALSE) \in Loop(e)
  BY DEF Continue, Command, Loop, LoopContinue
<1>3. Append(<<Pause(e)>>, Continue(e, FALSE)) = <<Pause(e), Continue(e, FALSE)>> BY AppendTwo
<1>4. Count(<<Pause(e)>>, Loop(e)) = 0 /\ Count(<<Continue(e, FALSE)>>, Loop(e)) = 1
  BY <1>1, <1>2, CountOne
<1>5. <<Pause(e)>> \in Seq(Command) BY <1>1
<1>6. Count(Append(<<Pause(e)>>, Continue(e, FALSE)), Loop(e)) = 1
  <2> DEFINE s == <<Pause(e)>>
             c == Continue(e, FALSE)
             S == Loop(e)
  <2>1. s \in Seq(Command) /\ c \in Command /\ c \in S /\ Count(s, S) = 0 BY <1>2, <1>4, <1>5
  <2> HIDE DEF s, c, S
  <2>2. Count(Append(s, c), S) = Count(s, S) + IF c \in S THEN 1 ELSE 0 BY <2>1, CountAppend
  <2>3. Count(Append(s, c), S) = 1 BY <2>1, <2>2
  <2> QED BY <2>3 DEF s, c, S
<1>7. Count(<<Pause(e), Continue(e, FALSE)>>, Loop(e)) = 1 BY <1>3, <1>6
<1> QED BY <1>1, <1>2, <1>4, <1>7

LEMMA CommitOneContinue ==
  ASSUME Types, Honest, Numbered, OneContinue, NEW m, Moves(m), Commit(m, jobs), UNCHANGED inbox
  PROVE  OneContinue'
<1>1. /\ ledger'.flow = m.flow /\ ledger'.resuming = m.resuming /\ Types'
  BY CommitTypes
<1>2. \A e : InFlight(e)' = InFlight(e) + Count(m.issued, Loop(e)) /\ InFlight(e) \in Nat
  BY CommitCount, InFlightType
<1>3. m.flow \in Nat /\ ledger.episodes \in Nat BY DEF Moves, LedgerRecord, Types
<1>4. SUFFICES ASSUME m.flow # 0
               PROVE  InFlight(m.flow)' = IF m.resuming THEN 1 ELSE 0
  BY <1>1 DEF OneContinue
<1>5. CASE Stays(m)
  <2>1. Count(m.issued, Loop(m.flow)) = 0 BY <1>5, CountEmpty DEF Stays
  <2> QED BY <1>2, <1>4, <1>5, <2>1 DEF Stays, OneContinue
<1>6. CASE Pauses(m)
  <2>1. InFlight(m.flow) = 0 BY <1>6, NoneAhead DEF Pauses
  <2>2. Count(m.issued, Loop(m.flow)) = 0 BY <1>3, <1>6, IssuedCount DEF Pauses
  <2> QED BY <1>2, <1>6, <2>1, <2>2 DEF Pauses
<1>7. CASE PausesBriefly(m)
  <2>1. InFlight(m.flow) = 0 BY <1>7, NoneAhead DEF PausesBriefly
  <2>2. Count(m.issued, Loop(m.flow)) = 1 BY <1>3, <1>7, IssuedCount DEF PausesBriefly
  <2> QED BY <1>2, <1>7, <2>1, <2>2 DEF PausesBriefly
<1>8. CASE Resumes(m)
  <2>1. InFlight(m.flow) = 0 BY <1>8 DEF Resumes, OneContinue
  <2>2. Count(m.issued, Loop(m.flow)) = 1 BY <1>3, <1>8, IssuedCount DEF Resumes
  <2> QED BY <1>2, <1>8, <2>1, <2>2 DEF Resumes
<1>9. CASE Forgets(m) BY <1>4, <1>9 DEF Forgets
<1> QED BY <1>5, <1>6, <1>7, <1>8, <1>9 DEF Moves
(* What a call issues, one by one.                                         *)
LEMMA IssuedShape ==
  ASSUME Types, Numbered, NEW m, Moves(m)
  PROVE  /\ Len(m.issued) \in 0..2 /\ DOMAIN m.issued = 1..Len(m.issued)
         /\ \A i \in DOMAIN m.issued : m.issued[i].episode \in 1..m.episodes
         /\ m.flow \in 0..m.episodes /\ (m.resuming => m.flow # 0)
         /\ m.episodes \in Nat /\ ledger.episodes <= m.episodes
<1>1. ledger.flow \in 0..ledger.episodes /\ ledger.episodes \in Nat /\ m.episodes \in Nat
  BY DEF Types, Numbered, Moves, LedgerRecord
<1>2. CASE Stays(m) BY <1>1, <1>2 DEF Stays, Numbered
<1>3. CASE Pauses(m) BY <1>1, <1>3 DEF Pauses, Pause
<1>4. CASE PausesBriefly(m)
  <2>1. \A i \in 1..2 : i = 1 \/ i = 2 OBVIOUS
  <2> QED BY <1>1, <1>4, <2>1 DEF PausesBriefly, Pause, Continue
<1>5. CASE Resumes(m) BY <1>1, <1>5 DEF Resumes, Continue
<1>6. CASE Forgets(m)
  <2>1. m.flow = 0 /\ ~m.resuming /\ m.episodes = ledger.episodes BY <1>6 DEF Forgets
  <2>2. CASE m.issued = <<>> BY <1>1, <2>1, <2>2
  <2>3. CASE m.issued # <<>>
    <3>1. PICK flush \in BOOLEAN : m.issued = <<Continue(ledger.flow, flush)>> /\ ledger.flow # 0
      BY <1>6, <2>3 DEF Forgets
    <3>2. Len(m.issued) = 1 /\ DOMAIN m.issued = {1} /\ m.issued[1].episode = ledger.flow
      BY <3>1 DEF Continue
    <3>3. DOMAIN m.issued = 1..Len(m.issued) BY <3>1
    <3> QED BY <1>1, <2>1, <3>1, <3>2, <3>3
  <2> QED BY <2>2, <2>3
<1> QED BY <1>2, <1>3, <1>4, <1>5, <1>6 DEF Moves

LEMMA CommitNumbered ==
  ASSUME Types, Numbered, Honest, NEW m, Moves(m), Commit(m, jobs), UNCHANGED <<inbox, live, refusals>>
  PROVE  Numbered' /\ Honest'
<1>1. /\ ledger'.flow = m.flow /\ ledger'.resuming = m.resuming /\ ledger'.episodes = m.episodes
      /\ m.issued \in Seq(Command) /\ Types'
  BY CommitTypes
<1>2. /\ \A i \in DOMAIN m.issued : m.issued[i].episode \in 1..m.episodes
      /\ m.flow \in 0..m.episodes /\ (m.resuming => m.flow # 0)
      /\ m.episodes \in Nat /\ ledger.episodes \in Nat /\ ledger.episodes <= m.episodes
  BY IssuedShape DEF Types
<1>3. ASSUME NEW i \in DOMAIN sent' PROVE sent'[i].episode \in 1..m.episodes
  <2>1. CASE live
    <3>1. sent' = sent \o m.issued BY <2>1 DEF Commit
    <3>2. \/ i \in DOMAIN sent /\ sent'[i] = sent[i]
          \/ \E j \in DOMAIN m.issued : sent'[i] = m.issued[j]
      BY <1>1, <1>3, <3>1, ConcatPlace DEF Types
    <3> QED BY <1>2, <3>2 DEF Numbered
  <2>2. CASE ~live
    <3>1. sent' = sent BY <2>2 DEF Commit
    <3> QED BY <1>2, <1>3, <3>1 DEF Numbered
  <2> QED BY <2>1, <2>2
<1>4. ASSUME NEW i \in DOMAIN jobs'
      PROVE  /\ jobs'[i].episode \in 1..m.episodes
             /\ live => jobs'[i].outcome # "gone"
             /\ refusals = 0 => jobs'[i].outcome # "refused"
  <2>1. CASE live
    <3>1. jobs' = jobs BY <2>1 DEF Commit
    <3> QED BY <1>2, <1>4, <2>1, <3>1 DEF Numbered, Honest
  <2>2. CASE ~live
    <3>1. jobs' = jobs \o Rejected(m.issued) /\ Rejected(m.issued) \in Seq(Settlement)
      BY <1>1, <2>2, RejectedCount DEF Commit
    <3>2. CASE i \in DOMAIN jobs /\ jobs'[i] = jobs[i]
      BY <1>2, <2>2, <3>2 DEF Numbered, Honest
    <3>3. CASE \E j \in DOMAIN Rejected(m.issued) : jobs'[i] = Rejected(m.issued)[j]
      <4>1. PICK j \in DOMAIN Rejected(m.issued) : jobs'[i] = Rejected(m.issued)[j] BY <3>3
      <4>2. Rejected(m.issued)[j].outcome = "gone"
            /\ \E k \in DOMAIN m.issued : m.issued[k].episode = Rejected(m.issued)[j].episode
        BY <1>1, RejectedCount
      <4> QED BY <1>2, <2>2, <4>1, <4>2
    <3> QED BY <1>4, <3>1, <3>2, <3>3, ConcatPlace DEF Types
  <2> QED BY <2>1, <2>2
<1>5. \A i \in DOMAIN inbox :
        IF inbox[i].reply THEN inbox[i].of.episode \in 1..m.episodes ELSE inbox[i].of = NoCommand
  BY <1>2 DEF Numbered
<1>6. Numbered' BY <1>1, <1>2, <1>3, <1>4, <1>5 DEF Numbered
<1>7. ~live => sent' = <<>> /\ inbox' = <<>> BY DEF Honest, Commit
<1> QED BY <1>4, <1>6, <1>7 DEF Honest

(* What the last command is after a call.                                  *)
LEMMA CommitLast ==
  ASSUME Types, NEW m, Moves(m), Commit(m, jobs), live
  PROVE  /\ jobs' = jobs
         /\ m.issued = <<>> => sent' = sent
         /\ m.issued # <<>> => sent' # <<>> /\ Last(sent') = Last(m.issued)
<1>1. m.issued \in Seq(Command) /\ sent \in Seq(Command) BY DEF Moves, LedgerRecord, Types
<1>2. sent' = sent \o m.issued /\ jobs' = jobs BY DEF Commit
<1>3. m.issued = <<>> => sent' = sent BY <1>1, <1>2, ConcatEmptySeq
<1>4. ASSUME m.issued # <<>> PROVE sent' # <<>> /\ Last(sent') = Last(m.issued)
  BY <1>1, <1>2, <1>4, LastOfConcat DEF Last
<1> QED BY <1>2, <1>3, <1>4

LEMMA CommitBelieves ==
  ASSUME Types, Numbered, Honest, ContinueIsLast, FlowsWhenBelieved, PausedWhenBelieved,
         NEW m, Moves(m), Commit(m, jobs), UNCHANGED <<inbox, tmuxPaused, live, refusals, moot>>
  PROVE  ContinueIsLast' /\ FlowsWhenBelieved' /\ PausedWhenBelieved'
<1>1. /\ ledger'.flow = m.flow /\ ledger'.resuming = m.resuming BY CommitTypes
<1>2. SUFFICES ASSUME live PROVE ContinueIsLast' /\ FlowsWhenBelieved' /\ PausedWhenBelieved'
  BY DEF ContinueIsLast, FlowsWhenBelieved, PausedWhenBelieved
<1>3. /\ jobs' = jobs
      /\ m.issued = <<>> => sent' = sent
      /\ m.issued # <<>> => sent' # <<>> /\ Last(sent') = Last(m.issued)
  BY <1>2, CommitLast
<1>4. CASE Stays(m)
  <2>1. sent' = sent /\ m.flow = ledger.flow /\ m.resuming = ledger.resuming
    BY <1>3, <1>4 DEF Stays
  <2>2. ContinueIsLast' BY <1>1, <1>3, <2>1 DEF ContinueIsLast, IsReply
  <2>3. FlowsWhenBelieved' BY <1>1, <1>3, <2>1 DEF FlowsWhenBelieved, RefusalPending
  <2>4. PausedWhenBelieved' BY <1>1, <1>3, <2>1 DEF PausedWhenBelieved
  <2> QED BY <2>2, <2>3, <2>4
<1>5. CASE Pauses(m)
  <2>1. m.flow # 0 /\ ~m.resuming BY <1>5 DEF Pauses, Types
  <2>2. m.issued # <<>> /\ Last(m.issued).action = "pause" BY <1>5 DEF Pauses, Pause, Last
  <2> QED BY <1>1, <1>3, <2>1, <2>2 DEF ContinueIsLast, FlowsWhenBelieved, PausedWhenBelieved
<1>6. CASE PausesBriefly(m)
  <2>1. m.flow # 0 /\ m.resuming BY <1>6 DEF PausesBriefly, Types
  <2>2. m.issued # <<>> /\ Last(m.issued) = Continue(m.flow, FALSE)
    BY <1>6 DEF PausesBriefly, Last
  <2>3. LoopContinue(Last(m.issued)) /\ Last(m.issued).episode = m.flow
    BY <2>2 DEF Continue, LoopContinue
  <2> QED BY <1>1, <1>3, <2>1, <2>2, <2>3 DEF ContinueIsLast, FlowsWhenBelieved, PausedWhenBelieved
<1>7. CASE Resumes(m)
  <2>1. m.flow # 0 /\ m.resuming BY <1>7 DEF Resumes
  <2>2. m.issued # <<>> /\ Last(m.issued) = Continue(m.flow, FALSE)
    BY <1>7 DEF Resumes, Last
  <2>3. LoopContinue(Last(m.issued)) /\ Last(m.issued).episode = m.flow
    BY <2>2 DEF Continue, LoopContinue
  <2> QED BY <1>1, <1>3, <2>1, <2>2, <2>3 DEF ContinueIsLast, FlowsWhenBelieved, PausedWhenBelieved
<1>8. CASE Forgets(m)
  <2>1. m.flow = 0 /\ ~m.resuming BY <1>8 DEF Forgets
  <2>2. ContinueIsLast' /\ PausedWhenBelieved' BY <1>1, <2>1 DEF ContinueIsLast, PausedWhenBelieved
  <2>3. CASE m.issued # <<>>
    <3>1. PICK flush \in BOOLEAN : m.issued = <<Continue(ledger.flow, flush)>>
      BY <1>8, <2>3 DEF Forgets
    <3>2. Last(m.issued).action = "continue" BY <3>1 DEF Last, Continue
    <3> QED BY <1>3, <2>2, <2>3, <3>2 DEF FlowsWhenBelieved
  <2>4. CASE m.issued = <<>> /\ ledger.flow = 0
    <3>1. sent' = sent BY <1>3, <2>4
    <3>2. FlowsWhenBelieved' BY <1>1, <1>3, <2>1, <2>4, <3>1 DEF FlowsWhenBelieved, RefusalPending
    <3> QED BY <2>2, <3>2
  <2>5. CASE m.issued = <<>> /\ ledger.resuming
    <3>1. sent' = sent BY <1>3, <2>5
    <3>2. CASE sent # <<>> /\ LoopContinue(Last(sent))
      BY <2>2, <3>1, <3>2 DEF FlowsWhenBelieved, LoopContinue
    <3>3. CASE sent = <<>> /\ ~tmuxPaused BY <2>2, <3>1, <3>3 DEF FlowsWhenBelieved
    <3>4. CASE sent = <<>> /\ tmuxPaused
      <4>1. RefusalPending
        <5>1. CASE \E i \in DOMAIN inbox : IsReply(inbox[i]) /\ ~inbox[i].ok
          BY <5>1 DEF RefusalPending, IsReply, LoopContinue
        <5>2. CASE \E i \in DOMAIN jobs : jobs[i].outcome # "ok"
          <6>1. PICK i \in DOMAIN jobs : jobs[i].outcome # "ok" BY <5>2
          <6>2. jobs[i] \in Settlement BY ElementOfSeq DEF Types
          <6> QED BY <1>2, <6>1, <6>2 DEF RefusalPending, Honest, Settlement
        <5> QED BY <1>2, <2>5, <3>4, <5>1, <5>2 DEF ContinueIsLast
      <4>2. RefusalPending' BY <1>3, <4>1 DEF RefusalPending
      <4> QED BY <2>2, <3>1, <3>4, <4>2 DEF FlowsWhenBelieved
    <3> QED BY <1>2, <2>5, <3>2, <3>3, <3>4 DEF ContinueIsLast
  <2> QED BY <1>8, <2>3, <2>4, <2>5 DEF Forgets
<1> QED BY <1>4, <1>5, <1>6, <1>7, <1>8 DEF Moves

(* A call of the ledger: all of the invariant.                             *)
LEMMA CommitKeeps ==
  ASSUME IInv, NEW m, Moves(m), Commit(m, jobs), due' \subseteq m.registered,
         UNCHANGED <<inbox, tmuxPaused, live, refusals, moot, written, reported>>,
         disposed' \in BOOLEAN, draining' \in BOOLEAN
  PROVE  IInv'
<1>1. Types BY TypesHold DEF IInv
<1>2. /\ Types'
      /\ ledger'.flow = m.flow /\ ledger'.resuming = m.resuming
      /\ ledger'.episodes = m.episodes /\ ledger'.outstanding = m.outstanding
      /\ ledger'.registered = m.registered
  BY <1>1, CommitTypes
<1>3. ledger.episodes \in Nat /\ m.episodes \in Nat /\ ledger.episodes <= m.episodes
  BY <1>1, IssuedShape DEF IInv, Types
<1>4. reported' \subseteq 1..ledger'.episodes
  <2>1. reported \subseteq 1..ledger.episodes BY DEF IInv, TypeOK
  <2>2. 1..ledger.episodes \subseteq 1..m.episodes BY <1>3
  <2> QED BY <1>2, <2>1, <2>2
<1>5. TypeOK'
  BY <1>2, <1>4 DEF IInv, TypeOK, Types, Message, Settlement
<1>6. PausedBelowLowIsResuming'
  BY <1>2 DEF Moves, Watched, PausedBelowLowIsResuming, Sum, totalOutstanding
<1>7. Numbered' /\ Honest' BY <1>1, CommitNumbered DEF IInv
<1>8. OneContinue' BY <1>1, CommitOneContinue DEF IInv
<1>9. ContinueIsLast' /\ FlowsWhenBelieved' /\ PausedWhenBelieved'
  BY <1>1, CommitBelieves DEF IInv
<1> QED BY <1>5, <1>6, <1>7, <1>8, <1>9 DEF IInv

LEMMA IdleCommit ==
  ASSUME Idle, NEW m, Commit(m, <<>>) PROVE Commit(m, jobs) /\ due = {}
BY DEF Idle, Commit

-----------------------------------------------------------------------------
(* The calls of the bridge *)

LEMMA RegisterKeeps ==
  ASSUME IInv, NEW p \in Peers, Register(p) PROVE IInv'
<1>1. AtRest(ledger) BY LedgerAtRest
<1>2. ledger.registered \cup {p} \in SUBSET Peers BY DEF IInv, TypeOK
<1>3. PICK m : m = [ledger EXCEPT !.registered = @ \cup {p}] OBVIOUS
<1>4. Moves(m) BY <1>1, <1>2, <1>3, RegisterMoves
<1>5. Commit(m, jobs) /\ due' = {}
  <2>1. Idle /\ Commit(m, <<>>) /\ due' = due BY <1>3 DEF Register
  <2> QED BY <2>1, IdleCommit
<1>6. disposed' \in BOOLEAN /\ draining' \in BOOLEAN BY DEF Register, IInv, TypeOK
<1>7. UNCHANGED <<inbox, tmuxPaused, live, refusals, moot, written, reported>> BY DEF Register
<1> QED BY <1>4, <1>5, <1>6, <1>7, CommitKeeps

LEMMA AckKeeps ==
  ASSUME IInv, NEW p \in Peers, NEW n \in 1..High, Ack(p, n) PROVE IInv'
<1>1. AtRest(ledger) BY LedgerAtRest
<1>2. n \in Nat BY WatermarkAssumption
<1>3. PICK m : m = ack(ledger, p, n) OBVIOUS
<1>4. Moves(m) BY <1>1, <1>2, <1>3, AckMoves
<1>5. Commit(m, jobs) /\ due' = {}
  <2>1. Idle /\ Commit(m, <<>>) /\ due' = due BY <1>3 DEF Ack
  <2> QED BY <2>1, IdleCommit
<1>6. disposed' \in BOOLEAN /\ draining' \in BOOLEAN BY DEF Ack, IInv, TypeOK
<1>7. UNCHANGED <<inbox, tmuxPaused, live, refusals, moot, written, reported>> BY DEF Ack
<1> QED BY <1>4, <1>5, <1>6, <1>7, CommitKeeps

LEMMA ClearPeerKeeps ==
  ASSUME IInv, NEW p \in Peers, ClearPeer(p) PROVE IInv'
<1>1. AtRest(ledger) BY LedgerAtRest
<1>2. PICK m : m = clearPeer(ledger, p) OBVIOUS
<1>3. Moves(m) BY <1>1, <1>2, ClearMoves
<1>4. Commit(m, jobs) /\ due' = {}
  <2>1. Idle /\ Commit(m, <<>>) /\ due' = due BY <1>2 DEF ClearPeer
  <2> QED BY <2>1, IdleCommit
<1>5. disposed' \in BOOLEAN /\ draining' \in BOOLEAN BY DEF ClearPeer, IInv, TypeOK
<1>6. UNCHANGED <<inbox, tmuxPaused, live, refusals, moot, written, reported>> BY DEF ClearPeer
<1> QED BY <1>3, <1>4, <1>5, <1>6, CommitKeeps

LEMMA ReleasePeerKeeps ==
  ASSUME IInv, NEW p \in Peers, ReleasePeer(p) PROVE IInv'
<1>1. AtRest(ledger) BY LedgerAtRest
<1>2. PICK m : m = releasePeer(ledger, p) OBVIOUS
<1>3. Moves(m) BY <1>1, <1>2, ReleaseMoves
<1>4. Commit(m, jobs) /\ due' = {}
  <2>1. Idle /\ Commit(m, <<>>) /\ due' = due BY <1>2 DEF ReleasePeer
  <2> QED BY <2>1, IdleCommit
<1>5. disposed' \in BOOLEAN /\ draining' \in BOOLEAN BY DEF ReleasePeer, IInv, TypeOK
<1>6. UNCHANGED <<inbox, tmuxPaused, live, refusals, moot, written, reported>> BY DEF ReleasePeer
<1> QED BY <1>3, <1>4, <1>5, <1>6, CommitKeeps

LEMMA DisposeKeeps ==
  ASSUME IInv, Dispose PROVE IInv'
<1>1. AtRest(ledger) BY LedgerAtRest
<1>2. PICK m : m = flushPausedPanes(releaseAll(ledger)) OBVIOUS
<1>3. Moves(m) BY <1>1, <1>2, DisposeMoves
<1>4. Commit(m, jobs) /\ due' = {}
  <2>1. Idle /\ Commit(m, <<>>) /\ due' = due BY <1>2 DEF Dispose
  <2> QED BY <2>1, IdleCommit
<1>5. disposed' \in BOOLEAN /\ draining' \in BOOLEAN BY DEF Dispose
<1>6. UNCHANGED <<inbox, tmuxPaused, live, refusals, moot, written, reported>> BY DEF Dispose
<1> QED BY <1>3, <1>4, <1>5, <1>6, CommitKeeps

LEMMA DeliverKeeps ==
  ASSUME IInv, NEW p \in Peers, Deliver(p) PROVE IInv'
<1>1. AtRest(ledger) BY LedgerAtRest
<1>2. due' \subseteq ledger.registered BY DEF Deliver, IInv, TypeOK
<1>3. disposed' \in BOOLEAN /\ draining' \in BOOLEAN BY DEF Deliver, IInv, TypeOK
<1>4. UNCHANGED <<inbox, tmuxPaused, live, refusals, moot, written, reported>> BY DEF Deliver
<1>5. CASE Commit(account(ledger, p), jobs)
  <2>1. PICK m : m = account(ledger, p) OBVIOUS
  <2>2. Moves(m) /\ m.registered = ledger.registered BY <1>1, <2>1, AccountMoves
  <2>3. Commit(m, jobs) BY <1>5, <2>1
  <2> QED BY <1>2, <1>3, <1>4, <2>2, <2>3, CommitKeeps
<1>6. CASE Commit(clearPeer(account(ledger, p), p), jobs)
  <2>1. PICK m : m = clearPeer(account(ledger, p), p) OBVIOUS
  <2>2. Moves(m) /\ m.registered = ledger.registered BY <1>1, <2>1, AccountAndClearMoves
  <2>3. Commit(m, jobs) BY <1>6, <2>1
  <2> QED BY <1>2, <1>3, <1>4, <2>2, <2>3, CommitKeeps
<1> QED BY <1>5, <1>6 DEF Deliver

-----------------------------------------------------------------------------
(* Steps of a queue *)

LEMMA AppendPlace ==
  ASSUME NEW T, NEW s \in Seq(T), NEW x \in T
  PROVE  /\ Append(s, x) \in Seq(T)
         /\ Len(s) + 1 \in DOMAIN Append(s, x) /\ Append(s, x)[Len(s) + 1] = x
         /\ \A i \in DOMAIN s : i \in DOMAIN Append(s, x) /\ Append(s, x)[i] = s[i]
         /\ \A i \in DOMAIN Append(s, x) :
              \/ i \in DOMAIN s /\ Append(s, x)[i] = s[i]
              \/ Append(s, x)[i] = x
<1>1. /\ Append(s, x) \in Seq(T) /\ Len(Append(s, x)) = Len(s) + 1 /\ Len(s) \in Nat
      /\ DOMAIN s = 1..Len(s) /\ DOMAIN Append(s, x) = 1..(Len(s) + 1)
      /\ \A i \in 1..Len(s) : Append(s, x)[i] = s[i]
      /\ Append(s, x)[Len(s) + 1] = x
  BY AppendProperties
<1> QED BY <1>1

LEMMA TailPlace ==
  ASSUME NEW T, NEW s \in Seq(T), s # <<>>
  PROVE  /\ Tail(s) \in Seq(T) /\ s[1] \in T /\ 1 \in DOMAIN s
         /\ \A i \in DOMAIN Tail(s) : i + 1 \in DOMAIN s /\ Tail(s)[i] = s[i + 1]
         /\ \A i \in DOMAIN s : i # 1 => i - 1 \in DOMAIN Tail(s) /\ Tail(s)[i - 1] = s[i]
         /\ Tail(s) = <<>> => Last(s) = s[1]
         /\ Tail(s) # <<>> => Last(Tail(s)) = Last(s)
<1>1. /\ Tail(s) \in Seq(T) /\ Len(s) \in Nat /\ Len(s) # 0 /\ Len(Tail(s)) = Len(s) - 1
      /\ DOMAIN s = 1..Len(s) /\ DOMAIN Tail(s) = 1..(Len(s) - 1)
      /\ \A i \in 1..(Len(s) - 1) : Tail(s)[i] = s[i + 1]
  BY HeadTailProperties
<1>2. \A i \in 1..Len(s) : s[i] \in T BY ElementOfSeq, <1>1
<1>3. ASSUME Tail(s) = <<>> PROVE Len(s) = 1
  <2>1. PICK t : t = Tail(s) OBVIOUS
  <2>2. Len(t) = 0 BY <1>3, <2>1
  <2>3. Len(s) \in Nat /\ Len(t) = Len(s) - 1 BY <1>1, <2>1
  <2> QED BY <2>2, <2>3
<1>4. Tail(s) # <<>> => Len(s) - 1 \in 1..(Len(s) - 1) /\ Len(s) - 1 + 1 = Len(s) BY <1>1
<1>5. ASSUME NEW i \in DOMAIN s, i # 1
      PROVE  i - 1 \in DOMAIN Tail(s) /\ Tail(s)[i - 1] = s[i]
  <2>1. i - 1 \in 1..(Len(s) - 1) /\ i - 1 + 1 = i BY <1>1, <1>5
  <2> QED BY <1>1, <2>1
<1>6. Tail(s) # <<>> => Last(Tail(s)) = Last(s) BY <1>1, <1>4 DEF Last
<1> QED BY <1>1, <1>2, <1>3, <1>5, <1>6 DEF Last

(* What a step leaves of the invariant's first parts when only the queues  *)
(* move.                                                                   *)
LEMMA QueuesMove ==
  ASSUME IInv, UNCHANGED ledger, UNCHANGED reported, Types',
         due' \subseteq ledger.registered, disposed' \in BOOLEAN, tmuxPaused' \in BOOLEAN,
         live' \in BOOLEAN, draining' \in BOOLEAN, moot' \in BOOLEAN,
         written' \in 0..MaxOutput, refusals' \in 0..MaxRefusals
  PROVE  TypeOK' /\ PausedBelowLowIsResuming'
<1>1. TypeOK' BY DEF IInv, TypeOK, Types, Message, Settlement
<1>2. PausedBelowLowIsResuming' BY DEF IInv, PausedBelowLowIsResuming, Sum, totalOutstanding
<1> QED BY <1>1, <1>2

(* And when what is in flight stays in flight.                             *)
LEMMA QueuesCount ==
  ASSUME IInv, Types', UNCHANGED ledger,
         \A e : /\ Count(sent', Loop(e)) + Count(inbox', LoopReply(e)) + Count(jobs', JobOf(e))
                     = Count(sent, Loop(e)) + Count(inbox, LoopReply(e)) + Count(jobs, JobOf(e))
  PROVE  OneContinue'
<1> DEFINE e == ledger.flow
<1>1. Types BY TypesHold DEF IInv
<1>2. InFlight(e) = Count(sent, Loop(e)) + Count(inbox, LoopReply(e)) + Count(jobs, JobOf(e))
  BY <1>1, InFlightType
<1>3. InFlight(e)' = Count(sent', Loop(e)) + Count(inbox', LoopReply(e)) + Count(jobs', JobOf(e))
  BY InFlightNext
<1>4. InFlight(e)' = InFlight(e) BY <1>2, <1>3
<1> QED BY <1>4 DEF IInv, OneContinue

-----------------------------------------------------------------------------
(* tmux *)

LEMMA TmuxOutputKeeps ==
  ASSUME IInv, TmuxOutput PROVE IInv'
<1> DEFINE x == [reply |-> FALSE, ok |-> TRUE, of |-> NoCommand]
<1>1. Types BY TypesHold DEF IInv
<1>2. x \in Message /\ ~x.reply /\ x.ok /\ x.of = NoCommand
  BY DEF Message, NoCommand, Command
<1>3. inbox' = Append(inbox, x) /\ inbox \in Seq(Message) BY <1>1 DEF TmuxOutput, Put, Types
<1>4. UNCHANGED <<ledger, disposed, sent, tmuxPaused, live, due, jobs, draining, refusals,
                  reported, moot>>
  BY DEF TmuxOutput
<1> HIDE DEF x
<1>5. /\ inbox' \in Seq(Message)
      /\ \A i \in DOMAIN inbox : i \in DOMAIN inbox' /\ inbox'[i] = inbox[i]
      /\ \A i \in DOMAIN inbox' : (i \in DOMAIN inbox /\ inbox'[i] = inbox[i]) \/ inbox'[i] = x
  BY <1>2, <1>3, AppendPlace
<1>6. Types' BY <1>1, <1>4, <1>5 DEF Types
<1>7. TypeOK' /\ PausedBelowLowIsResuming'
  <2>1. written' \in 0..MaxOutput BY BoundAssumption DEF TmuxOutput, IInv, TypeOK
  <2> QED BY <1>4, <1>6, <2>1, QueuesMove DEF IInv, TypeOK
<1>8. OneContinue'
  <2>1. ASSUME NEW e PROVE Count(inbox', LoopReply(e)) = Count(inbox, LoopReply(e))
    <3>1. x \notin LoopReply(e) BY <1>2 DEF LoopReply, LoopContinue, NoCommand
    <3>2. Count(inbox', LoopReply(e))
            = Count(inbox, LoopReply(e)) + IF x \in LoopReply(e) THEN 1 ELSE 0
      BY <1>2, <1>3, CountAppend
    <3>3. Count(inbox, LoopReply(e)) \in Nat BY <1>3, CountType
    <3> QED BY <3>1, <3>2, <3>3
  <2> QED BY <1>4, <1>6, <2>1, QueuesCount
<1>9. Numbered' BY <1>2, <1>4, <1>5 DEF IInv, Numbered
<1>10. Honest' BY <1>2, <1>4, <1>5 DEF TmuxOutput, IInv, Honest
<1>11. ContinueIsLast' BY <1>4, <1>5 DEF IInv, ContinueIsLast, IsReply
<1>12. FlowsWhenBelieved' BY <1>4, <1>5 DEF IInv, FlowsWhenBelieved, RefusalPending
<1>13. PausedWhenBelieved' BY <1>4 DEF IInv, PausedWhenBelieved
<1> QED BY <1>7, <1>8, <1>9, <1>10, <1>11, <1>12, <1>13 DEF IInv

(* What tmux did with a command, and what it answers.                      *)
Executed(c, ok) ==
  /\ IF ok THEN tmuxPaused' = (c.action = "pause") /\ refusals' = refusals
           ELSE tmuxPaused' = tmuxPaused /\ refusals < MaxRefusals /\ refusals' = refusals + 1
  /\ inbox' = Append(inbox, [reply |-> TRUE, ok |-> ok, of |-> c])

LEMMA TmuxExecuteKeeps ==
  ASSUME IInv, TmuxExecute PROVE IInv'
<1>1. Types BY TypesHold DEF IInv
<1>2. PICK c \in Command : c = sent[1]
  BY <1>1, TailPlace DEF TmuxExecute, Types
<1>3. PICK ok \in BOOLEAN : Executed(c, ok) BY <1>2 DEF TmuxExecute, Put, Executed
<1> DEFINE x == [reply |-> TRUE, ok |-> ok, of |-> c]
<1>4. x \in Message /\ x.reply /\ x.ok = ok /\ x.of = c BY DEF Message
<1>5. inbox' = Append(inbox, x) BY <1>3 DEF Executed
<1>6. UNCHANGED <<ledger, disposed, live, due, jobs, draining, written, reported, moot>> /\ live
  BY DEF TmuxExecute
<1> HIDE DEF x
<1>7. /\ inbox' \in Seq(Message)
      /\ Len(inbox) + 1 \in DOMAIN inbox' /\ inbox'[Len(inbox) + 1] = x
      /\ \A i \in DOMAIN inbox : i \in DOMAIN inbox' /\ inbox'[i] = inbox[i]
      /\ \A i \in DOMAIN inbox' : (i \in DOMAIN inbox /\ inbox'[i] = inbox[i]) \/ inbox'[i] = x
  BY <1>1, <1>4, <1>5, AppendPlace DEF Types
<1>8. /\ sent' \in Seq(Command) /\ 1 \in DOMAIN sent /\ sent # <<>>
      /\ \A i \in DOMAIN sent' : i + 1 \in DOMAIN sent /\ sent'[i] = sent[i + 1]
      /\ sent' = <<>> => Last(sent) = c
      /\ sent' # <<>> => Last(sent') = Last(sent)
  BY <1>1, <1>2, TailPlace DEF TmuxExecute, Types
<1>9. Types' BY <1>1, <1>6, <1>7, <1>8 DEF Types
<1>10. TypeOK' /\ PausedBelowLowIsResuming'
  <2>1. tmuxPaused \in BOOLEAN /\ refusals \in 0..MaxRefusals BY DEF IInv, TypeOK
  <2>2. refusals' \in 0..MaxRefusals BY <1>3, <2>1, BoundAssumption DEF Executed
  <2>3. tmuxPaused' \in BOOLEAN BY <1>3, <2>1 DEF Executed
  <2> QED BY <1>6, <1>9, <2>2, <2>3, QueuesMove DEF IInv, TypeOK
<1>11. OneContinue'
  <2>1. ASSUME NEW e
        PROVE  Count(sent', Loop(e)) + Count(inbox', LoopReply(e)) + Count(jobs', JobOf(e))
                 = Count(sent, Loop(e)) + Count(inbox, LoopReply(e)) + Count(jobs, JobOf(e))
    <3>1. x \in LoopReply(e) <=> c \in Loop(e) BY <1>2, <1>4 DEF LoopReply, Loop
    <3>2. Count(inbox', LoopReply(e))
            = Count(inbox, LoopReply(e)) + IF x \in LoopReply(e) THEN 1 ELSE 0
      BY <1>1, <1>4, <1>5, CountAppend DEF Types
    <3>3. Count(sent, Loop(e)) = Count(sent', Loop(e)) + IF c \in Loop(e) THEN 1 ELSE 0
      BY <1>1, <1>2, <1>8, CountTail DEF TmuxExecute, Types
    <3>4. /\ Count(inbox, LoopReply(e)) \in Nat /\ Count(sent', Loop(e)) \in Nat
          /\ Count(jobs, JobOf(e)) \in Nat
      BY <1>1, <1>8, CountType DEF Types
    <3> QED BY <1>6, <3>1, <3>2, <3>3, <3>4
  <2> QED BY <1>6, <1>9, <2>1, QueuesCount
<1>12. Numbered'
  <2>1. c.episode \in 1..ledger.episodes BY <1>2, <1>8 DEF IInv, Numbered
  <2>2. \A i \in DOMAIN sent' : sent'[i].episode \in 1..ledger.episodes
    BY <1>8 DEF IInv, Numbered
  <2>3. \A i \in DOMAIN inbox' :
          IF inbox'[i].reply THEN inbox'[i].of.episode \in 1..ledger.episodes
                             ELSE inbox'[i].of = NoCommand
    BY <1>4, <1>7, <2>1 DEF IInv, Numbered
  <2> QED BY <1>6, <2>2, <2>3 DEF IInv, Numbered
<1>13. Honest'
  <2>1. refusals' = 0 => refusals = 0 /\ ok BY <1>3 DEF Executed, IInv, TypeOK
  <2> QED BY <1>4, <1>6, <1>7, <2>1 DEF IInv, Honest
<1>14. ContinueIsLast'
  <2>1. SUFFICES ASSUME ledger.resuming PROVE ContinueIsLast' BY <1>6 DEF ContinueIsLast
  <2>2. LoopContinue(Last(sent)) /\ Last(sent).episode = ledger.flow
    BY <1>6, <1>8, <2>1 DEF IInv, ContinueIsLast
  <2>3. CASE sent' # <<>> BY <1>6, <1>8, <2>2, <2>3 DEF ContinueIsLast
  <2>4. CASE sent' = <<>>
    <3>1. IsReply(x) /\ x.of.episode = ledger.flow /\ c.action = "continue"
      BY <1>4, <1>8, <2>2, <2>4 DEF IsReply, LoopContinue
    <3>2. x.ok => ~tmuxPaused' BY <1>3, <1>4, <3>1 DEF Executed
    <3> QED BY <1>6, <1>7, <2>4, <3>1, <3>2 DEF ContinueIsLast
  <2> QED BY <2>3, <2>4
<1>15. FlowsWhenBelieved'
  <2>1. SUFFICES ASSUME ledger.flow = 0, ~moot PROVE FlowsWhenBelieved'
    BY <1>6 DEF FlowsWhenBelieved
  <2>2. Last(sent).action = "continue" BY <1>6, <1>8, <2>1 DEF IInv, FlowsWhenBelieved
  <2>3. CASE sent' # <<>> BY <1>8, <2>2, <2>3 DEF FlowsWhenBelieved
  <2>4. CASE sent' = <<>>
    <3>1. c.action = "continue" BY <1>8, <2>2, <2>4
    <3>2. ok => ~tmuxPaused' BY <1>3, <3>1 DEF Executed
    <3>3. ~ok => RefusalPending' BY <1>4, <1>7, <3>1 DEF RefusalPending
    <3> QED BY <2>4, <3>2, <3>3 DEF FlowsWhenBelieved
  <2> QED BY <2>3, <2>4
<1>16. PausedWhenBelieved'
  <2>1. SUFFICES ASSUME refusals' = 0, ledger.flow # 0, ~ledger.resuming PROVE PausedWhenBelieved'
    BY <1>6 DEF PausedWhenBelieved
  <2>2. refusals = 0 /\ ok BY <1>3, <2>1 DEF Executed, IInv, TypeOK
  <2>3. Last(sent).action = "pause" BY <1>6, <1>8, <2>1, <2>2 DEF IInv, PausedWhenBelieved
  <2>4. CASE sent' # <<>> BY <1>8, <2>3, <2>4 DEF PausedWhenBelieved
  <2>5. CASE sent' = <<>>
    <3>1. tmuxPaused' BY <1>3, <1>8, <2>2, <2>3, <2>5 DEF Executed
    <3> QED BY <2>5, <3>1 DEF PausedWhenBelieved
  <2> QED BY <2>4, <2>5
<1> QED BY <1>10, <1>11, <1>12, <1>13, <1>14, <1>15, <1>16 DEF IInv

-----------------------------------------------------------------------------
(* What tmux wrote, read                                                   *)

(* Reading the inbox, and its answer to one of the loop's Continues.       *)
LEMMA ReceiveOutputKeeps ==
  ASSUME IInv, ReceiveOutput PROVE IInv'
<1>1. Types BY TypesHold DEF IInv
<1>2. UNCHANGED <<ledger, disposed, sent, tmuxPaused, live, jobs, written, refusals, reported, moot>>
  BY DEF ReceiveOutput
<1>3. /\ inbox' \in Seq(Message) /\ inbox[1] \in Message /\ 1 \in DOMAIN inbox
      /\ \A i \in DOMAIN inbox' : i + 1 \in DOMAIN inbox /\ inbox'[i] = inbox[i + 1]
      /\ \A i \in DOMAIN inbox : i # 1 => i - 1 \in DOMAIN inbox' /\ inbox'[i - 1] = inbox[i]
  BY <1>1, TailPlace DEF ReceiveOutput, Reading, Types
<1>4. ~inbox[1].reply /\ inbox[1].of = NoCommand
  BY <1>3 DEF ReceiveOutput, IInv, Numbered
<1>5. Types' BY <1>1, <1>2, <1>3 DEF Types
<1>6. TypeOK' /\ PausedBelowLowIsResuming'
  <2>1. due' \subseteq ledger.registered /\ draining' \in BOOLEAN BY DEF ReceiveOutput
  <2> QED BY <1>2, <1>5, <2>1, QueuesMove DEF IInv, TypeOK
<1>7. OneContinue'
  <2>1. ASSUME NEW e PROVE Count(inbox', LoopReply(e)) = Count(inbox, LoopReply(e))
    <3>1. inbox[1] \notin LoopReply(e) BY <1>4 DEF LoopReply, LoopContinue, NoCommand
    <3>2. Count(inbox, LoopReply(e))
            = Count(inbox', LoopReply(e)) + IF inbox[1] \in LoopReply(e) THEN 1 ELSE 0
      BY <1>1, CountTail DEF ReceiveOutput, Reading, Types
    <3>3. Count(inbox', LoopReply(e)) \in Nat BY <1>3, CountType
    <3> QED BY <3>1, <3>2, <3>3
  <2> QED BY <1>2, <1>5, <2>1, QueuesCount
<1>8. Numbered' BY <1>2, <1>3 DEF IInv, Numbered
<1>9. Honest' BY <1>2, <1>3 DEF ReceiveOutput, Reading, IInv, Honest
<1>10. \A i \in DOMAIN inbox : inbox[i].reply =>
         \E k \in DOMAIN inbox' : inbox'[k] = inbox[i]
  BY <1>3, <1>4
<1>11. ContinueIsLast' BY <1>2, <1>10 DEF IInv, ContinueIsLast, IsReply
<1>12. FlowsWhenBelieved' BY <1>2, <1>10 DEF IInv, FlowsWhenBelieved, RefusalPending
<1>13. PausedWhenBelieved' BY <1>2 DEF IInv, PausedWhenBelieved
<1> QED BY <1>6, <1>7, <1>8, <1>9, <1>11, <1>12, <1>13 DEF IInv

LEMMA ReceiveReplyKeeps ==
  ASSUME IInv, ReceiveReply PROVE IInv'
<1>1. Types BY TypesHold DEF IInv
<1>2. UNCHANGED <<ledger, disposed, sent, tmuxPaused, live, due, written, refusals, reported>> /\ live
  BY DEF ReceiveReply, Reading
<1>3. /\ inbox' \in Seq(Message) /\ inbox[1] \in Message /\ 1 \in DOMAIN inbox
      /\ \A i \in DOMAIN inbox' : i + 1 \in DOMAIN inbox /\ inbox'[i] = inbox[i + 1]
      /\ \A i \in DOMAIN inbox : i # 1 => i - 1 \in DOMAIN inbox' /\ inbox'[i - 1] = inbox[i]
  BY <1>1, TailPlace DEF ReceiveReply, Reading, Types
<1>4. PICK r \in Message : r = inbox[1] BY <1>3
<1>5. r.reply /\ r.of.episode \in 1..ledger.episodes /\ (refusals = 0 => r.ok)
  BY <1>3, <1>4 DEF ReceiveReply, IInv, Numbered, Honest
<1>6. moot' = (moot \/ (r.of.flush /\ ~r.ok)) BY <1>4 DEF ReceiveReply
<1> DEFINE x == [episode |-> r.of.episode, outcome |-> IF r.ok THEN "ok" ELSE "refused"]
<1>7. jobs' = IF LoopContinue(r.of) THEN Append(jobs, x) ELSE jobs BY <1>4 DEF ReceiveReply
<1>8. x \in Settlement /\ x.episode = r.of.episode /\ x.outcome # "gone"
      /\ (x.outcome = "ok" <=> r.ok) /\ (x.outcome = "refused" <=> ~r.ok)
  BY DEF Settlement, Message, Command
<1> HIDE DEF x
<1>9. /\ jobs' \in Seq(Settlement)
      /\ LoopContinue(r.of) => \E i \in DOMAIN jobs' : jobs'[i] = x
      /\ \A i \in DOMAIN jobs : i \in DOMAIN jobs' /\ jobs'[i] = jobs[i]
      /\ \A i \in DOMAIN jobs' : (i \in DOMAIN jobs /\ jobs'[i] = jobs[i]) \/ jobs'[i] = x
  BY <1>1, <1>7, <1>8, AppendPlace DEF Types
<1>10. Types' BY <1>1, <1>2, <1>3, <1>9 DEF Types
<1>11. TypeOK' /\ PausedBelowLowIsResuming'
  <2>1. draining' \in BOOLEAN /\ moot' \in BOOLEAN BY DEF ReceiveReply
  <2> QED BY <1>2, <1>10, <2>1, QueuesMove DEF IInv, TypeOK
<1>12. OneContinue'
  <2>1. ASSUME NEW e
        PROVE  Count(sent', Loop(e)) + Count(inbox', LoopReply(e)) + Count(jobs', JobOf(e))
                 = Count(sent, Loop(e)) + Count(inbox, LoopReply(e)) + Count(jobs, JobOf(e))
    <3>1. r \in LoopReply(e) <=> LoopContinue(r.of) /\ x \in JobOf(e)
      BY <1>8 DEF LoopReply, JobOf
    <3>2. Count(inbox, LoopReply(e))
            = Count(inbox', LoopReply(e)) + IF r \in LoopReply(e) THEN 1 ELSE 0
      BY <1>1, <1>4, CountTail DEF ReceiveReply, Reading, Types
    <3>3. Count(Append(jobs, x), JobOf(e))
            = Count(jobs, JobOf(e)) + IF x \in JobOf(e) THEN 1 ELSE 0
      BY <1>1, <1>8, CountAppend DEF Types
    <3>4. /\ Count(inbox', LoopReply(e)) \in Nat /\ Count(sent, Loop(e)) \in Nat
          /\ Count(jobs, JobOf(e)) \in Nat
      BY <1>1, <1>3, CountType DEF Types
    <3>5. CASE LoopContinue(r.of) BY <1>2, <1>7, <3>1, <3>2, <3>3, <3>4, <3>5
    <3>6. CASE ~LoopContinue(r.of) BY <1>2, <1>7, <3>1, <3>2, <3>4, <3>6
    <3> QED BY <3>5, <3>6
  <2> QED BY <1>2, <1>10, <2>1, QueuesCount
<1>13. Numbered'
  <2>1. \A i \in DOMAIN jobs' : jobs'[i].episode \in 1..ledger.episodes
    BY <1>5, <1>8, <1>9 DEF IInv, Numbered
  <2>2. \A i \in DOMAIN inbox' :
          IF inbox'[i].reply THEN inbox'[i].of.episode \in 1..ledger.episodes
                             ELSE inbox'[i].of = NoCommand
    BY <1>3 DEF IInv, Numbered
  <2> QED BY <1>2, <2>1, <2>2 DEF IInv, Numbered
<1>14. Honest'
  <2>1. \A i \in DOMAIN jobs' : jobs'[i].outcome # "gone"
    BY <1>2, <1>8, <1>9 DEF IInv, Honest
  <2>2. refusals = 0 => \A i \in DOMAIN jobs' : jobs'[i].outcome # "refused"
    BY <1>5, <1>8, <1>9 DEF IInv, Honest
  <2>3. refusals = 0 => \A i \in DOMAIN inbox' : inbox'[i].ok BY <1>3 DEF IInv, Honest
  <2> QED BY <1>2, <2>1, <2>2, <2>3 DEF Honest
<1>15. \A i \in DOMAIN inbox : inbox[i] = r \/ \E k \in DOMAIN inbox' : inbox'[k] = inbox[i]
  BY <1>3, <1>4
<1>16. ContinueIsLast'
  <2>1. SUFFICES ASSUME ledger.resuming PROVE ContinueIsLast' BY <1>2 DEF ContinueIsLast
  <2>2. CASE sent # <<>> BY <1>2, <2>1, <2>2 DEF IInv, ContinueIsLast
  <2>3. CASE \E i \in DOMAIN jobs : jobs[i].episode = ledger.flow
                                    /\ (jobs[i].outcome = "ok" => ~tmuxPaused)
    BY <1>2, <1>9, <2>1, <2>2, <2>3 DEF ContinueIsLast
  <2>4. CASE /\ sent = <<>>
             /\ \E i \in DOMAIN inbox : IsReply(inbox[i]) /\ inbox[i].of.episode = ledger.flow
                                         /\ (inbox[i].ok => ~tmuxPaused)
    <3>1. PICK i \in DOMAIN inbox : IsReply(inbox[i]) /\ inbox[i].of.episode = ledger.flow
                                         /\ (inbox[i].ok => ~tmuxPaused)
      BY <2>4
    <3>2. CASE inbox[i] = r
      <4>1. LoopContinue(r.of) BY <3>1, <3>2 DEF IsReply
      <4>2. PICK k \in DOMAIN jobs' : jobs'[k] = x BY <1>9, <4>1
      <4> QED BY <1>2, <1>8, <2>4, <3>1, <3>2, <4>2 DEF ContinueIsLast
    <3>3. CASE \E k \in DOMAIN inbox' : inbox'[k] = inbox[i]
      BY <1>2, <2>4, <3>1, <3>3 DEF ContinueIsLast
    <3> QED BY <1>15, <3>2, <3>3
  <2> QED BY <1>2, <2>1, <2>2, <2>3, <2>4 DEF IInv, ContinueIsLast
<1>17. FlowsWhenBelieved'
  <2>1. SUFFICES ASSUME ledger.flow = 0, ~moot' PROVE FlowsWhenBelieved'
    BY <1>2 DEF FlowsWhenBelieved
  <2>2. ~moot /\ ~(r.of.flush /\ ~r.ok) BY <1>6, <2>1
  <2>3. RefusalPending => RefusalPending'
    <3>1. ASSUME NEW i \in DOMAIN inbox, inbox[i].reply, ~inbox[i].ok,
                 inbox[i].of.action = "continue"
          PROVE  RefusalPending'
      <4>1. CASE inbox[i] = r
        <5>1. LoopContinue(r.of) BY <2>2, <3>1, <4>1 DEF LoopContinue
        <5>2. PICK k \in DOMAIN jobs' : jobs'[k] = x BY <1>9, <5>1
        <5> QED BY <1>8, <3>1, <4>1, <5>2 DEF RefusalPending
      <4>2. CASE \E k \in DOMAIN inbox' : inbox'[k] = inbox[i]
        BY <3>1, <4>2 DEF RefusalPending
      <4> QED BY <1>15, <4>1, <4>2
    <3>2. ASSUME NEW i \in DOMAIN jobs, jobs[i].outcome = "refused" PROVE RefusalPending'
      BY <1>9, <3>2 DEF RefusalPending
    <3> QED BY <3>1, <3>2 DEF RefusalPending
  <2> QED BY <1>2, <2>1, <2>2, <2>3 DEF IInv, FlowsWhenBelieved
<1>18. PausedWhenBelieved' BY <1>2 DEF IInv, PausedWhenBelieved
<1> QED BY <1>11, <1>12, <1>13, <1>14, <1>16, <1>17, <1>18 DEF IInv

-----------------------------------------------------------------------------
(* The end of the connection, and a settled Continue *)

LEMMA DisconnectKeeps ==
  ASSUME IInv, Disconnect PROVE IInv'
<1> DEFINE commands == [i \in DOMAIN inbox |-> inbox[i].of]
<1>1. Types BY TypesHold DEF IInv
<1>2. UNCHANGED <<ledger, disposed, tmuxPaused, due, written, refusals, reported, moot>>
      /\ live' = FALSE /\ sent' = <<>> /\ inbox' = <<>> /\ jobs = <<>>
  BY DEF Disconnect, Idle
<1>3. commands \in Seq(Command)
  <2>1. Len(inbox) \in Nat /\ DOMAIN inbox = 1..Len(inbox) BY <1>1 DEF Types
  <2>2. \A i \in DOMAIN inbox : inbox[i] \in Message BY <1>1, ElementOfSeq DEF Types
  <2>3. \A i \in DOMAIN inbox : inbox[i].of \in Command BY <2>2 DEF Message
  <2>4. commands \in [1..Len(inbox) -> Command] BY <2>1, <2>3
  <2> HIDE DEF commands
  <2> QED BY <2>1, <2>4, IsASeq
<1>4. Unanswered = commands \o sent /\ Unanswered \in Seq(Command)
  <2>1. Unanswered = commands \o sent BY DEF Unanswered
  <2> HIDE DEF commands
  <2> QED BY <1>1, <1>3, <2>1, ConcatProperties DEF Types
<1>5. /\ jobs' = Rejected(Unanswered) /\ jobs' \in Seq(Settlement)
      /\ \A i \in DOMAIN jobs' : jobs'[i].outcome = "gone"
           /\ \E j \in DOMAIN Unanswered :
                LoopContinue(Unanswered[j]) /\ Unanswered[j].episode = jobs'[i].episode
      /\ \A e : Count(jobs', JobOf(e)) = Count(Unanswered, Loop(e))
  BY <1>4, RejectedCount DEF Disconnect
<1>6. Types' BY <1>1, <1>2, <1>5 DEF Types
<1>7. TypeOK' /\ PausedBelowLowIsResuming'
  <2>1. draining' \in BOOLEAN BY DEF Disconnect
  <2> QED BY <1>2, <1>6, <2>1, QueuesMove DEF IInv, TypeOK
<1>8. OneContinue'
  <2>1. ASSUME NEW e
        PROVE  Count(sent', Loop(e)) + Count(inbox', LoopReply(e)) + Count(jobs', JobOf(e))
                 = Count(sent, Loop(e)) + Count(inbox, LoopReply(e)) + Count(jobs, JobOf(e))
    <3>1. Count(jobs, JobOf(e)) = 0 /\ Count(sent', Loop(e)) = 0 /\ Count(inbox', LoopReply(e)) = 0
      BY <1>2, CountEmpty
    <3>2. At(commands, Loop(e)) = At(inbox, LoopReply(e))
      <4>1. \A i \in DOMAIN inbox : inbox[i] \in Message /\ inbox[i].of \in Command
        <5>1. \A i \in DOMAIN inbox : inbox[i] \in Message BY <1>1, ElementOfSeq DEF Types
        <5> QED BY <5>1 DEF Message
      <4> QED BY <4>1 DEF At, Loop, LoopReply
    <3> HIDE DEF commands
    <3>3. Count(Unanswered, Loop(e)) = Count(commands, Loop(e)) + Count(sent, Loop(e))
      BY <1>1, <1>3, <1>4, CountConcat DEF Types
    <3>4. Count(sent, Loop(e)) \in Nat /\ Count(inbox, LoopReply(e)) \in Nat
      BY <1>1, CountType DEF Types
    <3> QED BY <1>5, <3>1, <3>2, <3>3, <3>4 DEF Count
  <2> QED BY <1>2, <1>6, <2>1, QueuesCount
<1>9. Numbered'
  <2>1. ASSUME NEW i \in DOMAIN jobs' PROVE jobs'[i].episode \in 1..ledger.episodes
    <3>1. PICK j \in DOMAIN Unanswered :
            LoopContinue(Unanswered[j]) /\ Unanswered[j].episode = jobs'[i].episode
      BY <1>5, <2>1
    <3>2. \/ \E k \in DOMAIN commands : Unanswered[j] = commands[k]
          \/ \E k \in DOMAIN sent : Unanswered[j] = sent[k]
      <4> HIDE DEF commands
      <4>1. sent \in Seq(Command) BY <1>1 DEF Types
      <4>2. j \in DOMAIN (commands \o sent) BY <1>4
      <4>3. \/ j \in DOMAIN commands /\ (commands \o sent)[j] = commands[j]
            \/ \E k \in DOMAIN sent : (commands \o sent)[j] = sent[k]
        BY <1>3, <4>1, <4>2, ConcatPlace
      <4> QED BY <1>4, <4>3
    <3>3. ASSUME NEW k \in DOMAIN inbox, LoopContinue(inbox[k].of)
          PROVE  inbox[k].of.episode \in 1..ledger.episodes
      BY <3>3 DEF IInv, Numbered, NoCommand, LoopContinue
    <3> QED BY <3>1, <3>2, <3>3 DEF IInv, Numbered
  <2> QED BY <1>2, <2>1 DEF IInv, Numbered
<1>10. Honest' BY <1>2, <1>5 DEF Honest
<1>11. ContinueIsLast' /\ FlowsWhenBelieved' /\ PausedWhenBelieved'
  BY <1>2 DEF ContinueIsLast, FlowsWhenBelieved, PausedWhenBelieved
<1> QED BY <1>7, <1>8, <1>9, <1>10, <1>11 DEF IInv

(* The ledger after the continuation of a settled Continue.                *)
LEMMA SettledType ==
  ASSUME Types, NEW job \in Settlement
  PROVE  /\ Settled(job) \in [registered : SUBSET Peers, outstanding : [Peers -> Nat], flow : Nat,
                               resuming : BOOLEAN, episodes : Nat, issued : {<<>>}]
         /\ Settled(job).registered = ledger.registered
         /\ Settled(job).outstanding = ledger.outstanding
         /\ Settled(job).episodes = ledger.episodes
         /\ ledger.flow # job.episode => Settled(job) = ledger
         /\ ledger.flow = job.episode /\ job.outcome = "refused" =>
              Settled(job).flow = ledger.flow /\ ~Settled(job).resuming
         /\ ledger.flow = job.episode /\ job.outcome # "refused" =>
              Settled(job).flow = 0 /\ ~Settled(job).resuming
<1>1. CASE ledger.flow # job.episode BY <1>1 DEF Types, Settled
<1>2. CASE ledger.flow = job.episode /\ job.outcome = "refused"
  <2>1. Settled(job) = [ledger EXCEPT !.resuming = FALSE] BY <1>2 DEF Settled
  <2> QED BY <1>2, <2>1 DEF Types
<1>3. CASE ledger.flow = job.episode /\ job.outcome # "refused"
  <2>1. Settled(job) = [ledger EXCEPT !.flow = 0, !.resuming = FALSE] BY <1>3 DEF Settled, Drop
  <2>2. /\ Settled(job).registered = ledger.registered
        /\ Settled(job).outstanding = ledger.outstanding
        /\ Settled(job).episodes = ledger.episodes
        /\ Settled(job).flow = 0 /\ ~Settled(job).resuming
    BY <2>1 DEF Types
  <2>3. Settled(job) \in [registered : SUBSET Peers, outstanding : [Peers -> Nat], flow : Nat,
                          resuming : BOOLEAN, episodes : Nat, issued : {<<>>}]
    <3> DEFINE none == {<<>>}
    <3>1. ledger \in [registered : SUBSET Peers, outstanding : [Peers -> Nat], flow : Nat,
                      resuming : BOOLEAN, episodes : Nat, issued : none]
      BY DEF Types
    <3> HIDE DEF none
    <3>2. Settled(job) \in [registered : SUBSET Peers, outstanding : [Peers -> Nat], flow : Nat,
                            resuming : BOOLEAN, episodes : Nat, issued : none]
      <4>1. PICK l : l = [ledger EXCEPT !.flow = 0] OBVIOUS
      <4>2. l \in [registered : SUBSET Peers, outstanding : [Peers -> Nat], flow : Nat,
                   resuming : BOOLEAN, episodes : Nat, issued : none]
        BY <3>1, <4>1
      <4>3. Settled(job) = [l EXCEPT !.resuming = FALSE] BY <2>1, <3>1, <4>1
      <4> QED BY <4>2, <4>3
    <3> QED BY <3>2 DEF none
  <2> QED BY <1>3, <2>2, <2>3
<1> QED BY <1>1, <1>2, <1>3

LEMMA JobKeeps ==
  ASSUME IInv, Job PROVE IInv'
<1>1. Types BY TypesHold DEF IInv
<1>2. UNCHANGED <<disposed, sent, inbox, tmuxPaused, live, due, written, refusals>> /\ draining' = TRUE
  BY DEF Job
<1>3. PICK job \in Settlement : job = jobs[1]
  BY <1>1, TailPlace DEF Job, Types
<1>4. /\ ledger' = Settled(job)
      /\ reported' = IF job.outcome = "refused" /\ ledger.flow = job.episode
                       THEN reported \cup {job.episode} ELSE reported
      /\ moot' = (moot \/ (job.outcome = "refused" /\ ledger.flow # job.episode))
  BY <1>3 DEF Job
<1>5. /\ jobs' \in Seq(Settlement) /\ 1 \in DOMAIN jobs /\ jobs # <<>> /\ jobs' = Tail(jobs)
      /\ \A i \in DOMAIN jobs' : i + 1 \in DOMAIN jobs /\ jobs'[i] = jobs[i + 1]
      /\ \A i \in DOMAIN jobs : i # 1 => i - 1 \in DOMAIN jobs' /\ jobs'[i - 1] = jobs[i]
  BY <1>1, TailPlace DEF Job, Types
<1>6. job.episode \in 1..ledger.episodes BY <1>3, <1>5 DEF IInv, Numbered
<1>7. /\ ledger' \in [registered : SUBSET Peers, outstanding : [Peers -> Nat], flow : Nat,
                      resuming : BOOLEAN, episodes : Nat, issued : {<<>>}]
      /\ ledger'.registered = ledger.registered /\ ledger'.outstanding = ledger.outstanding
      /\ ledger'.episodes = ledger.episodes
      /\ ledger.flow # job.episode => ledger' = ledger
      /\ ledger.flow = job.episode /\ job.outcome = "refused" =>
           ledger'.flow = ledger.flow /\ ~ledger'.resuming
      /\ ledger.flow = job.episode /\ job.outcome # "refused" =>
           ledger'.flow = 0 /\ ~ledger'.resuming
  BY <1>1, <1>4, SettledType
<1>8. Types' BY <1>1, <1>2, <1>5, <1>7 DEF Types
<1>9. TypeOK'
  <2>1. reported' \subseteq 1..ledger'.episodes BY <1>4, <1>6, <1>7 DEF IInv, TypeOK
  <2>2. moot' \in BOOLEAN BY <1>4
  <2> QED BY <1>2, <1>7, <1>8, <2>1, <2>2 DEF IInv, TypeOK, Types, Message, Settlement
<1>10. Honest' BY <1>2, <1>5 DEF IInv, Honest
<1>11. Numbered'
  <2>1. ledger.flow \in 0..ledger.episodes /\ (ledger.resuming => ledger.flow # 0)
    BY DEF IInv, Numbered
  <2>2. ledger'.flow \in 0..ledger'.episodes /\ (ledger'.resuming => ledger'.flow # 0)
    <3>1. CASE ledger.flow # job.episode BY <1>7, <2>1, <3>1
    <3>2. CASE ledger.flow = job.episode /\ job.outcome = "refused" BY <1>7, <2>1, <3>2
    <3>3. CASE ledger.flow = job.episode /\ job.outcome # "refused" BY <1>6, <1>7, <2>1, <3>3
    <3> QED BY <3>1, <3>2, <3>3
  <2>3. \A i \in DOMAIN jobs' : jobs'[i].episode \in 1..ledger'.episodes
    BY <1>5, <1>7 DEF IInv, Numbered
  <2> QED BY <1>2, <1>7, <2>2, <2>3 DEF IInv, Numbered
<1>12. ASSUME NEW e
       PROVE  /\ Count(jobs, JobOf(e)) = Count(jobs', JobOf(e)) + IF job.episode = e THEN 1 ELSE 0
              /\ Count(jobs', JobOf(e)) \in Nat
  <2>1. job \in JobOf(e) <=> job.episode = e BY DEF JobOf
  <2>2. Count(jobs, JobOf(e)) = Count(jobs', JobOf(e)) + IF job \in JobOf(e) THEN 1 ELSE 0
    BY <1>1, <1>3, <1>5, CountTail DEF Types
  <2> QED BY <1>5, <2>1, <2>2, CountType
<1>13. CASE ledger.flow # job.episode
  <2>1. ledger' = ledger /\ reported' = reported /\ moot' = (moot \/ job.outcome = "refused")
    BY <1>4, <1>7, <1>13
  <2>2. PausedBelowLowIsResuming'
    BY <2>1 DEF IInv, PausedBelowLowIsResuming, Sum, totalOutstanding
  <2>3. OneContinue'
    <3>1. Count(jobs', JobOf(ledger.flow)) = Count(jobs, JobOf(ledger.flow)) BY <1>12, <1>13
    <3>2. InFlight(ledger.flow)' = InFlight(ledger.flow)
      BY <1>1, <1>2, <1>8, <2>1, <3>1, InFlightType, InFlightNext
    <3> QED BY <2>1, <3>2 DEF IInv, OneContinue
  <2>4. \A i \in DOMAIN jobs : jobs[i] = job \/ \E k \in DOMAIN jobs' : jobs'[k] = jobs[i]
    BY <1>3, <1>5
  <2>5. ContinueIsLast' BY <1>2, <1>13, <2>1, <2>4 DEF IInv, ContinueIsLast, IsReply
  <2>6. FlowsWhenBelieved' BY <1>2, <2>1, <2>4 DEF IInv, FlowsWhenBelieved, RefusalPending
  <2>7. PausedWhenBelieved' BY <1>2, <2>1 DEF IInv, PausedWhenBelieved
  <2> QED BY <1>9, <1>10, <1>11, <2>2, <2>3, <2>5, <2>6, <2>7 DEF IInv
(* Its own episode's: it was the one Continue in flight.                   *)
<1>14. ASSUME ledger.flow = job.episode
       PROVE  /\ ledger.flow # 0 /\ ledger.resuming
              /\ Count(sent, Loop(ledger.flow)) = 0 /\ Count(inbox, LoopReply(ledger.flow)) = 0
              /\ Count(jobs, JobOf(ledger.flow)) = 1 /\ Count(jobs', JobOf(ledger.flow)) = 0
  <2> DEFINE a == Count(sent, Loop(ledger.flow))
             b == Count(inbox, LoopReply(ledger.flow))
             c == Count(jobs, JobOf(ledger.flow))
             d == Count(jobs', JobOf(ledger.flow))
  <2>1. ledger.flow # 0 BY <1>6, <1>14
  <2>2. c = d + 1 /\ d \in Nat BY <1>12, <1>14
  <2>3. a \in Nat /\ b \in Nat /\ InFlight(ledger.flow) = a + b + c BY <1>1, InFlightType
  <2>4. InFlight(ledger.flow) = IF ledger.resuming THEN 1 ELSE 0 BY <2>1 DEF IInv, OneContinue
  <2> HIDE DEF a, b, c, d
  <2>5. ledger.resuming /\ a = 0 /\ b = 0 /\ c = 1 /\ d = 0 BY <2>2, <2>3, <2>4
  <2> QED BY <2>1, <2>5 DEF a, b, c, d
<1>15. CASE ledger.flow = job.episode /\ job.outcome = "refused"
  <2>1. /\ ledger'.flow = ledger.flow /\ ~ledger'.resuming /\ ledger.flow # 0
        /\ ledger.flow \in reported'
    BY <1>4, <1>7, <1>14, <1>15
  <2>2. PausedBelowLowIsResuming' BY <2>1 DEF PausedBelowLowIsResuming
  <2>3. OneContinue'
    <3>1. PICK e : e = ledger.flow OBVIOUS
    <3>2. /\ Count(sent', Loop(e)) = 0 /\ Count(inbox', LoopReply(e)) = 0
          /\ Count(jobs', JobOf(e)) = 0
      BY <1>2, <1>14, <1>15, <3>1
    <3>3. InFlight(e)' = 0 BY <1>8, <3>2, InFlightNext
    <3> QED BY <2>1, <3>1, <3>3 DEF OneContinue
  <2>4. ContinueIsLast' /\ FlowsWhenBelieved' BY <2>1 DEF ContinueIsLast, FlowsWhenBelieved
  <2>5. refusals # 0 BY <1>3, <1>5, <1>15 DEF IInv, Honest
  <2>6. PausedWhenBelieved' BY <1>2, <2>5 DEF PausedWhenBelieved
  <2> QED BY <1>9, <1>10, <1>11, <2>2, <2>3, <2>4, <2>6 DEF IInv
<1>16. CASE ledger.flow = job.episode /\ job.outcome # "refused"
  <2>1. ledger'.flow = 0 /\ ~ledger'.resuming /\ (moot' <=> moot) BY <1>4, <1>7, <1>16
  <2>2. PausedBelowLowIsResuming' /\ OneContinue' /\ ContinueIsLast' /\ PausedWhenBelieved'
    BY <2>1 DEF PausedBelowLowIsResuming, OneContinue, ContinueIsLast, PausedWhenBelieved
  <2>3. FlowsWhenBelieved'
    <3>1. SUFFICES ASSUME live PROVE FlowsWhenBelieved' BY <1>2 DEF FlowsWhenBelieved
    <3>2. job.outcome = "ok"
      BY <1>3, <1>5, <1>16, <3>1 DEF IInv, Honest, Settlement
    <3>3. CASE sent # <<>>
      <4>1. Last(sent).action = "continue"
        BY <1>14, <1>16, <3>1, <3>3 DEF IInv, ContinueIsLast, LoopContinue
      <4> QED BY <1>2, <3>3, <4>1 DEF FlowsWhenBelieved
    <3>4. CASE sent = <<>>
      <4>1. ASSUME NEW i \in DOMAIN inbox, IsReply(inbox[i]), inbox[i].of.episode = ledger.flow
            PROVE  FALSE
        <5>1. At(inbox, LoopReply(ledger.flow)) = {} BY <1>1, <1>14, <1>16, CountType DEF Types
        <5>2. inbox[i] \in Message BY <1>1, ElementOfSeq DEF Types
        <5> QED BY <4>1, <5>1, <5>2 DEF At, LoopReply, IsReply
      <4>2. PICK i \in DOMAIN jobs : jobs[i].episode = ledger.flow
                                       /\ (jobs[i].outcome = "ok" => ~tmuxPaused)
        BY <1>14, <1>16, <3>1, <3>4, <4>1 DEF IInv, ContinueIsLast
      <4>3. i = 1
        <5>1. jobs[i] \in Settlement BY <1>1, ElementOfSeq DEF Types
        <5>2. i \in At(jobs, JobOf(ledger.flow)) /\ 1 \in At(jobs, JobOf(ledger.flow))
          BY <1>3, <1>5, <1>16, <4>2, <5>1 DEF At, JobOf
        <5>3. Count(jobs, JobOf(ledger.flow)) <= 1 BY <1>14, <1>16
        <5> QED BY <1>1, <5>2, <5>3, CountUnique DEF Types
      <4>4. ~tmuxPaused BY <1>3, <3>2, <4>2, <4>3
      <4> QED BY <1>2, <3>4, <4>4 DEF FlowsWhenBelieved
    <3> QED BY <3>3, <3>4
  <2> QED BY <1>9, <1>10, <1>11, <2>2, <2>3 DEF IInv
<1> QED BY <1>13, <1>15, <1>16

-----------------------------------------------------------------------------
(* The theorems *)

LEMMA InitHolds == Init => IInv
<1> SUFFICES ASSUME Init PROVE IInv OBVIOUS
<1>1. TypeOK
  <2> DEFINE none == {<<>>}
             flows == [p \in Peers |-> 0]
  <2>1. <<>> \in none /\ {} \in SUBSET Peers /\ flows \in [Peers -> Nat] OBVIOUS
  <2>2. ledger = [registered |-> {}, outstanding |-> flows, flow |-> 0,
                  resuming |-> FALSE, episodes |-> 0, issued |-> <<>>]
    BY DEF Init
  <2> HIDE DEF none, flows
  <2>3. ledger \in [registered : SUBSET Peers, outstanding : [Peers -> Nat], flow : Nat,
                    resuming : BOOLEAN, episodes : Nat, issued : none]
    BY <2>1, <2>2
  <2>4. /\ sent \in Seq(Command) /\ jobs \in Seq([episode : Nat, outcome : {"ok", "refused", "gone"}])
        /\ inbox \in Seq([reply : BOOLEAN, ok : BOOLEAN, of : Command])
    BY DEF Init
  <2>5. due = {} /\ reported = {} BY DEF Init
  <2>6. written \in 0..MaxOutput /\ refusals \in 0..MaxRefusals BY BoundAssumption DEF Init
  <2>7. /\ disposed \in BOOLEAN /\ tmuxPaused \in BOOLEAN /\ live \in BOOLEAN
        /\ draining \in BOOLEAN /\ moot \in BOOLEAN
    BY DEF Init
  <2> QED BY <2>3, <2>4, <2>5, <2>6, <2>7 DEF TypeOK, none
<1>2. Numbered BY DEF Init, Numbered
<1>3. Honest BY DEF Init, Honest
<1>4. PausedBelowLowIsResuming /\ OneContinue /\ ContinueIsLast /\ FlowsWhenBelieved
      /\ PausedWhenBelieved
  BY DEF Init, PausedBelowLowIsResuming, OneContinue, ContinueIsLast, FlowsWhenBelieved,
         PausedWhenBelieved
<1> QED BY <1>1, <1>2, <1>3, <1>4 DEF IInv

LEMMA StutterKeeps == IInv /\ UNCHANGED vars => IInv'
<1> SUFFICES ASSUME IInv, UNCHANGED vars PROVE IInv' OBVIOUS
<1>1. UNCHANGED <<ledger, disposed, sent, inbox, tmuxPaused, live, due, jobs, draining,
                  written, refusals, reported, moot>>
  BY DEF vars
<1>2. TypeOK' BY <1>1 DEF IInv, TypeOK
<1>3. Numbered' /\ Honest' BY <1>1 DEF IInv, Numbered, Honest
<1>4. PausedBelowLowIsResuming' /\ OneContinue'
  BY <1>1 DEF IInv, PausedBelowLowIsResuming, Sum, totalOutstanding, OneContinue, InFlight
<1>5. ContinueIsLast' BY <1>1 DEF IInv, ContinueIsLast
<1>6. FlowsWhenBelieved' BY <1>1 DEF IInv, FlowsWhenBelieved, RefusalPending
<1>7. PausedWhenBelieved' BY <1>1 DEF IInv, PausedWhenBelieved
<1> QED BY <1>2, <1>3, <1>4, <1>5, <1>6, <1>7 DEF IInv

LEMMA StepKeeps == IInv /\ [Next]_vars => IInv'
<1> SUFFICES ASSUME IInv, [Next]_vars PROVE IInv' OBVIOUS
<1>1. ASSUME NEW p \in Peers, Register(p) PROVE IInv' BY <1>1, RegisterKeeps
<1>2. ASSUME NEW p \in Peers, NEW n \in 1..High, Ack(p, n) PROVE IInv' BY <1>2, AckKeeps
<1>3. ASSUME NEW p \in Peers, ClearPeer(p) PROVE IInv' BY <1>3, ClearPeerKeeps
<1>4. ASSUME NEW p \in Peers, ReleasePeer(p) PROVE IInv' BY <1>4, ReleasePeerKeeps
<1>5. ASSUME Dispose PROVE IInv' BY <1>5, DisposeKeeps
<1>6. ASSUME TmuxOutput PROVE IInv' BY <1>6, TmuxOutputKeeps
<1>7. ASSUME TmuxExecute PROVE IInv' BY <1>7, TmuxExecuteKeeps
<1>8. ASSUME ReceiveOutput PROVE IInv' BY <1>8, ReceiveOutputKeeps
<1>9. ASSUME NEW p \in Peers, Deliver(p) PROVE IInv' BY <1>9, DeliverKeeps
<1>10. ASSUME ReceiveReply PROVE IInv' BY <1>10, ReceiveReplyKeeps
<1>11. ASSUME Disconnect PROVE IInv' BY <1>11, DisconnectKeeps
<1>12. ASSUME Job PROVE IInv' BY <1>12, JobKeeps
<1>13. ASSUME UNCHANGED vars PROVE IInv' BY <1>13, StutterKeeps
<1> QED BY <1>1, <1>2, <1>3, <1>4, <1>5, <1>6, <1>7, <1>8, <1>9, <1>10, <1>11, <1>12, <1>13 DEF Next

(* In every reachable state the ledger is well formed, commands in flight   *)
(* belong to episodes that were begun, and what it takes tmux to be doing   *)
(* follows from the last command on its way.                               *)
THEOREM Inductive == Spec => []IInv
BY InitHolds, StepKeeps, PTL DEF Spec

(* However many peers hold output and in whatever order they ack, drain,    *)
(* leave or the bridge is disposed of, a pane paused with its sum at or     *)
(* below the low watermark is being resumed, or the refusal of its Continue *)
(* went to reportResumeFailure.                                            *)
THEOREM NeverPausedSilently == Spec => []PausedBelowLowIsResuming
<1>1. IInv => PausedBelowLowIsResuming BY DEF IInv
<1> QED BY <1>1, Inductive, PTL

(* settlePendingOnClose, refusals and a pane paused again cannot make the   *)
(* loop send a second Continue for an episode, nor lose track of the first. *)
THEOREM NeverDoubleSent == Spec => []OneContinuePerEpisode
<1>1. IInv => OneContinuePerEpisode BY DEF IInv, OneContinue, OneContinuePerEpisode
<1> QED BY <1>1, Inductive, PTL

(* Once every command has been answered, tmux holds back no pane the ledger *)
(* takes to flow, unless the refusal of its Continue found nobody to tell;  *)
(* and if tmux refused nothing, it holds back every pane the ledger has     *)
(* paused.                                                                 *)
THEOREM BeliefIsTrue == Spec => []BeliefMatchesTmux
<1>1. IInv => BeliefMatchesTmux
  <2> SUFFICES ASSUME IInv, Quiet, live
               PROVE  /\ tmuxPaused => ledger.flow # 0 \/ moot
                      /\ refusals = 0 /\ ledger.flow # 0 => tmuxPaused
    BY DEF BeliefMatchesTmux
  <2>1. sent = <<>> /\ inbox = <<>> /\ jobs = <<>> BY DEF Quiet
  <2>2. ~RefusalPending BY <2>1 DEF RefusalPending
  <2>3. ~ledger.resuming BY <2>1 DEF IInv, ContinueIsLast
  <2>4. tmuxPaused => ledger.flow # 0 \/ moot BY <2>1, <2>2 DEF IInv, FlowsWhenBelieved
  <2>5. refusals = 0 /\ ledger.flow # 0 => tmuxPaused BY <2>1, <2>3 DEF IInv, PausedWhenBelieved
  <2> QED BY <2>4, <2>5
<1> QED BY <1>1, Inductive, PTL
=============================================================================
