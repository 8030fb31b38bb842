----------------------------- MODULE DataLemmas -----------------------------
(***************************************************************************)
(* Facts about sequences in which nothing occurs twice, seen as sets:      *)
(* what the queues of requests and of sessions hold after an Append, a     *)
(* Tail or the removal of one element; and about folds and sums over       *)
(* finite sets.                                                            *)
(***************************************************************************)
EXTENDS Integers, Sequences, Functions, SequenceTheorems, FiniteSetTheorems, WellFoundedInduction, TLAPS

\* Append adds its element.
LEMMA RangeAppend ==
  ASSUME NEW S, NEW s \in Seq(S), NEW e \in S
  PROVE  /\ Append(s, e) \in Seq(S)
         /\ Len(Append(s, e)) = Len(s) + 1
         /\ Range(Append(s, e)) = Range(s) \union {e}
         /\ IsInjective(s) /\ e \notin Range(s) => IsInjective(Append(s, e))
<1>1. /\ Append(s, e) \in Seq(S) /\ Len(Append(s, e)) = Len(s) + 1
      /\ DOMAIN s = 1..Len(s) /\ DOMAIN Append(s, e) = 1..(Len(s) + 1)
      /\ Append(s, e)[Len(s) + 1] = e
      /\ \A i \in 1..Len(s) : Append(s, e)[i] = s[i]
      /\ Len(s) \in Nat
  OBVIOUS
<1>2. Range(Append(s, e)) = Range(s) \union {e}
  BY <1>1 DEF Range
<1>3. ASSUME IsInjective(s), e \notin Range(s) PROVE IsInjective(Append(s, e))
  BY <1>1, <1>3 DEF Range, IsInjective
<1> QED
  BY <1>1, <1>2, <1>3

\* Tail takes the head away, once and for all if nothing occurs twice.
LEMMA RangeTail ==
  ASSUME NEW S, NEW s \in Seq(S), s # <<>>
  PROVE  /\ Tail(s) \in Seq(S) /\ Head(s) \in S
         /\ Len(Tail(s)) = Len(s) - 1
         /\ Range(s) = Range(Tail(s)) \union {Head(s)}
         /\ IsInjective(s) => IsInjective(Tail(s)) /\ Head(s) \notin Range(Tail(s))
<1>1. /\ Tail(s) \in Seq(S) /\ Len(Tail(s)) = Len(s) - 1
      /\ DOMAIN s = 1..Len(s) /\ DOMAIN Tail(s) = 1..(Len(s) - 1)
      /\ \A i \in 1..(Len(s) - 1) : Tail(s)[i] = s[i + 1]
      /\ Len(s) \in Nat \ {0} /\ Head(s) = s[1] /\ Head(s) \in S
  BY HeadTailProperties, LenProperties, EmptySeq
<1>2. Range(s) = Range(Tail(s)) \union {Head(s)}
  <2>1. ASSUME NEW x \in Range(s) PROVE x \in Range(Tail(s)) \union {Head(s)}
    <3>1. PICK i \in 1..Len(s) : x = s[i]
      BY <1>1 DEF Range
    <3>2. CASE i = 1
      BY <1>1, <3>1, <3>2
    <3>3. CASE i # 1
      <4>1. i - 1 \in 1..(Len(s) - 1) /\ (i - 1) + 1 = i
        BY <1>1, <3>3
      <4> QED
        BY <1>1, <3>1, <4>1 DEF Range
    <3> QED
      BY <3>2, <3>3
  <2>2. ASSUME NEW i \in 1..(Len(s) - 1) PROVE Tail(s)[i] \in Range(s)
    <3>1. i + 1 \in 1..Len(s)
      BY <1>1
    <3> QED
      BY <1>1, <3>1 DEF Range
  <2>3. s[1] \in Range(s) /\ Range(Tail(s)) = {Tail(s)[i] : i \in 1..(Len(s) - 1)}
    <3>1. 1 \in DOMAIN s
      BY <1>1
    <3> QED
      BY <1>1, <3>1 DEF Range
  <2> QED
    BY <1>1, <2>1, <2>2, <2>3
<1>3. ASSUME IsInjective(s) PROVE IsInjective(Tail(s)) /\ Head(s) \notin Range(Tail(s))
  BY <1>1, <1>3 DEF Range, IsInjective
<1> QED
  BY <1>1, <1>2, <1>3

\* The elements of a sequence over a set are members of the set.
LEMMA RangeInSet == ASSUME NEW S, NEW s \in Seq(S) PROVE Range(s) \subseteq S
  BY DEF Range

\* An element of an injective sequence can be taken out of it.
LEMMA RangeRemove ==
  ASSUME NEW S, NEW s \in Seq(S), IsInjective(s), NEW i \in DOMAIN s
  PROVE  LET r == SubSeq(s, 1, i - 1) \o SubSeq(s, i + 1, Len(s))
         IN  /\ r \in Seq(S) /\ Len(r) = Len(s) - 1 /\ IsInjective(r)
             /\ Range(r) = Range(s) \ {s[i]}
             /\ \A j \in 1..(Len(s) - 1) : r[j] = IF j < i THEN s[j] ELSE s[j + 1]
<1> DEFINE a == SubSeq(s, 1, i - 1)
           b == SubSeq(s, i + 1, Len(s))
           r == a \o b
<1>1. /\ DOMAIN s = 1..Len(s) /\ Len(s) \in Nat /\ i \in 1..Len(s)
      /\ \A j \in 1..Len(s) : s[j] \in S
  OBVIOUS
<1>2. /\ a \in Seq(S) /\ Len(a) = i - 1
      /\ \A j \in 1..(i - 1) : a[j] = s[j]
  BY <1>1
<1>3. /\ b \in Seq(S) /\ Len(b) = Len(s) - i
      /\ \A j \in 1..(Len(s) - i) : b[j] = s[i + j]
  <2> HIDE DEF a, r
  <2>1. /\ b \in Seq(S) /\ Len(b) = IF i + 1 <= Len(s) THEN Len(s) - (i + 1) + 1 ELSE 0
        /\ \A j \in 1..(Len(s) - (i + 1) + 1) : b[j] = s[i + 1 + j - 1]
    <3>1. i + 1 \in Int /\ Len(s) \in Int /\ \A j \in (i + 1)..Len(s) : s[j] \in S
      BY <1>1
    <3> QED
      BY <3>1, SubSeqProperties
  <2> HIDE DEF b
  <2>2. Len(s) - (i + 1) + 1 = Len(s) - i /\ \A j \in Int : i + 1 + j - 1 = i + j
    BY <1>1
  <2>3. (IF i + 1 <= Len(s) THEN Len(s) - (i + 1) + 1 ELSE 0) = Len(s) - i
    BY <1>1
  <2>4. ASSUME NEW j \in 1..(Len(s) - i) PROVE b[j] = s[i + j]
    <3>1. b[j] = s[i + 1 + j - 1]
      BY <2>1, <2>2
    <3>2. i + 1 + j - 1 = i + j
      BY <1>1
    <3> QED
      BY <3>1, <3>2
  <2> QED
    BY <2>1, <2>3, <2>4
<1>4. /\ r \in Seq(S) /\ Len(r) = Len(s) - 1 /\ DOMAIN r = 1..(Len(s) - 1)
      /\ \A j \in 1..(Len(s) - 1) : r[j] = IF j < i THEN s[j] ELSE s[j + 1]
  <2> HIDE DEF a, b
  <2>1. r \in Seq(S) /\ Len(r) = Len(s) - 1
    <3>1. r \in Seq(S) /\ Len(r) = Len(a) + Len(b)
      BY <1>2, <1>3, ConcatProperties
    <3> QED
      BY <1>1, <1>2, <1>3, <3>1
  <2>2. ASSUME NEW j \in 1..(Len(s) - 1) PROVE r[j] = IF j < i THEN s[j] ELSE s[j + 1]
    <3>1. r[j] = IF j <= Len(a) THEN a[j] ELSE b[j - Len(a)]
      <4>1. j \in 1..(Len(a) + Len(b))
        BY <1>1, <1>2, <1>3
      <4> QED
        BY <1>2, <1>3, <4>1, ConcatProperties
    <3>2. CASE j < i
      BY <1>1, <1>2, <3>1, <3>2
    <3>3. CASE ~(j < i)
      <4>1. j - (i - 1) \in 1..(Len(s) - i) /\ i + (j - (i - 1)) = j + 1
        BY <1>1, <3>3
      <4> QED
        BY <1>1, <1>2, <1>3, <3>1, <3>3, <4>1
    <3> QED
      BY <3>2, <3>3
  <2> QED
    BY <2>1, <2>2
<1> HIDE DEF r
<1>5. IsInjective(r)
  <2> SUFFICES ASSUME NEW j \in 1..(Len(s) - 1), NEW k \in 1..(Len(s) - 1), r[j] = r[k]
               PROVE  j = k
    BY <1>4 DEF IsInjective
  <2> DEFINE At(n) == IF n < i THEN n ELSE n + 1
  <2>1. At(j) \in DOMAIN s /\ At(k) \in DOMAIN s /\ s[At(j)] = s[At(k)]
    BY <1>1, <1>4
  <2>2. At(j) = At(k)
    BY <2>1 DEF IsInjective
  <2> QED
    BY <1>1, <2>2
<1>6. Range(r) = Range(s) \ {s[i]}
  <2>1. ASSUME NEW j \in 1..(Len(s) - 1) PROVE r[j] \in Range(s) \ {s[i]}
    <3>1. CASE j < i
      BY <1>1, <1>4, <3>1 DEF IsInjective, Range
    <3>2. CASE ~(j < i)
      <4>1. j + 1 \in DOMAIN s /\ j + 1 # i
        BY <1>1, <3>2
      <4> QED
        BY <1>1, <1>4, <3>2, <4>1 DEF IsInjective, Range
    <3> QED
      BY <3>1, <3>2
  <2>2. ASSUME NEW j \in DOMAIN s, j # i PROVE s[j] \in Range(r)
    <3>1. CASE j < i
      <4>1. j \in 1..(Len(s) - 1) /\ r[j] = s[j]
        BY <1>1, <1>4, <3>1
      <4> QED
        BY <1>4, <4>1 DEF Range
    <3>2. CASE ~(j < i)
      <4>1. j - 1 \in 1..(Len(s) - 1) /\ ~(j - 1 < i) /\ (j - 1) + 1 = j
        BY <1>1, <2>2, <3>2
      <4>2. r[j - 1] = s[j]
        BY <1>4, <4>1
      <4> QED
        BY <1>4, <4>1, <4>2 DEF Range
    <3> QED
      BY <3>1, <3>2
  <2> QED
    BY <1>4, <2>1, <2>2 DEF Range
<1> QED
  BY <1>4, <1>5, <1>6 DEF r, a, b

\* Whatever occurs once in an injective sequence is counted once.
LEMMA RangeCount ==
  ASSUME NEW S, NEW s \in Seq(S), IsInjective(s)
  PROVE  IsFiniteSet(Range(s)) /\ Cardinality(Range(s)) = Len(s)
<1>1. DOMAIN s = 1..Len(s) /\ Len(s) \in Nat
  OBVIOUS
<1>2. IsFiniteSet(1..Len(s)) /\ Cardinality(1..Len(s)) = Len(s)
  BY <1>1, FS_Interval
<1>3. s \in Surjection(1..Len(s), Range(s)) /\ s \in Injection(1..Len(s), Range(s))
  <2>1. s \in [1..Len(s) -> Range(s)]
    BY <1>1 DEF Range
  <2> QED
    BY <1>1, <2>1 DEF Surjection, Injection, IsInjective, Range
<1> QED
  BY <1>2, <1>3, FS_Surjection

-----------------------------------------------------------------------------
(* Order *)

\* Somewhere in s, x comes before y.
Before(s, x, y) == \E i, j \in DOMAIN s : i < j /\ s[i] = x /\ s[j] = y

\* Nothing comes before the head of an injective sequence.
LEMMA HeadIsFirst ==
  ASSUME NEW S, NEW s \in Seq(S), s # <<>>, IsInjective(s), NEW x
  PROVE  ~Before(s, x, Head(s))
<1>1. DOMAIN s = 1..Len(s) /\ Head(s) = s[1] /\ Len(s) \in Nat \ {0}
  BY HeadTailProperties, LenProperties, EmptySeq
<1> QED
  BY <1>1 DEF Before, IsInjective

\* The tail keeps the order of what is left.
LEMMA TailKeepsOrder ==
  ASSUME NEW S, NEW s \in Seq(S), s # <<>>, IsInjective(s),
         NEW x \in Range(Tail(s)), NEW y \in Range(Tail(s)), Before(s, x, y)
  PROVE  Before(Tail(s), x, y)
<1>1. /\ Tail(s) \in Seq(S) /\ Len(Tail(s)) = Len(s) - 1
      /\ DOMAIN s = 1..Len(s) /\ DOMAIN Tail(s) = 1..(Len(s) - 1)
      /\ \A i \in 1..(Len(s) - 1) : Tail(s)[i] = s[i + 1]
      /\ Len(s) \in Nat \ {0} /\ Head(s) = s[1]
  BY HeadTailProperties, LenProperties, EmptySeq
<1>2. PICK i \in 1..Len(s), j \in 1..Len(s) : i < j /\ s[i] = x /\ s[j] = y
  BY <1>1 DEF Before
<1>3. Head(s) \notin Range(Tail(s))
  BY RangeTail
<1>4. i # 1
  BY <1>1, <1>2, <1>3
<1>5. /\ i - 1 \in 1..(Len(s) - 1) /\ j - 1 \in 1..(Len(s) - 1) /\ i - 1 < j - 1
      /\ (i - 1) + 1 = i /\ (j - 1) + 1 = j
  BY <1>1, <1>2, <1>4
<1>6. Tail(s)[i - 1] = x /\ Tail(s)[j - 1] = y
  BY <1>1, <1>2, <1>5
<1> QED
  BY <1>1, <1>5, <1>6 DEF Before

\* So does the removal of one element.
LEMMA RemoveKeepsOrder ==
  ASSUME NEW S, NEW s \in Seq(S), IsInjective(s), NEW k \in DOMAIN s,
         NEW x, x # s[k], NEW y, y # s[k], Before(s, x, y)
  PROVE  Before(SubSeq(s, 1, k - 1) \o SubSeq(s, k + 1, Len(s)), x, y)
<1> DEFINE r == SubSeq(s, 1, k - 1) \o SubSeq(s, k + 1, Len(s))
           At(n) == IF n < k THEN n ELSE n - 1
<1>1. /\ DOMAIN s = 1..Len(s) /\ Len(s) \in Nat /\ DOMAIN r = 1..(Len(s) - 1)
      /\ \A j \in 1..(Len(s) - 1) : r[j] = IF j < k THEN s[j] ELSE s[j + 1]
  <2>1. /\ r \in Seq(S) /\ Len(r) = Len(s) - 1
        /\ \A j \in 1..(Len(s) - 1) : r[j] = IF j < k THEN s[j] ELSE s[j + 1]
    BY RangeRemove
  <2> HIDE DEF r
  <2> QED
    BY <2>1
<1> HIDE DEF r
<1>2. PICK i \in 1..Len(s), j \in 1..Len(s) : i < j /\ s[i] = x /\ s[j] = y
  BY <1>1 DEF Before
<1>3. ASSUME NEW n \in 1..Len(s), n # k
      PROVE  At(n) \in 1..(Len(s) - 1) /\ r[At(n)] = s[n]
  <2>1. CASE n < k
    BY <1>1, <2>1
  <2>2. CASE ~(n < k)
    <3>1. n - 1 \in 1..(Len(s) - 1) /\ ~(n - 1 < k) /\ (n - 1) + 1 = n
      BY <1>1, <1>3, <2>2
    <3> QED
      BY <1>1, <2>2, <3>1
  <2> QED
    BY <2>1, <2>2
<1>4. i # k /\ j # k
  BY <1>2
<1>5. At(i) < At(j)
  BY <1>1, <1>2, <1>4
<1>6. Before(r, x, y)
  <2>1. At(i) \in DOMAIN r /\ At(j) \in DOMAIN r /\ r[At(i)] = x /\ r[At(j)] = y
    BY <1>1, <1>2, <1>3, <1>4
  <2> HIDE DEF At
  <2> QED
    BY <1>5, <2>1 DEF Before
<1> QED
  BY <1>6 DEF r
-----------------------------------------------------------------------------
(* Folds and sums over finite sets. *)

\* Among some subsets of a finite set one has none of the others below it.
LEMMA SmallestSubset ==
  ASSUME NEW S, IsFiniteSet(S), NEW T \in SUBSET (SUBSET S), T # {}
  PROVE  \E s \in T : \A t \in T : t \subseteq s => t = s
<1>1. IsWellFoundedOn(StrictSubsetOrdering(S), SUBSET S)
  BY FS_StrictSubsetOrderingWellFounded, FS_FiniteSubsetsOfFinite
<1>2. PICK s \in T : \A t \in T : ~ (<<t, s>> \in StrictSubsetOrdering(S))
  BY <1>1, WFMin, Zenon
<1> QED
  BY <1>2 DEF StrictSubsetOrdering

\* Induction over the subsets of a finite set; T are those a statement holds for.
LEMMA SubsetInduction ==
  ASSUME NEW S, IsFiniteSet(S), NEW T \in SUBSET (SUBSET S),
         \A s \in SUBSET S : (\A t \in SUBSET s : t # s => t \in T) => s \in T
  PROVE  T = SUBSET S
<1> SUFFICES ASSUME T # SUBSET S PROVE FALSE
  OBVIOUS
<1>1. PICK s \in (SUBSET S) \ T : \A t \in (SUBSET S) \ T : t \subseteq s => t = s
  <2> DEFINE U == (SUBSET S) \ T
  <2>1. U # {} /\ U \in SUBSET (SUBSET S)
    OBVIOUS
  <2> HIDE DEF U
  <2>2. \E s \in U : \A t \in U : t \subseteq s => t = s
    BY <2>1, SmallestSubset
  <2> QED
    BY <2>2 DEF U
<1>2. \A t \in SUBSET s : t # s => t \in T
  BY <1>1
<1> QED
  BY <1>1, <1>2

\* h is what MapThenFoldSet computes for each subset of S.
FoldStep(S, base, pick, step, h) ==
   \A s \in SUBSET S : h[s] = IF s = {} THEN base ELSE step[<<pick[s], h[s \ {pick[s]}]>>]

\* What a fold gives for a set does not depend on the set it is part of.
LEMMA FoldsAgree ==
  ASSUME NEW S, IsFiniteSet(S), NEW base, NEW pick, NEW step, NEW T \in SUBSET S, NEW g, NEW h,
         \A s \in SUBSET S : s # {} => pick[s] \in s,
         FoldStep(S, base, pick, step, g), FoldStep(T, base, pick, step, h)
  PROVE  \A s \in SUBSET T : g[s] = h[s]
<1> DEFINE A == {s \in SUBSET T : g[s] = h[s]}
<1>1. ASSUME NEW s \in SUBSET T, \A t \in SUBSET s : t # s => t \in A PROVE s \in A
  <2>1. CASE s = {}
    BY <2>1 DEF FoldStep
  <2>2. CASE s # {}
    <3>1. pick[s] \in s /\ s \ {pick[s]} \in SUBSET s /\ s \ {pick[s]} # s
      BY <2>2
    <3>2. g[s \ {pick[s]}] = h[s \ {pick[s]}]
      BY <1>1, <3>1
    <3> QED
      BY <2>2, <3>2 DEF FoldStep
  <2> QED
    BY <2>1, <2>2
<1>2. IsFiniteSet(T)
  BY FS_Subset
<1>3. A = SUBSET T
  <2>1. A \in SUBSET (SUBSET T)
    OBVIOUS
  <2> HIDE DEF A
  <2> QED
    BY <1>1, <1>2, <2>1, SubsetInduction
<1> QED
  BY <1>3

\* A step that stays among some values has a fold, so that the CHOOSE in the library's
\* recursive function is not empty.
LEMMA FoldExists ==
  ASSUME NEW S, IsFiniteSet(S), NEW V, NEW base \in V, NEW pick,
         NEW step \in [S \X V -> V],
         \A s \in SUBSET S : s # {} => pick[s] \in s
  PROVE  \E g \in [SUBSET S -> V] : FoldStep(S, base, pick, step, g)
<1> DEFINE Sol(T) == {g \in [SUBSET T -> V] : FoldStep(T, base, pick, step, g)}
           A == {T \in SUBSET S : Sol(T) # {}}
<1>1. ASSUME NEW T \in SUBSET S, \A t \in SUBSET T : t # T => t \in A PROVE T \in A
  <2> DEFINE sol == [t \in SUBSET T |-> CHOOSE g : g \in Sol(t)]
             f == [s \in SUBSET T |-> IF s = {} THEN base
                     ELSE step[<<pick[s], sol[s \ {pick[s]}][s \ {pick[s]}]>>]]
  <2>1. ASSUME NEW t \in SUBSET T, t # T
        PROVE  sol[t] \in [SUBSET t -> V] /\ FoldStep(t, base, pick, step, sol[t])
    BY <1>1, <2>1
  <2>2. ASSUME NEW s \in SUBSET T, s # {}
        PROVE  /\ pick[s] \in s /\ pick[s] \in S /\ s \ {pick[s]} \in SUBSET T /\ s \ {pick[s]} # T /\ s \ {pick[s]} # s
               /\ sol[s \ {pick[s]}][s \ {pick[s]}] \in V
    BY <2>1, <2>2
  <2>3. f \in [SUBSET T -> V]
    <3>1. ASSUME NEW s \in SUBSET T, s # {}
          PROVE  step[<<pick[s], sol[s \ {pick[s]}][s \ {pick[s]}]>>] \in V
      <4>1. ASSUME NEW x \in S, NEW v \in V PROVE step[<<x, v>>] \in V
        OBVIOUS
      <4>2. pick[s] \in S /\ sol[s \ {pick[s]}][s \ {pick[s]}] \in V
        BY <2>2, <3>1
      <4> QED BY <4>1, <4>2
    <3> HIDE DEF sol
    <3> QED
      BY <3>1
  <2>4. ASSUME NEW s \in SUBSET T, s # T PROVE f[s] = sol[s][s]
    <3>1. CASE s = {}
      <4>1. FoldStep(s, base, pick, step, sol[s])
        BY <2>1, <2>4
      <4> HIDE DEF sol
      <4>2. sol[s][s] = base
        BY <3>1, <4>1 DEF FoldStep
      <4>3. f[s] = base
        BY <3>1
      <4> QED
        BY <4>2, <4>3
    <3>2. CASE s # {}
      <4> DEFINE r == s \ {pick[s]}
      <4>1. r \in SUBSET T /\ r # T /\ r \in SUBSET s
        BY <2>2, <3>2
      <4>2. FoldStep(s, base, pick, step, sol[s]) /\ FoldStep(r, base, pick, step, sol[r])
        BY <2>1, <2>4, <4>1
      <4>3. IsFiniteSet(s)
        BY FS_Subset
      <4>6. \A t \in SUBSET s : t # {} => pick[t] \in t
        OBVIOUS
      <4>4. sol[s][r] = sol[r][r]
        <5> HIDE DEF sol, r
        <5> DEFINE g == sol[s]
                   h == sol[r]
        <5>1. FoldStep(s, base, pick, step, g) /\ FoldStep(r, base, pick, step, h)
          BY <4>2
        <5> HIDE DEF g, h
        <5>2. \A t \in SUBSET r : g[t] = h[t]
          BY <4>1, <4>3, <4>6, <5>1, FoldsAgree
        <5> QED BY <5>2 DEF g, h
      <4>5. sol[s][s] = step[<<pick[s], sol[s][r]>>]
        BY <3>2, <4>2 DEF FoldStep
      <4> HIDE DEF sol
      <4> QED
        BY <3>2, <4>4, <4>5
    <3> QED
      BY <3>1, <3>2
  <2>5. FoldStep(T, base, pick, step, f)
    <3> SUFFICES ASSUME NEW s \in SUBSET T
                 PROVE  f[s] = IF s = {} THEN base ELSE step[<<pick[s], f[s \ {pick[s]}]>>]
      <4> HIDE DEF f, Sol
      <4> QED BY DEF FoldStep
    <3>1. s # {} => f[s \ {pick[s]}] = sol[s \ {pick[s]}][s \ {pick[s]}]
      <4> HIDE DEF f, sol
      <4> QED BY <2>2, <2>4
    <3> HIDE DEF sol
    <3> QED
      BY <3>1
  <2> HIDE DEF f
  <2> QED
    BY <2>3, <2>5
<1>2. A \in SUBSET (SUBSET S)
  OBVIOUS
<1> HIDE DEF A
<1>3. A = SUBSET S
  BY <1>1, <1>2, SubsetInduction
<1>4. S \in A
  BY <1>3
<1> QED
  BY <1>4 DEF A

\* The step leads from the values for the rest of a set to the values for the set.
Stays(S, V, T, base, pick, step) ==
  /\ T \in [SUBSET S -> SUBSET V] /\ base \in T[{}]
  /\ \A s \in SUBSET S : s # {} => pick[s] \in s
  /\ \A s \in SUBSET S : \A x \in s : \A v \in T[s \ {x}] : step[<<x, v>>] \in T[s]

\* A fold whose step leads from the values for the rest of a set to the values for the
\* set has values that are all where they should be.
LEMMA FoldStays ==
  ASSUME NEW S, IsFiniteSet(S), NEW V, NEW T, NEW base, NEW pick, NEW step,
         Stays(S, V, T, base, pick, step)
  PROVE  \E g \in [SUBSET S -> V] :
           FoldStep(S, base, pick, step, g) /\ \A s \in SUBSET S : g[s] \in T[s]
<1> DEFINE total == [t \in S \X V |-> IF step[t] \in V THEN step[t] ELSE base]
<1>1. base \in V /\ \A s \in SUBSET S : s # {} => pick[s] \in s
  BY DEF Stays
<1>2. total \in [S \X V -> V]
  BY <1>1
<1>3. \A x \in S, v \in V : step[<<x, v>>] \in V => total[<<x, v>>] = step[<<x, v>>]
  OBVIOUS
<1> HIDE DEF total
<1>4. PICK g \in [SUBSET S -> V] : FoldStep(S, base, pick, total, g)
  BY <1>1, <1>2, FoldExists
<1> DEFINE A == {s \in SUBSET S : /\ g[s] \in T[s]
                                 /\ g[s] = IF s = {} THEN base
                                           ELSE step[<<pick[s], g[s \ {pick[s]}]>>]}
<1>5. ASSUME NEW s \in SUBSET S, \A t \in SUBSET s : t # s => t \in A PROVE s \in A
  <2>1. CASE s = {}
    BY <1>4, <2>1 DEF FoldStep, Stays
  <2>2. CASE s # {}
    <3> DEFINE r == s \ {pick[s]}
    <3>1. pick[s] \in s /\ pick[s] \in S /\ r \in SUBSET s /\ r # s /\ r \in SUBSET S
      BY <1>1, <2>2
    <3>2. g[r] \in T[r] /\ g[r] \in V
      BY <1>5, <3>1
    <3>3. step[<<pick[s], g[r]>>] \in T[s] /\ T[s] \in SUBSET V
      BY <3>1, <3>2 DEF Stays
    <3>4. g[s] = total[<<pick[s], g[r]>>]
      BY <1>4, <2>2 DEF FoldStep
    <3> HIDE DEF r
    <3>5. g[s] = step[<<pick[s], g[r]>>]
      BY <1>3, <3>1, <3>2, <3>3, <3>4
    <3> QED
      BY <2>2, <3>3, <3>5 DEF r
  <2> QED
    BY <2>1, <2>2
<1>6. A = SUBSET S
  <2>1. A \in SUBSET (SUBSET S)
    OBVIOUS
  <2> HIDE DEF A
  <2> QED
    BY <1>5, <2>1, SubsetInduction
<1>7. \A s \in SUBSET S : s \in A
  BY <1>6
<1> QED
  BY <1>7 DEF FoldStep

\* Where g and h agree on the rest of a set they agree on the set.
Alike(S, pick, g, h) ==
  /\ g[{}] = h[{}]
  /\ \A s \in SUBSET S : s # {} =>
       pick[s] \in s /\ (g[s \ {pick[s]}] = h[s \ {pick[s]}] => g[s] = h[s])

\* Two folds by the same step are the same.
LEMMA SameFold ==
  ASSUME NEW S, IsFiniteSet(S), NEW pick, NEW g, NEW h, Alike(S, pick, g, h)
  PROVE  g[S] = h[S]
<1> DEFINE A == {s \in SUBSET S : g[s] = h[s]}
<1>1. ASSUME NEW s \in SUBSET S, \A t \in SUBSET s : t # s => t \in A PROVE s \in A
  <2>1. s # {} => s \ {pick[s]} \in SUBSET s /\ s \ {pick[s]} # s
    BY DEF Alike
  <2> QED
    BY <1>1, <2>1 DEF Alike
<1>2. A = SUBSET S
  <2>1. A \in SUBSET (SUBSET S)
    OBVIOUS
  <2> HIDE DEF A
  <2> QED
    BY <1>1, <2>1, SubsetInduction
<1>3. S \in A
  BY <1>2
<1> QED
  BY <1>3

\* f goes by the step, if anything does.
Recurs(S, V, base, pick, step, f) ==
  \A g \in [SUBSET S -> V] : FoldStep(S, base, pick, step, g) =>
    /\ f[{}] = base
    /\ \A s \in SUBSET S : s # {} /\ f[s \ {pick[s]}] \in V =>
         f[s] = step[<<pick[s], f[s \ {pick[s]}]>>]

\* f is a fold as the library writes it, by recursion on subsets; its step is known on V only.
LEMMA FoldValue ==
  ASSUME NEW S, IsFiniteSet(S), NEW V, NEW T, NEW base, NEW pick, NEW step, NEW f,
         Stays(S, V, T, base, pick, step), Recurs(S, V, base, pick, step, f)
  PROVE  f[S] \in T[S]
<1>1. PICK g \in [SUBSET S -> V] :
             FoldStep(S, base, pick, step, g) /\ \A s \in SUBSET S : g[s] \in T[s]
  BY FoldStays
<1>2. /\ f[{}] = base
      /\ \A s \in SUBSET S : s # {} /\ f[s \ {pick[s]}] \in V =>
           f[s] = step[<<pick[s], f[s \ {pick[s]}]>>]
  BY <1>1 DEF Recurs
<1>3. g[{}] = f[{}]
  BY <1>1, <1>2 DEF FoldStep
<1>4. ASSUME NEW s \in SUBSET S, s # {}
      PROVE  pick[s] \in s /\ (g[s \ {pick[s]}] = f[s \ {pick[s]}] => g[s] = f[s])
  <2> DEFINE r == s \ {pick[s]}
  <2>1. r \in SUBSET S /\ g[r] \in V
    BY <1>1
  <2>2. g[s] = step[<<pick[s], g[r]>>]
    BY <1>1, <1>4 DEF FoldStep
  <2>3. f[r] \in V => f[s] = step[<<pick[s], f[r]>>]
    BY <1>2, <1>4
  <2> QED
    BY <1>4, <2>1, <2>2, <2>3 DEF Stays
<1>5. Alike(S, pick, g, f)
  BY <1>3, <1>4 DEF Alike
<1>6. g[S] = f[S]
  BY <1>5, SameFold
<1> QED
  BY <1>1, <1>6

\* The recursion behind a sum.
SumRec(f, S, h) ==
  h = [s \in SUBSET S |-> IF s = {} THEN 0 ELSE f[CHOOSE x \in s : TRUE] + h[s \ {CHOOSE x \in s : TRUE}]]

\* What the library's sum stands for.
LEMMA SumIsFold ==
  ASSUME NEW f, NEW S
  PROVE  SumFunctionOnSet(f, S) = (CHOOSE h : SumRec(f, S, h))[S]
BY DEF SumFunctionOnSet, FoldFunctionOnSet, MapThenFoldSet, SumRec

\* The recursion has a solution, and its values are integers.
LEMMA SumRecExists ==
  ASSUME NEW S, IsFiniteSet(S), NEW f, \A x \in S : f[x] \in Int
  PROVE  /\ SumRec(f, S, CHOOSE h : SumRec(f, S, h))
         /\ (CHOOSE h : SumRec(f, S, h)) \in [SUBSET S -> Int]
<1> DEFINE pick == [s \in SUBSET S |-> CHOOSE x \in s : TRUE]
           step == [t \in S \X Int |-> f[t[1]] + t[2]]
<1>1. \A s \in SUBSET S : s # {} => pick[s] \in s
  OBVIOUS
<1>2. step \in [S \X Int -> Int] /\ \A x \in S, v \in Int : step[<<x, v>>] = f[x] + v
  OBVIOUS
<1>3. PICK g \in [SUBSET S -> Int] : FoldStep(S, 0, pick, step, g)
  <2> HIDE DEF pick, step
  <2> QED
    BY 0 \in Int, <1>1, <1>2, FoldExists
<1>4. SumRec(f, S, g)
  <2> SUFFICES ASSUME NEW s \in SUBSET S, s # {}
               PROVE  g[s] = f[CHOOSE x \in s : TRUE] + g[s \ {CHOOSE x \in s : TRUE}]
    BY <1>3 DEF SumRec, FoldStep
  <2>1. pick[s] = (CHOOSE x \in s : TRUE) /\ pick[s] \in S
    OBVIOUS
  <2> HIDE DEF pick, step
  <2>2. g[s] = step[<<pick[s], g[s \ {pick[s]}]>>]
    BY <1>3 DEF FoldStep
  <2> QED
    BY <1>2, <2>1, <2>2
<1> DEFINE h == CHOOSE h : SumRec(f, S, h)
<1>5. SumRec(f, S, h)
  BY <1>4
<1> HIDE DEF h
<1>6. h \in [SUBSET S -> Int]
  <2> DEFINE A == {s \in SUBSET S : h[s] \in Int}
  <2>1. ASSUME NEW s \in SUBSET S, \A t \in SUBSET s : t # s => t \in A PROVE s \in A
    <3> DEFINE c == CHOOSE x \in s : TRUE
    <3>1. CASE s = {}
      BY <1>5, <3>1 DEF SumRec
    <3>2. CASE s # {}
      <4>1. c \in s /\ f[c] \in Int /\ h[s \ {c}] \in Int
        BY <2>1, <3>2
      <4>2. h[s] = f[c] + h[s \ {c}]
        BY <1>5, <3>2 DEF SumRec
      <4> QED
        BY <4>1, <4>2
    <3> QED
      BY <3>1, <3>2
  <2>2. A \in SUBSET (SUBSET S)
    OBVIOUS
  <2> HIDE DEF A
  <2>3. A = SUBSET S
    BY <2>1, <2>2, SubsetInduction
  <2> QED
    BY <1>5, <2>3 DEF A, SumRec
<1> QED
  BY <1>5, <1>6 DEF h

\* A sum takes out the element that the library chooses.
LEMMA SumUnfolds ==
  ASSUME NEW S, IsFiniteSet(S), NEW f, \A x \in S : f[x] \in Int
  PROVE  /\ SumFunctionOnSet(f, S) \in Int
         /\ S = {} => SumFunctionOnSet(f, S) = 0
         /\ S # {} => LET c == CHOOSE x \in S : TRUE
                      IN SumFunctionOnSet(f, S) = f[c] + SumFunctionOnSet(f, S \ {c})
<1> DEFINE Rec(T) == CHOOSE h : SumRec(f, T, h)
           c == CHOOSE x \in S : TRUE
           g == Rec(S)
           h == Rec(S \ {c})
<1>1. SumRec(f, S, g) /\ g \in [SUBSET S -> Int]
  BY SumRecExists
<1>2. IsFiniteSet(S \ {c}) /\ SumRec(f, S \ {c}, h)
  BY SumRecExists, FS_Subset
<1>3. SumFunctionOnSet(f, S) = g[S] /\ SumFunctionOnSet(f, S \ {c}) = h[S \ {c}]
  BY SumIsFold
<1> HIDE DEF g, h
<1>4. ASSUME S # {} PROVE g[S \ {c}] = h[S \ {c}]
  <2> DEFINE A == {s \in SUBSET (S \ {c}) : g[s] = h[s]}
  <2>1. ASSUME NEW s \in SUBSET (S \ {c}), \A t \in SUBSET s : t # s => t \in A PROVE s \in A
    <3> DEFINE d == CHOOSE x \in s : TRUE
    <3>1. g[s] = IF s = {} THEN 0 ELSE f[d] + g[s \ {d}]
      BY <1>1 DEF SumRec
    <3>2. h[s] = IF s = {} THEN 0 ELSE f[d] + h[s \ {d}]
      BY <1>2 DEF SumRec
    <3>3. s # {} => d \in s
      OBVIOUS
    <3>4. s # {} => g[s \ {d}] = h[s \ {d}]
      BY <2>1, <3>3
    <3> QED
      BY <3>1, <3>2, <3>4
  <2>2. A \in SUBSET (SUBSET (S \ {c}))
    OBVIOUS
  <2> HIDE DEF A
  <2>3. A = SUBSET (S \ {c})
    BY <1>2, <2>1, <2>2, SubsetInduction
  <2> QED
    BY <2>3 DEF A
<1>5. g[S] = IF S = {} THEN 0 ELSE f[c] + g[S \ {c}]
  BY <1>1 DEF SumRec
<1> QED
  BY <1>1, <1>3, <1>4, <1>5

\* Any element may be taken out.
LEMMA SumRemove ==
  ASSUME NEW S, IsFiniteSet(S), NEW f, \A x \in S : f[x] \in Int, NEW x \in S
  PROVE  SumFunctionOnSet(f, S) = f[x] + SumFunctionOnSet(f, S \ {x})
<1> DEFINE Sum(s) == SumFunctionOnSet(f, s)
           A == {s \in SUBSET S : \A y \in s : Sum(s) = f[y] + Sum(s \ {y})}
<1>1. ASSUME NEW s \in SUBSET S
      PROVE  Sum(s) \in Int /\ (s # {} => Sum(s) = f[CHOOSE y \in s : TRUE] + Sum(s \ {CHOOSE y \in s : TRUE}))
  <2>1. IsFiniteSet(s) /\ \A y \in s : f[y] \in Int
    BY FS_Subset
  <2> QED
    BY <2>1, SumUnfolds
<1> HIDE DEF Sum
<1>2. ASSUME NEW s \in SUBSET S, \A t \in SUBSET s : t # s => t \in A PROVE s \in A
  <2> SUFFICES ASSUME NEW y \in s PROVE Sum(s) = f[y] + Sum(s \ {y})
    OBVIOUS
  <2> DEFINE c == CHOOSE z \in s : TRUE
  <2>1. c \in s /\ Sum(s) = f[c] + Sum(s \ {c})
    BY <1>1
  <2> HIDE DEF c
  <2>2. CASE c # y
    <3>1. s \ {c} \in A /\ y \in s \ {c} /\ s \ {y} \in A /\ c \in s \ {y}
      BY <1>2, <2>1, <2>2
    <3> DEFINE r == s \ {c, y}
    <3>2. (s \ {c}) \ {y} = r /\ (s \ {y}) \ {c} = r
      OBVIOUS
    <3>3. Sum(s \ {c}) = f[y] + Sum(r)
      BY <3>1, <3>2
    <3>4. Sum(s \ {y}) = f[c] + Sum(r)
      BY <3>1, <3>2
    <3>5. Sum(r) \in Int /\ f[y] \in Int /\ f[c] \in Int
      BY <1>1, <2>1
    <3> HIDE DEF A, r
    <3> QED
      BY <2>1, <3>3, <3>4, <3>5
  <2> QED
    BY <2>1, <2>2
<1>3. A \in SUBSET (SUBSET S)
  OBVIOUS
<1> HIDE DEF A
<1>4. S \in A
  BY <1>2, <1>3, SubsetInduction
<1> QED
  BY <1>4 DEF A, Sum

\* Functions that are as large on a set have as large a sum.
LEMMA SumMonotone ==
  ASSUME NEW S, IsFiniteSet(S), NEW f, NEW g, \A x \in S : f[x] \in Int /\ g[x] \in Int /\ f[x] <= g[x]
  PROVE  SumFunctionOnSet(f, S) <= SumFunctionOnSet(g, S)
<1> DEFINE A == {s \in SUBSET S : SumFunctionOnSet(f, s) <= SumFunctionOnSet(g, s)}
<1>2. ASSUME NEW s \in SUBSET S, \A t \in SUBSET s : t # s => t \in A PROVE s \in A
  <2>1. IsFiniteSet(s)
    BY FS_Subset
  <2>2. CASE s = {}
    BY <2>1, <2>2, SumUnfolds
  <2>3. ASSUME NEW x \in s PROVE SumFunctionOnSet(f, s) <= SumFunctionOnSet(g, s)
    <3> DEFINE r == s \ {x}
    <3>1. SumFunctionOnSet(f, s) = f[x] + SumFunctionOnSet(f, r)
      BY <2>1, SumRemove
    <3>2. SumFunctionOnSet(g, s) = g[x] + SumFunctionOnSet(g, r)
      BY <2>1, SumRemove
    <3>3. r \in A
      BY <1>2
    <3>4. IsFiniteSet(r) /\ SumFunctionOnSet(f, r) \in Int /\ SumFunctionOnSet(g, r) \in Int
      BY <2>1, SumUnfolds, FS_Subset
    <3> QED
      BY <3>1, <3>2, <3>3, <3>4
  <2> QED
    BY <2>2, <2>3
<1>3. A \in SUBSET (SUBSET S)
  OBVIOUS
<1> HIDE DEF A
<1>4. S \in A
  BY <1>2, <1>3, SubsetInduction
<1> QED
  BY <1>4 DEF A

\* A sum looks at the values on the set only.
LEMMA SumEqual ==
  ASSUME NEW S, IsFiniteSet(S), NEW f, NEW g, \A x \in S : f[x] \in Int /\ g[x] = f[x]
  PROVE  SumFunctionOnSet(f, S) = SumFunctionOnSet(g, S)
<1>1. SumFunctionOnSet(f, S) \in Int /\ SumFunctionOnSet(g, S) \in Int
  BY SumUnfolds
<1>2. SumFunctionOnSet(f, S) <= SumFunctionOnSet(g, S) /\ SumFunctionOnSet(g, S) <= SumFunctionOnSet(f, S)
  BY SumMonotone
<1> QED
  BY <1>1, <1>2

\* Sums add up.
LEMMA SumPlus ==
  ASSUME NEW S, IsFiniteSet(S), NEW f, NEW g, NEW h,
         \A x \in S : f[x] \in Int /\ g[x] \in Int /\ h[x] = f[x] + g[x]
  PROVE  SumFunctionOnSet(h, S) = SumFunctionOnSet(f, S) + SumFunctionOnSet(g, S)
<1> DEFINE A == {s \in SUBSET S : SumFunctionOnSet(h, s) = SumFunctionOnSet(f, s) + SumFunctionOnSet(g, s)}
<1>1. \A x \in S : h[x] \in Int
  OBVIOUS
<1>2. ASSUME NEW s \in SUBSET S, \A t \in SUBSET s : t # s => t \in A PROVE s \in A
  <2>1. IsFiniteSet(s)
    BY FS_Subset
  <2>2. CASE s = {}
    BY <1>1, <2>1, <2>2, SumUnfolds
  <2>3. ASSUME NEW x \in s PROVE s \in A
    <3> DEFINE r == s \ {x}
    <3>1. SumFunctionOnSet(f, s) = f[x] + SumFunctionOnSet(f, r)
      BY <2>1, SumRemove
    <3>2. SumFunctionOnSet(g, s) = g[x] + SumFunctionOnSet(g, r)
      BY <2>1, SumRemove
    <3>5. SumFunctionOnSet(h, s) = h[x] + SumFunctionOnSet(h, r)
      BY <1>1, <2>1, SumRemove
    <3>3. r \in A
      BY <1>2
    <3>4. IsFiniteSet(r) /\ SumFunctionOnSet(f, r) \in Int /\ SumFunctionOnSet(g, r) \in Int
      BY <2>1, SumUnfolds, FS_Subset
    <3> QED
      BY <3>1, <3>2, <3>3, <3>4, <3>5
  <2> QED
    BY <2>2, <2>3
<1>3. A \in SUBSET (SUBSET S)
  OBVIOUS
<1> HIDE DEF A
<1>4. S \in A
  BY <1>2, <1>3, SubsetInduction
<1> QED
  BY <1>4 DEF A

\* One value of the function is another.
LEMMA SumUpdate ==
  ASSUME NEW S, IsFiniteSet(S), NEW f, NEW g, NEW x \in S, \A y \in S : f[y] \in Int /\ g[y] \in Int,
         \A y \in S \ {x} : g[y] = f[y]
  PROVE  SumFunctionOnSet(g, S) = SumFunctionOnSet(f, S) - f[x] + g[x]
<1> DEFINE r == S \ {x}
<1>1. IsFiniteSet(r)
  BY FS_Subset
<1>2. SumFunctionOnSet(f, r) = SumFunctionOnSet(g, r) /\ SumFunctionOnSet(f, r) \in Int
  BY <1>1, SumEqual, SumUnfolds
<1>3. SumFunctionOnSet(f, S) = f[x] + SumFunctionOnSet(f, r)
  BY SumRemove
<1>4. SumFunctionOnSet(g, S) = g[x] + SumFunctionOnSet(g, r)
  BY SumRemove
<1> QED
  BY <1>2, <1>3, <1>4

\* Without negative values a part has no larger sum than the whole.
LEMMA SumOfPart ==
  ASSUME NEW S, IsFiniteSet(S), NEW f, \A x \in S : f[x] \in Nat, NEW P \in SUBSET S
  PROVE  SumFunctionOnSet(f, P) <= SumFunctionOnSet(f, S)
<1> DEFINE A == {s \in SUBSET S : SumFunctionOnSet(f, s \cap P) <= SumFunctionOnSet(f, s)}
<1>1. ASSUME NEW s \in SUBSET S, \A t \in SUBSET s : t # s => t \in A PROVE s \in A
  <2>1. IsFiniteSet(s) /\ IsFiniteSet(s \cap P)
    BY FS_Subset
  <2>2. CASE s = {}
    <3>1. s \cap P = s /\ SumFunctionOnSet(f, s) = 0
      BY <2>1, <2>2, SumUnfolds
    <3> QED
      BY <3>1
  <2>3. ASSUME NEW x \in s PROVE s \in A
    <3> DEFINE r == s \ {x}
    <3>1. SumFunctionOnSet(f, s) = f[x] + SumFunctionOnSet(f, r)
      BY <2>1, SumRemove
    <3>2. SumFunctionOnSet(f, r \cap P) <= SumFunctionOnSet(f, r)
      BY <1>1
    <3>3. SumFunctionOnSet(f, r) \in Int /\ SumFunctionOnSet(f, r \cap P) \in Int
      <4>1. IsFiniteSet(r) /\ IsFiniteSet(r \cap P) /\ (\A y \in r : f[y] \in Int) /\ \A y \in r \cap P : f[y] \in Int
        BY <2>1, FS_Subset
      <4> HIDE DEF r
      <4> QED
        BY <4>1, SumUnfolds
    <3>4. CASE x \in P
      <4>1. SumFunctionOnSet(f, s \cap P) = f[x] + SumFunctionOnSet(f, (s \cap P) \ {x})
        BY <2>1, <3>4, SumRemove
      <4>2. (s \cap P) \ {x} = r \cap P
        OBVIOUS
      <4> HIDE DEF r
      <4>3. SumFunctionOnSet(f, s \cap P) = f[x] + SumFunctionOnSet(f, r \cap P)
        BY <4>1, <4>2
      <4>4. SumFunctionOnSet(f, s \cap P) <= SumFunctionOnSet(f, s)
        BY <3>1, <3>2, <3>3, <4>3
      <4> QED
        BY <4>4
    <3>5. CASE x \notin P
      <4>1. s \cap P = r \cap P
        BY <3>5
      <4> HIDE DEF r
      <4> QED
        BY <3>1, <3>2, <3>3, <4>1
    <3> QED
      BY <3>4, <3>5
  <2> QED
    BY <2>2, <2>3
<1>2. A \in SUBSET (SUBSET S)
  OBVIOUS
<1> HIDE DEF A
<1>3. S \in A
  BY <1>1, <1>2, SubsetInduction
<1>4. S \cap P = P
  OBVIOUS
<1> QED
  BY <1>3, <1>4 DEF A
=============================================================================
