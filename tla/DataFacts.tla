----------------------------- MODULE DataFacts -----------------------------
(***************************************************************************)
(* Facts about data that the proofs of several modules need: sums over     *)
(* finite sets (SumFunctionOnSet of the community modules) and filtered    *)
(* sequences (Within).  They hold by induction, which is used in the form  *)
(* the provers can apply: if a fact failed somewhere, there would be a     *)
(* least number, a smallest set or a shortest sequence for which it fails. *)
(***************************************************************************)
EXTENDS Filters, FiniteSets, Functions, SequencesExt, FiniteSetTheorems, SequenceTheorems, TLAPS

-----------------------------------------------------------------------------
\* Induction.

LEMMA LeastNatural ==
    ASSUME NEW T \in SUBSET Nat, T # {}
    PROVE  \E n \in T : \A m \in T : n <= m
<1>1. PICK n \in T : \A m \in T : <<m, n>> \notin OpToRel(<, Nat)
  BY NatLessThanWellFounded, WFMin
<1>2. \A m \in T : ~(m < n)
  BY <1>1 DEF OpToRel
<1>3. QED
  BY <1>2

LEMMA SmallestSubset ==
    ASSUME NEW S, IsFiniteSet(S), NEW T \in SUBSET (SUBSET S), T # {}
    PROVE  \E s \in T : \A r \in T : r \subseteq s => r = s
<1>1. FiniteSubsetsOf(S) = SUBSET S
  BY FS_FiniteSubsetsOfFinite
<1>2. PICK s \in T : \A r \in T : <<r, s>> \notin StrictSubsetOrdering(S)
  BY <1>1, FS_StrictSubsetOrderingWellFounded, WFMin
<1>3. QED
  BY <1>2 DEF StrictSubsetOrdering

LEMMA ShortestSequence ==
    ASSUME NEW A, NEW T \in SUBSET Seq(A), T # {}
    PROVE  \E s \in T : \A r \in T : Len(s) <= Len(r)
<1> DEFINE lengths == {n \in Nat : \E s \in T : Len(s) = n}
<1>1. lengths # {}
  BY LenProperties
<1>2. PICK n \in lengths : \A m \in lengths : n <= m
  <2> HIDE DEF lengths
  <2>1. lengths \in SUBSET Nat
    BY DEF lengths
  <2>2. QED
    BY <1>1, <2>1, LeastNatural
<1>3. QED
  BY <1>2, LenProperties

LEMMA SequenceInduction ==
    ASSUME NEW A, NEW G \in SUBSET Seq(A), <<>> \in G,
           \A s \in G : \A x \in A : Append(s, x) \in G
    PROVE  \A s \in Seq(A) : s \in G
<1>1. SUFFICES ASSUME Seq(A) \ G # {} PROVE FALSE
  OBVIOUS
<1>2. PICK r \in Seq(A) \ G : \A q \in Seq(A) \ G : Len(r) <= Len(q)
  <2>1. Seq(A) \ G \in SUBSET Seq(A)
    OBVIOUS
  <2>2. QED
    BY <1>1, <2>1, ShortestSequence
<1>3. PICK q \in Seq(A), x \in A : r = Append(q, x)
  BY <1>2, SequenceEmptyOrAppend
<1>4. Len(r) = Len(q) + 1 /\ Len(q) \in Nat
  BY <1>3, AppendProperties, LenProperties
<1>5. q \in G
  BY <1>2, <1>4
<1>6. QED
  BY <1>2, <1>3, <1>5

-----------------------------------------------------------------------------
\* Sums.  The library defines a sum by recursion over the subsets of a set,
\* removing an element CHOOSE names.

AnyOf(s) == CHOOSE x \in s : TRUE

AddsUp(g, f, T) ==
    g = [s \in SUBSET T |-> IF s = {} THEN 0 ELSE f[AnyOf(s)] + g[s \ {AnyOf(s)}]]

LEMMA AnyOfIsElement ==
    ASSUME NEW s, s # {}
    PROVE  AnyOf(s) \in s
  BY DEF AnyOf

LEMMA SumIsChosen ==
    ASSUME NEW f, NEW S
    PROVE  SumFunctionOnSet(f, S) = (CHOOSE g : AddsUp(g, f, S))[S]
  BY DEF SumFunctionOnSet, FoldFunctionOnSet, MapThenFoldSet, AddsUp, AnyOf

LEMMA AddsUpAt ==
    ASSUME NEW f, NEW g, NEW T, AddsUp(g, f, T), NEW s \in SUBSET T
    PROVE  g[s] = IF s = {} THEN 0 ELSE f[AnyOf(s)] + g[s \ {AnyOf(s)}]
  BY DEF AddsUp

\* Two such functions agree where both are defined.
LEMMA SumsAgree ==
    ASSUME NEW f, NEW T, NEW U, IsFiniteSet(T), NEW g, NEW h,
           AddsUp(g, f, T), AddsUp(h, f, U), NEW r \in SUBSET T, r \in SUBSET U
    PROVE  g[r] = h[r]
<1> DEFINE Bad == {s \in SUBSET T : s \subseteq U /\ g[s] # h[s]}
<1>1. SUFFICES ASSUME Bad # {} PROVE FALSE
  OBVIOUS
<1>2. PICK s \in Bad : \A q \in Bad : q \subseteq s => q = s
  <2>1. Bad \in SUBSET (SUBSET T)
    OBVIOUS
  <2> HIDE DEF Bad
  <2>2. QED
    BY <1>1, <2>1, SmallestSubset
<1>3. s # {}
  BY <1>2, AddsUpAt
<1>4. AnyOf(s) \in s
  BY <1>3, AnyOfIsElement
<1>5. s \ {AnyOf(s)} \notin Bad
  BY <1>2, <1>4
<1>6. g[s \ {AnyOf(s)}] = h[s \ {AnyOf(s)}]
  BY <1>2, <1>5
<1>7. g[s] = f[AnyOf(s)] + g[s \ {AnyOf(s)}]
  BY <1>3, AddsUpAt
<1>8. h[s] = f[AnyOf(s)] + h[s \ {AnyOf(s)}]
  BY <1>3, AddsUpAt
<1>9. QED
  BY <1>2, <1>6, <1>7, <1>8

Summed(f, T) == CHOOSE g : AddsUp(g, f, T)

LEMMA SumExists ==
    ASSUME NEW f, NEW S, IsFiniteSet(S)
    PROVE  AddsUp(Summed(f, S), f, S)
<1> DEFINE Bad == {T \in SUBSET S : ~AddsUp(Summed(f, T), f, T)}
<1>1. SUFFICES ASSUME Bad # {} PROVE FALSE
  OBVIOUS
<1>2. PICK T \in Bad : \A U \in Bad : U \subseteq T => U = T
  <2>1. Bad \in SUBSET (SUBSET S)
    OBVIOUS
  <2> HIDE DEF Bad
  <2>2. QED
    BY <1>1, <2>1, SmallestSubset
<1> DEFINE rest(s) == s \ {AnyOf(s)}
           h == [s \in SUBSET T |-> IF s = {} THEN 0 ELSE f[AnyOf(s)] + Summed(f, rest(s))[rest(s)]]
<1>3. \A s \in SUBSET T : s # T => AddsUp(Summed(f, s), f, s)
  BY <1>2
<1>4. ASSUME NEW s \in SUBSET T, s # T
      PROVE  h[s] = Summed(f, s)[s]
  <2>1. CASE s = {}
    BY <1>3, <1>4, <2>1, AddsUpAt
  <2>2. CASE s # {}
    <3>1. rest(s) \in SUBSET s /\ rest(s) \in SUBSET T /\ rest(s) # T
      BY <1>4
    <3>2. Summed(f, s)[s] = f[AnyOf(s)] + Summed(f, s)[rest(s)]
      BY <1>3, <1>4, <2>2, AddsUpAt
    <3>3. IsFiniteSet(s)
      BY FS_Subset
    <3>4. Summed(f, s)[rest(s)] = Summed(f, rest(s))[rest(s)]
      BY <1>3, <1>4, <3>1, <3>3, SumsAgree
    <3>5. QED
      BY <2>2, <3>2, <3>4
  <2>3. QED
    BY <2>1, <2>2
<1>5. ASSUME NEW s \in SUBSET T, s # {}
      PROVE  rest(s) \in SUBSET T /\ rest(s) # T
  BY <1>5, AnyOfIsElement
<1>6. h = [s \in SUBSET T |-> IF s = {} THEN 0 ELSE f[AnyOf(s)] + h[rest(s)]]
  <2>1. \A s \in SUBSET T : s # {} => h[rest(s)] = Summed(f, rest(s))[rest(s)]
    BY <1>4, <1>5
  <2> HIDE DEF rest
  <2>2. QED
    BY <2>1
<1>7. AddsUp(h, f, T)
  BY <1>6 DEF AddsUp
<1> HIDE DEF h
<1>8. QED
  BY <1>2, <1>7 DEF Summed

LEMMA SumSelects ==
    ASSUME NEW f, NEW S, IsFiniteSet(S), S # {}
    PROVE  /\ AnyOf(S) \in S
           /\ SumFunctionOnSet(f, S) = f[AnyOf(S)] + SumFunctionOnSet(f, S \ {AnyOf(S)})
<1> DEFINE R == S \ {AnyOf(S)}
<1>1. AddsUp(Summed(f, S), f, S) /\ AddsUp(Summed(f, R), f, R)
  BY FS_Subset, SumExists
<1>2. Summed(f, S)[S] = f[AnyOf(S)] + Summed(f, S)[R]
  BY <1>1, AddsUpAt
<1>3. Summed(f, S)[R] = Summed(f, R)[R]
  BY <1>1, SumsAgree
<1>4. QED
  BY <1>2, <1>3, AnyOfIsElement, SumIsChosen DEF Summed

LEMMA SumOfNothing ==
    ASSUME NEW f
    PROVE  SumFunctionOnSet(f, {}) = 0
  BY SumExists, AddsUpAt, SumIsChosen, FS_EmptySet DEF Summed

Ints(f, S) == \A x \in S : f[x] \in Int
Total(f, S) == SumFunctionOnSet(f, S)

LEMMA SumType ==
    ASSUME NEW f, NEW S, IsFiniteSet(S), Ints(f, S)
    PROVE  SumFunctionOnSet(f, S) \in Int
<1> DEFINE Bad == {s \in SUBSET S : Total(f, s) \notin Int}
<1>1. SUFFICES ASSUME Bad # {} PROVE FALSE
  BY DEF Total
<1>2. PICK s \in Bad : \A q \in Bad : q \subseteq s => q = s
  <2>1. Bad \in SUBSET (SUBSET S)
    OBVIOUS
  <2> HIDE DEF Bad
  <2>2. QED
    BY <1>1, <2>1, SmallestSubset
<1>3. s # {}
  <2>1. Total(f, {}) = 0
    BY SumOfNothing DEF Total
  <2>2. Total(f, {}) \in Int /\ Total(f, s) \notin Int
    BY <1>2, <2>1
  <2>3. QED
    BY <2>2
<1>4. AnyOf(s) \in s /\ Total(f, s) = f[AnyOf(s)] + Total(f, s \ {AnyOf(s)})
  BY <1>3, SumSelects, FS_Subset DEF Total
<1>5. Total(f, s \ {AnyOf(s)}) \in Int /\ f[AnyOf(s)] \in Int
  BY <1>2, <1>4 DEF Ints
<1>6. QED
  BY <1>2, <1>4, <1>5

\* Any element may be taken first.
LEMMA SumRemove ==
    ASSUME NEW f, NEW S, IsFiniteSet(S), Ints(f, S), NEW x \in S
    PROVE  SumFunctionOnSet(f, S) = f[x] + SumFunctionOnSet(f, S \ {x})
<1> DEFINE Bad == {s \in SUBSET S : \E y \in s : Total(f, s) # f[y] + Total(f, s \ {y})}
<1>1. SUFFICES ASSUME Bad # {} PROVE FALSE
  BY DEF Total
<1>2. PICK s \in Bad : \A q \in Bad : q \subseteq s => q = s
  <2>1. Bad \in SUBSET (SUBSET S)
    OBVIOUS
  <2> HIDE DEF Bad
  <2>2. QED
    BY <1>1, <2>1, SmallestSubset
<1>3. PICK y \in s : Total(f, s) # f[y] + Total(f, s \ {y})
  BY <1>2
<1> DEFINE a == AnyOf(s)
<1>4. a \in s /\ Total(f, s) = f[a] + Total(f, s \ {a})
  BY SumSelects, FS_Subset DEF Total
<1>5. a # y
  BY <1>3, <1>4
<1>6. s \ {a} \notin Bad /\ s \ {y} \notin Bad
  BY <1>2, <1>3, <1>4
<1>7. Total(f, s \ {a}) = f[y] + Total(f, (s \ {a}) \ {y})
  BY <1>3, <1>5, <1>6
<1>8. Total(f, s \ {y}) = f[a] + Total(f, (s \ {y}) \ {a})
  BY <1>4, <1>5, <1>6
<1>9. (s \ {a}) \ {y} = (s \ {y}) \ {a}
  OBVIOUS
<1>10. f[a] \in Int /\ f[y] \in Int /\ Total(f, (s \ {a}) \ {y}) \in Int
  <2>1. IsFiniteSet((s \ {a}) \ {y}) /\ Ints(f, (s \ {a}) \ {y})
    BY FS_Subset DEF Ints
  <2>2. QED
    BY <1>3, <1>4, <2>1, SumType DEF Ints, Total
<1>11. Total(f, s) = f[a] + (f[y] + Total(f, (s \ {a}) \ {y}))
  BY <1>4, <1>7
<1>12. f[y] + Total(f, s \ {y}) = f[y] + (f[a] + Total(f, (s \ {a}) \ {y}))
  BY <1>8, <1>9
<1> HIDE DEF a
<1>13. QED
  BY <1>3, <1>10, <1>11, <1>12

\* Terms that are the same have the same sum.
LEMMA SumSame ==
    ASSUME NEW f, NEW g, NEW S, IsFiniteSet(S), \A x \in S : f[x] = g[x]
    PROVE  SumFunctionOnSet(f, S) = SumFunctionOnSet(g, S)
<1> DEFINE Bad == {s \in SUBSET S : Total(f, s) # Total(g, s)}
<1>1. SUFFICES ASSUME Bad # {} PROVE FALSE
  BY DEF Total
<1>2. PICK s \in Bad : \A q \in Bad : q \subseteq s => q = s
  <2>1. Bad \in SUBSET (SUBSET S)
    OBVIOUS
  <2> HIDE DEF Bad
  <2>2. QED
    BY <1>1, <2>1, SmallestSubset
<1>3. s # {}
  BY <1>2, SumOfNothing DEF Total
<1>4. /\ AnyOf(s) \in s
      /\ Total(f, s) = f[AnyOf(s)] + Total(f, s \ {AnyOf(s)})
      /\ Total(g, s) = g[AnyOf(s)] + Total(g, s \ {AnyOf(s)})
  BY <1>3, SumSelects, FS_Subset DEF Total
<1>5. Total(f, s \ {AnyOf(s)}) = Total(g, s \ {AnyOf(s)})
  BY <1>2, <1>4
<1>6. QED
  BY <1>2, <1>4, <1>5

\* One term changes.
LEMMA SumChange ==
    ASSUME NEW f, NEW g, NEW S, IsFiniteSet(S), Ints(f, S), Ints(g, S), NEW x \in S,
           \A y \in S \ {x} : f[y] = g[y]
    PROVE  SumFunctionOnSet(g, S) = SumFunctionOnSet(f, S) - f[x] + g[x]
<1> DEFINE R == S \ {x}
<1>1. Total(f, S) = f[x] + Total(f, R) /\ Total(g, S) = g[x] + Total(g, R)
  BY SumRemove DEF Total
<1>2. IsFiniteSet(R)
  BY FS_Subset
<1>3. Total(f, R) = Total(g, R)
  BY <1>2, SumSame DEF Total
<1>4. f[x] \in Int /\ g[x] \in Int /\ Total(f, R) \in Int
  BY <1>2, SumType DEF Ints, Total
<1>5. QED
  BY <1>1, <1>3, <1>4 DEF Total

LEMMA SumOfZeros ==
    ASSUME NEW f, NEW S, IsFiniteSet(S), \A x \in S : f[x] = 0
    PROVE  SumFunctionOnSet(f, S) = 0
<1> DEFINE Bad == {s \in SUBSET S : Total(f, s) # 0}
<1>1. SUFFICES ASSUME Bad # {} PROVE FALSE
  BY DEF Total
<1>2. PICK s \in Bad : \A q \in Bad : q \subseteq s => q = s
  <2>1. Bad \in SUBSET (SUBSET S)
    OBVIOUS
  <2> HIDE DEF Bad
  <2>2. QED
    BY <1>1, <2>1, SmallestSubset
<1>3. s # {}
  BY <1>2, SumOfNothing DEF Total
<1>4. AnyOf(s) \in s /\ Total(f, s) = f[AnyOf(s)] + Total(f, s \ {AnyOf(s)})
  BY <1>3, SumSelects, FS_Subset DEF Total
<1>5. Total(f, s \ {AnyOf(s)}) = 0 /\ f[AnyOf(s)] = 0
  BY <1>2, <1>4
<1>6. QED
  BY <1>2, <1>4, <1>5

\* The sum of a sequence of numbers, as it grows at its end.
LEMMA SumOfAppend ==
    ASSUME NEW s \in Seq(Int), NEW x \in Int
    PROVE  SumFunction(Append(s, x)) = SumFunction(s) + x
<1> DEFINE t == Append(s, x)
           n == Len(s)
<1>1. /\ t \in Seq(Int) /\ DOMAIN t = 1..(n + 1) /\ t[n + 1] = x
      /\ DOMAIN s = 1..n /\ n \in Nat /\ \A i \in 1..n : t[i] = s[i]
  BY AppendProperties, LenProperties
<1>2. IsFiniteSet(1..n) /\ IsFiniteSet(1..(n + 1))
  BY <1>1, FS_Interval
<1>3. Ints(t, 1..(n + 1)) /\ Ints(s, 1..n)
  BY <1>1, ElementOfSeq DEF Ints
<1>4. (1..(n + 1)) \ {n + 1} = 1..n /\ n + 1 \in 1..(n + 1)
  BY <1>1
<1> HIDE DEF t, n
<1> DEFINE D == 1..(n + 1)
<1>5. Total(t, D) = t[n + 1] + Total(t, D \ {n + 1})
  <2>1. IsFiniteSet(D) /\ Ints(t, D) /\ n + 1 \in D
    BY <1>2, <1>3, <1>4
  <2> HIDE DEF D
  <2>2. QED
    BY <2>1, SumRemove DEF Total
<1>6. Total(t, 1..n) = Total(s, 1..n)
  <2> DEFINE E == 1..n
  <2>1. IsFiniteSet(E) /\ \A i \in E : t[i] = s[i]
    BY <1>1, <1>2
  <2> HIDE DEF E
  <2>2. Total(t, E) = Total(s, E)
    BY <2>1, SumSame DEF Total
  <2>3. QED
    BY <2>2 DEF E
<1>7. Total(s, 1..n) \in Int
  BY <1>2, <1>3, SumType DEF Total
<1>8. SumFunction(t) = Total(t, 1..(n + 1)) /\ SumFunction(s) = Total(s, 1..n)
  BY <1>1 DEF SumFunction, Total
<1>9. Total(t, D) = x + Total(s, 1..n)
  BY <1>1, <1>4, <1>5, <1>6
<1> HIDE DEF D
<1>10. SumFunction(t) = SumFunction(s) + x
  BY <1>7, <1>8, <1>9 DEF D
<1>11. QED
  BY <1>10 DEF t

LEMMA SumOfEmpty == SumFunction(<<>>) = 0
<1>1. DOMAIN <<>> = {}
  OBVIOUS
<1>2. QED
  BY <1>1, SumOfNothing DEF SumFunction

LEMMA SumOfSequence ==
    ASSUME NEW s \in Seq(Int)
    PROVE  SumFunction(s) \in Int
<1>1. DOMAIN s = 1..Len(s) /\ Len(s) \in Nat
  BY LenProperties
<1>2. IsFiniteSet(1..Len(s)) /\ Ints(s, 1..Len(s))
  BY <1>1, FS_Interval, ElementOfSeq DEF Ints
<1>3. QED
  BY <1>1, <1>2, SumType DEF SumFunction

LEMMA SumOfConcat ==
    ASSUME NEW s \in Seq(Int), NEW t \in Seq(Int)
    PROVE  SumFunction(s \o t) = SumFunction(s) + SumFunction(t)
<1> DEFINE G == {r \in Seq(Int) : SumFunction(s \o r) = SumFunction(s) + SumFunction(r)}
<1>0. SumFunction(s) \in Int
  BY SumOfSequence
<1>1. <<>> \in G
  <2>1. s \o <<>> = s
    BY ConcatEmptySeq
  <2>2. SumFunction(s \o <<>>) = SumFunction(s) + SumFunction(<<>>)
    BY <1>0, <2>1, SumOfEmpty
  <2>3. QED
    BY <2>2
<1>2. ASSUME NEW r \in G, NEW x \in Int PROVE Append(r, x) \in G
  <2>1. s \o Append(r, x) = Append(s \o r, x) /\ s \o r \in Seq(Int)
    BY ConcatProperties, AppendIsConcat, ConcatAssociative
  <2>2. /\ SumFunction(s \o Append(r, x)) = SumFunction(s \o r) + x
        /\ SumFunction(Append(r, x)) = SumFunction(r) + x
    BY <2>1, SumOfAppend
  <2>3. SumFunction(s \o r) = SumFunction(s) + SumFunction(r) /\ SumFunction(r) \in Int
    BY SumOfSequence
  <2>4. SumFunction(s \o Append(r, x)) = SumFunction(s) + SumFunction(Append(r, x))
    BY <1>0, <2>2, <2>3
  <2>5. Append(r, x) \in Seq(Int)
    BY AppendProperties
  <2>6. QED
    BY <2>4, <2>5
<1>3. G \in SUBSET Seq(Int)
  OBVIOUS
<1> HIDE DEF G
<1>4. t \in G
  BY <1>1, <1>2, <1>3, SequenceInduction
<1>5. QED
  BY <1>4 DEF G

-----------------------------------------------------------------------------
\* Filtered sequences.  Within is defined by recursion over the positions.

Picks(f, s, S) ==
    f = [n \in 0..Len(s) |-> IF n = 0 THEN <<>>
                             ELSE IF s[n] \in S THEN Append(f[n - 1], s[n])
                             ELSE f[n - 1]]

Picked(s, S) == CHOOSE f : Picks(f, s, S)

LEMMA WithinIsChosen ==
    ASSUME NEW s, NEW S
    PROVE  Within(s, S) = Picked(s, S)[Len(s)]
  BY DEF Within, Picked, Picks

LEMMA PicksAt ==
    ASSUME NEW f, NEW s, NEW S, Picks(f, s, S), NEW n \in 0..Len(s)
    PROVE  f[n] = IF n = 0 THEN <<>>
                  ELSE IF s[n] \in S THEN Append(f[n - 1], s[n])
                  ELSE f[n - 1]
  BY DEF Picks

\* Sequences with a common beginning have it filtered in the same way.
LEMMA PicksAgree ==
    ASSUME NEW A, NEW s \in Seq(A), NEW t \in Seq(A), NEW S, NEW f, NEW g,
           Picks(f, s, S), Picks(g, t, S),
           NEW n \in 0..Len(s), n <= Len(t), \A i \in 1..n : s[i] = t[i]
    PROVE  f[n] = g[n]
<1> DEFINE Bad == {k \in Nat : k <= n /\ f[k] # g[k]}
<1>0. Len(s) \in Nat /\ Len(t) \in Nat
  BY LenProperties
<1>1. SUFFICES ASSUME Bad # {} PROVE FALSE
  BY <1>0
<1>2. PICK k \in Bad : \A j \in Bad : k <= j
  <2>1. Bad \in SUBSET Nat
    OBVIOUS
  <2> HIDE DEF Bad
  <2>2. QED
    BY <1>1, <2>1, LeastNatural
<1>3. k # 0
  <2>1. 0 \in 0..Len(s) /\ 0 \in 0..Len(t)
    BY <1>0
  <2>2. f[0] = <<>> /\ g[0] = <<>>
    BY <2>1, PicksAt
  <2>3. QED
    BY <1>2, <2>2
<1>4. f[k - 1] = g[k - 1]
  BY <1>2, <1>3
<1>5. s[k] = t[k]
  BY <1>2, <1>3
<1>6. k \in 0..Len(s) /\ k \in 0..Len(t)
  BY <1>0, <1>2
<1>7. f[k] = g[k]
  BY <1>3, <1>4, <1>5, <1>6, PicksAt
<1>8. QED
  BY <1>2, <1>7

LEMMA PicksOfEmpty ==
    ASSUME NEW S
    PROVE  Picks(Picked(<<>>, S), <<>>, S)
<1>1. Picks([n \in 0..Len(<<>>) |-> <<>>], <<>>, S)
  BY DEF Picks
<1>2. QED
  BY <1>1 DEF Picked

LEMMA PicksOfAppend ==
    ASSUME NEW A, NEW s \in Seq(A), NEW x \in A, NEW S, Picks(Picked(s, S), s, S)
    PROVE  Picks(Picked(Append(s, x), S), Append(s, x), S)
<1> DEFINE t == Append(s, x)
           p == Picked(s, S)
           last == IF x \in S THEN Append(p[Len(s)], x) ELSE p[Len(s)]
           h == [n \in 0..Len(t) |-> IF n = Len(t) THEN last ELSE p[n]]
<1>1. /\ Len(t) = Len(s) + 1 /\ Len(s) \in Nat /\ t[Len(s) + 1] = x
      /\ \A i \in 1..Len(s) : t[i] = s[i]
  BY AppendProperties, LenProperties
<1>2. \A n \in 0..Len(s) : p[n] = IF n = 0 THEN <<>>
                                ELSE IF s[n] \in S THEN Append(p[n - 1], s[n])
                                ELSE p[n - 1]
  BY PicksAt
<1> HIDE DEF t, p
<1>3. ASSUME NEW n \in 0..Len(t)
      PROVE  h[n] = IF n = 0 THEN <<>>
                    ELSE IF t[n] \in S THEN Append(h[n - 1], t[n])
                    ELSE h[n - 1]
  <2>1. CASE n = Len(t)
    BY <1>1, <2>1
  <2>2. CASE n # Len(t)
    <3>1. n \in 0..Len(s) /\ (n # 0 => n \in 1..Len(s) /\ n - 1 \in 0..Len(s))
      BY <1>1, <2>2
    <3>2. h[n] = p[n] /\ (n # 0 => h[n - 1] = p[n - 1] /\ t[n] = s[n])
      BY <1>1, <2>2, <3>1
    <3> HIDE DEF h
    <3>3. QED
      BY <1>2, <3>1, <3>2
  <2>3. QED
    BY <2>1, <2>2
<1>4. h = [n \in 0..Len(t) |-> IF n = 0 THEN <<>>
                               ELSE IF t[n] \in S THEN Append(h[n - 1], t[n])
                               ELSE h[n - 1]]
  <2>1. DOMAIN h = 0..Len(t) /\ h = [n \in 0..Len(t) |-> h[n]]
    OBVIOUS
  <2> HIDE DEF h
  <2>2. QED
    BY <1>3, <2>1
<1>5. Picks(h, t, S)
  <2> HIDE DEF h
  <2>1. QED
    BY <1>4 DEF Picks
<1> HIDE DEF h
<1>6. Picks(Picked(t, S), t, S)
  BY <1>5 DEF Picked
<1>7. QED
  BY <1>6 DEF t

LEMMA PicksExists ==
    ASSUME NEW A, NEW s \in Seq(A), NEW S
    PROVE  Picks(Picked(s, S), s, S)
<1> DEFINE G == {r \in Seq(A) : Picks(Picked(r, S), r, S)}
<1>1. <<>> \in G
  BY PicksOfEmpty
<1>2. \A r \in G : \A x \in A : Append(r, x) \in G
  BY PicksOfAppend, AppendProperties
<1>3. G \in SUBSET Seq(A)
  OBVIOUS
<1> HIDE DEF G
<1>4. s \in G
  BY <1>1, <1>2, <1>3, SequenceInduction
<1>5. QED
  BY <1>4 DEF G

LEMMA WithinOfEmpty ==
    ASSUME NEW S
    PROVE  Within(<<>>, S) = <<>>
<1>1. Len(<<>>) = 0 /\ 0 \in 0..Len(<<>>)
  OBVIOUS
<1>2. QED
  BY <1>1, PicksOfEmpty, PicksAt, WithinIsChosen

\* What one more element adds.
LEMMA WithinOfAppend ==
    ASSUME NEW A, NEW s \in Seq(A), NEW x \in A, NEW S
    PROVE  Within(Append(s, x), S) = IF x \in S THEN Append(Within(s, S), x) ELSE Within(s, S)
<1> DEFINE t == Append(s, x)
           f == Picked(s, S)
           g == Picked(t, S)
           n == Len(s)
<1>1. /\ t \in Seq(A) /\ Len(t) = n + 1 /\ n \in Nat /\ t[n + 1] = x
      /\ \A i \in 1..n : s[i] = t[i]
  BY AppendProperties, LenProperties
<1>2. Picks(f, s, S) /\ Picks(g, t, S)
  BY <1>1, PicksExists
<1>3. Within(s, S) = f[n] /\ Within(t, S) = g[n + 1]
  BY <1>1, WithinIsChosen
<1> HIDE DEF f, g, t
<1>4. f[n] = g[n]
  BY <1>1, <1>2, PicksAgree
<1>5. n + 1 \in 0..Len(t) /\ n + 1 # 0 /\ (n + 1) - 1 = n
  BY <1>1
<1>6. g[n + 1] = IF t[n + 1] \in S THEN Append(g[(n + 1) - 1], t[n + 1]) ELSE g[(n + 1) - 1]
  <2> HIDE DEF n
  <2>1. QED
    BY <1>2, <1>5, PicksAt
<1>7. Within(t, S) = IF x \in S THEN Append(Within(s, S), x) ELSE Within(s, S)
  BY <1>1, <1>3, <1>4, <1>5, <1>6
<1>8. QED
  BY <1>7 DEF t
LEMMA WithinOfOne ==
    ASSUME NEW x, NEW S
    PROVE  Within(<<x>>, S) = IF x \in S THEN <<x>> ELSE <<>>
<1> DEFINE e == <<>>
<1>1. e \in Seq({x}) /\ x \in {x} /\ Append(e, x) = <<x>>
  OBVIOUS
<1>2. Within(e, S) = e
  BY WithinOfEmpty
<1> HIDE DEF e
<1>3. Within(Append(e, x), S) = IF x \in S THEN Append(Within(e, S), x) ELSE Within(e, S)
  BY <1>1, WithinOfAppend
<1>4. Within(<<x>>, S) = IF x \in S THEN <<x>> ELSE e
  BY <1>1, <1>2, <1>3, Zenon
<1>5. QED
  BY <1>4 DEF e

LEMMA AppendToConcat ==
    ASSUME NEW A, NEW s \in Seq(A), NEW t \in Seq(A), NEW x \in A
    PROVE  s \o Append(t, x) = Append(s \o t, x) /\ s \o t \in Seq(A)
<1> DEFINE u == <<x>>
           p == s \o t
<1>1. Append(t, x) = t \o u /\ p \in Seq(A) /\ u \in Seq(A)
  BY ConcatProperties, AppendIsConcat
<1>2. Append(p, x) = p \o u
  <2> HIDE DEF p
  <2>1. QED
    BY <1>1, AppendIsConcat DEF u
<1> HIDE DEF u
<1>3. p \o u = s \o (t \o u)
  BY <1>1, ConcatAssociative
<1>4. QED
  BY <1>1, <1>2, <1>3

LEMMA WithinType ==
    ASSUME NEW A, NEW s \in Seq(A), NEW S
    PROVE  Within(s, S) \in Seq(A)
<1> DEFINE G == {r \in Seq(A) : Within(r, S) \in Seq(A)}
<1>1. <<>> \in G
  <2>1. Within(<<>>, S) = <<>> /\ <<>> \in Seq(A)
    BY WithinOfEmpty
  <2>2. Within(<<>>, S) \in Seq(A)
    BY <2>1
  <2>3. QED
    BY <2>1, <2>2
<1>2. ASSUME NEW r \in G, NEW x \in A PROVE Append(r, x) \in G
  <2>1. Within(r, S) \in Seq(A) /\ r \in Seq(A)
    OBVIOUS
  <2> HIDE DEF G
  <2>2. Append(Within(r, S), x) \in Seq(A)
    BY <2>1, AppendProperties
  <2>3. Within(Append(r, x), S) = IF x \in S THEN Append(Within(r, S), x) ELSE Within(r, S)
    BY <2>1, WithinOfAppend
  <2>4. Within(Append(r, x), S) \in Seq(A)
    BY <2>1, <2>2, <2>3
  <2>5. QED
    BY <2>1, <2>4, AppendProperties DEF G
<1>3. G \in SUBSET Seq(A)
  OBVIOUS
<1> HIDE DEF G
<1>4. s \in G
  BY <1>1, <1>2, <1>3, SequenceInduction
<1>5. QED
  BY <1>4 DEF G

LEMMA ToSetOfAppend ==
    ASSUME NEW A, NEW s \in Seq(A), NEW x \in A
    PROVE  ToSet(Append(s, x)) = ToSet(s) \cup {x}
<1> DEFINE t == Append(s, x)
           n == Len(s)
<1>1. /\ DOMAIN t = 1..(n + 1) /\ t[n + 1] = x
      /\ DOMAIN s = 1..n /\ n \in Nat /\ \A i \in 1..n : t[i] = s[i]
  BY AppendProperties, LenProperties
<1> HIDE DEF t, n
<1>2. \A i \in 1..(n + 1) : i = n + 1 \/ i \in 1..n
  BY <1>1
<1>3. n + 1 \in 1..(n + 1) /\ \A i \in 1..n : i \in 1..(n + 1)
  BY <1>1
<1>4. ToSet(t) = ToSet(s) \cup {x}
  BY <1>1, <1>2, <1>3 DEF ToSet
<1>5. QED
  BY <1>4 DEF t

LEMMA ToSetOfConcat ==
    ASSUME NEW A, NEW s \in Seq(A), NEW t \in Seq(A)
    PROVE  ToSet(s \o t) = ToSet(s) \cup ToSet(t)
<1> DEFINE G == {r \in Seq(A) : ToSet(s \o r) = ToSet(s) \cup ToSet(r)}
<1>1. <<>> \in G
  <2>1. s \o <<>> = s /\ ToSet(<<>>) = {}
    BY ConcatEmptySeq DEF ToSet
  <2>2. ToSet(s \o <<>>) = ToSet(s) \cup ToSet(<<>>)
    BY <2>1
  <2>3. QED
    BY <2>2
<1>2. ASSUME NEW r \in G, NEW x \in A PROVE Append(r, x) \in G
  <2> DEFINE p == s \o r
  <2>1. s \o Append(r, x) = Append(p, x) /\ p \in Seq(A)
    BY AppendToConcat
  <2>2. ToSet(p) = ToSet(s) \cup ToSet(r)
    OBVIOUS
  <2> HIDE DEF p
  <2>3. ToSet(Append(p, x)) = ToSet(p) \cup {x} /\ ToSet(Append(r, x)) = ToSet(r) \cup {x}
    BY <2>1, ToSetOfAppend
  <2>4. ToSet(s \o Append(r, x)) = ToSet(s) \cup ToSet(Append(r, x))
    BY <2>1, <2>2, <2>3
  <2>5. QED
    BY <2>4, AppendProperties
<1>3. G \in SUBSET Seq(A)
  OBVIOUS
<1> HIDE DEF G
<1>4. t \in G
  BY <1>1, <1>2, <1>3, SequenceInduction
<1>5. QED
  BY <1>4 DEF G

\* A filter keeps the elements of the set and no others.
LEMMA WithinElements ==
    ASSUME NEW A, NEW s \in Seq(A), NEW S
    PROVE  ToSet(Within(s, S)) = ToSet(s) \cap S
<1> DEFINE G == {r \in Seq(A) : ToSet(Within(r, S)) = ToSet(r) \cap S}
<1>1. <<>> \in G
  <2>1. ToSet(<<>>) = {} /\ Within(<<>>, S) = <<>>
    BY WithinOfEmpty DEF ToSet
  <2>2. ToSet(Within(<<>>, S)) = ToSet(<<>>) \cap S
    BY <2>1
  <2>3. QED
    BY <2>2
<1>2. ASSUME NEW r \in G, NEW x \in A PROVE Append(r, x) \in G
  <2>1. Within(r, S) \in Seq(A)
    BY WithinType
  <2>2. ToSet(Append(r, x)) = ToSet(r) \cup {x}
    BY ToSetOfAppend
  <2>3. ToSet(Append(Within(r, S), x)) = ToSet(Within(r, S)) \cup {x}
    BY <2>1, ToSetOfAppend
  <2>4. Within(Append(r, x), S) = IF x \in S THEN Append(Within(r, S), x) ELSE Within(r, S)
    BY WithinOfAppend
  <2>5. ToSet(Within(Append(r, x), S)) = ToSet(Append(r, x)) \cap S
    BY <2>2, <2>3, <2>4
  <2>6. QED
    BY <2>5, AppendProperties
<1>3. G \in SUBSET Seq(A)
  OBVIOUS
<1> HIDE DEF G
<1>4. s \in G
  BY <1>1, <1>2, <1>3, SequenceInduction
<1>5. QED
  BY <1>4 DEF G

LEMMA WithinConcat ==
    ASSUME NEW A, NEW s \in Seq(A), NEW t \in Seq(A), NEW S
    PROVE  Within(s \o t, S) = Within(s, S) \o Within(t, S)
<1> DEFINE G == {r \in Seq(A) : Within(s \o r, S) = Within(s, S) \o Within(r, S)}
<1>0. Within(s, S) \in Seq(A)
  BY WithinType
<1>1. <<>> \in G
  <2>1. s \o <<>> = s /\ Within(s, S) \o <<>> = Within(s, S)
    BY <1>0, ConcatEmptySeq
  <2>2. Within(s \o <<>>, S) = Within(s, S) \o Within(<<>>, S)
    BY <2>1, WithinOfEmpty
  <2>3. QED
    BY <2>2
<1>2. ASSUME NEW r \in G, NEW x \in A PROVE Append(r, x) \in G
  <2> DEFINE p == s \o r
             a == Within(s, S)
             b == Within(r, S)
  <2>1. s \o Append(r, x) = Append(p, x) /\ p \in Seq(A)
    BY AppendToConcat
  <2>2. Within(p, S) = a \o b /\ a \in Seq(A) /\ b \in Seq(A)
    BY <1>0, WithinType
  <2>3. Within(Append(r, x), S) = IF x \in S THEN Append(b, x) ELSE b
    BY WithinOfAppend
  <2> HIDE DEF p, a, b
  <2>4. Within(Append(p, x), S) = IF x \in S THEN Append(Within(p, S), x) ELSE Within(p, S)
    BY <2>1, WithinOfAppend
  <2>5. a \o Append(b, x) = Append(a \o b, x)
    <3> HIDE DEF G
    <3>1. a \in Seq(A) /\ b \in Seq(A) /\ x \in A
      BY <2>2
    <3>2. QED
      BY ONLY <3>1, AppendToConcat
  <2>6. Within(s \o Append(r, x), S) = a \o Within(Append(r, x), S)
    BY <2>1, <2>2, <2>3, <2>4, <2>5
  <2>7. QED
    BY <2>6, AppendProperties DEF a
<1>3. G \in SUBSET Seq(A)
  OBVIOUS
<1> HIDE DEF G
<1>4. t \in G
  BY <1>1, <1>2, <1>3, SequenceInduction
<1>5. QED
  BY <1>4 DEF G
LEMMA WithinAll ==
    ASSUME NEW A, NEW s \in Seq(A), NEW S, ToSet(s) \subseteq S
    PROVE  Within(s, S) = s
<1> DEFINE G == {r \in Seq(A) : ToSet(r) \subseteq S => Within(r, S) = r}
<1>1. <<>> \in G
  <2>1. Within(<<>>, S) = <<>> /\ <<>> \in Seq(A)
    BY WithinOfEmpty
  <2>2. QED
    BY <2>1
<1>2. ASSUME NEW r \in G, NEW x \in A PROVE Append(r, x) \in G
  <2>1. ToSet(Append(r, x)) = ToSet(r) \cup {x} /\ Append(r, x) \in Seq(A)
    BY ToSetOfAppend, AppendProperties
  <2>2. Within(Append(r, x), S) = IF x \in S THEN Append(Within(r, S), x) ELSE Within(r, S)
    BY WithinOfAppend
  <2>3. ToSet(Append(r, x)) \subseteq S => Within(Append(r, x), S) = Append(r, x)
    BY <2>1, <2>2
  <2>4. QED
    BY <2>1, <2>3
<1>3. G \in SUBSET Seq(A)
  OBVIOUS
<1> HIDE DEF G
<1>4. s \in G
  BY <1>1, <1>2, <1>3, SequenceInduction
<1>5. QED
  BY <1>4 DEF G

LEMMA WithinNone ==
    ASSUME NEW A, NEW s \in Seq(A), NEW S, ToSet(s) \cap S = {}
    PROVE  Within(s, S) = <<>>
<1> DEFINE G == {r \in Seq(A) : ToSet(r) \cap S = {} => Within(r, S) = <<>>}
<1>1. <<>> \in G
  <2>1. Within(<<>>, S) = <<>> /\ <<>> \in Seq(A)
    BY WithinOfEmpty
  <2>2. QED
    BY <2>1
<1>2. ASSUME NEW r \in G, NEW x \in A PROVE Append(r, x) \in G
  <2>1. ToSet(Append(r, x)) = ToSet(r) \cup {x} /\ Append(r, x) \in Seq(A)
    BY ToSetOfAppend, AppendProperties
  <2>2. Within(Append(r, x), S) = IF x \in S THEN Append(Within(r, S), x) ELSE Within(r, S)
    BY WithinOfAppend
  <2>3. ToSet(Append(r, x)) \cap S = {} => Within(Append(r, x), S) = <<>>
    BY <2>1, <2>2
  <2>4. QED
    BY <2>1, <2>3
<1>3. G \in SUBSET Seq(A)
  OBVIOUS
<1> HIDE DEF G
<1>4. s \in G
  BY <1>1, <1>2, <1>3, SequenceInduction
<1>5. QED
  BY <1>4 DEF G

-----------------------------------------------------------------------------
\* Counts.

LEMMA TimesType ==
    ASSUME NEW A, NEW s \in Seq(A), NEW x
    PROVE  Times(x, s) \in Nat
  BY WithinType, LenProperties DEF Times

LEMMA TimesInConcat ==
    ASSUME NEW A, NEW s \in Seq(A), NEW t \in Seq(A), NEW x
    PROVE  Times(x, s \o t) = Times(x, s) + Times(x, t)
<1>1. Within(s, {x}) \in Seq(A) /\ Within(t, {x}) \in Seq(A)
  BY WithinType
<1>2. Within(s \o t, {x}) = Within(s, {x}) \o Within(t, {x})
  BY WithinConcat
<1>3. QED
  BY <1>1, <1>2, ConcatProperties DEF Times

LEMMA TimesInAppend ==
    ASSUME NEW A, NEW s \in Seq(A), NEW y \in A, NEW x
    PROVE  Times(x, Append(s, y)) = Times(x, s) + IF x = y THEN 1 ELSE 0
<1>1. Within(s, {x}) \in Seq(A)
  BY WithinType
<1>2. Within(Append(s, y), {x}) = IF y \in {x} THEN Append(Within(s, {x}), y) ELSE Within(s, {x})
  BY WithinOfAppend
<1>3. Len(Append(Within(s, {x}), y)) = Len(Within(s, {x})) + 1 /\ Len(Within(s, {x})) \in Nat
  BY <1>1, AppendProperties, LenProperties
<1>4. QED
  BY <1>2, <1>3 DEF Times

LEMMA TimesOfAbsent ==
    ASSUME NEW A, NEW s \in Seq(A), NEW x, x \notin ToSet(s)
    PROVE  Times(x, s) = 0
<1>1. Within(s, {x}) = <<>>
  BY WithinNone
<1>2. QED
  BY <1>1 DEF Times

\* A filter counts what it keeps as often as before, and the rest not at all.
LEMMA TimesWithin ==
    ASSUME NEW A, NEW s \in Seq(A), NEW S, NEW x
    PROVE  Times(x, Within(s, S)) = IF x \in S THEN Times(x, s) ELSE 0
<1> DEFINE G == {r \in Seq(A) : Times(x, Within(r, S)) = IF x \in S THEN Times(x, r) ELSE 0}
<1>1. <<>> \in G
  <2>1. Within(<<>>, S) = <<>> /\ Within(<<>>, {x}) = <<>> /\ <<>> \in Seq(A)
    BY WithinOfEmpty
  <2>2. Times(x, <<>>) = 0
    BY <2>1 DEF Times
  <2>3. Times(x, Within(<<>>, S)) = IF x \in S THEN Times(x, <<>>) ELSE 0
    BY <2>1, <2>2
  <2>4. QED
    BY <2>1, <2>3
<1>2. ASSUME NEW r \in G, NEW y \in A PROVE Append(r, y) \in G
  <2> DEFINE w == Within(r, S)
  <2>1. w \in Seq(A) /\ r \in Seq(A) /\ Append(r, y) \in Seq(A)
    BY WithinType, AppendProperties
  <2>2. Within(Append(r, y), S) = IF y \in S THEN Append(w, y) ELSE w
    BY WithinOfAppend
  <2>3. Times(x, w) = IF x \in S THEN Times(x, r) ELSE 0
    OBVIOUS
  <2> HIDE DEF w, G
  <2>4. /\ Times(x, Append(w, y)) = Times(x, w) + IF x = y THEN 1 ELSE 0
        /\ Times(x, Append(r, y)) = Times(x, r) + IF x = y THEN 1 ELSE 0
        /\ Times(x, w) \in Nat /\ Times(x, r) \in Nat
    BY <2>1, TimesInAppend, TimesType
  <2>5. Times(x, Within(Append(r, y), S)) = IF x \in S THEN Times(x, Append(r, y)) ELSE 0
    BY <2>2, <2>3, <2>4
  <2>6. QED
    BY <2>1, <2>5 DEF G
<1>3. G \in SUBSET Seq(A)
  OBVIOUS
<1> HIDE DEF G
<1>4. s \in G
  BY <1>1, <1>2, <1>3, SequenceInduction
<1>5. QED
  BY <1>4 DEF G

-----------------------------------------------------------------------------
\* Order.

\* Every y in s comes after an x.
Precedes(x, y, s) == \A i \in DOMAIN s : s[i] = y => \E j \in 1..(i - 1) : s[j] = x

LEMMA PrecedesInAppend ==
    ASSUME NEW A, NEW s \in Seq(A), NEW z \in A, NEW x, NEW y
    PROVE  Precedes(x, y, Append(s, z)) <=> Precedes(x, y, s) /\ (z = y => x \in ToSet(s))
<1> DEFINE t == Append(s, z)
           n == Len(s)
<1>1. /\ DOMAIN t = 1..(n + 1) /\ t[n + 1] = z
      /\ DOMAIN s = 1..n /\ n \in Nat /\ \A i \in 1..n : t[i] = s[i]
  BY AppendProperties, LenProperties
<1> HIDE DEF t, n
<1>2. \A i \in 1..n : t[i] = s[i] /\ \A j \in 1..(i - 1) : t[j] = s[j]
  BY <1>1
<1>3. x \in ToSet(s) <=> \E j \in 1..((n + 1) - 1) : t[j] = x
  <2>1. (n + 1) - 1 = n
    BY <1>1
  <2>2. QED
    BY <1>1, <2>1 DEF ToSet
<1>4. (\A i \in 1..n : s[i] = y => \E j \in 1..(i - 1) : s[j] = x)
        <=> (\A i \in 1..n : t[i] = y => \E j \in 1..(i - 1) : t[j] = x)
  BY <1>2
<1>5. Precedes(x, y, t) <=>
          /\ \A i \in 1..n : t[i] = y => \E j \in 1..(i - 1) : t[j] = x
          /\ t[n + 1] = y => \E j \in 1..((n + 1) - 1) : t[j] = x
  <2>1. \A i : i \in 1..(n + 1) <=> i \in 1..n \/ i = n + 1
    BY <1>1
  <2>2. QED
    BY <1>1, <2>1 DEF Precedes
<1>6. Precedes(x, y, t) <=> Precedes(x, y, s) /\ (z = y => x \in ToSet(s))
  BY <1>1, <1>3, <1>4, <1>5 DEF Precedes
<1>7. QED
  BY <1>6 DEF t

LEMMA PrecedesInConcat ==
    ASSUME NEW A, NEW s \in Seq(A), NEW t \in Seq(A), NEW x, NEW y
    PROVE  Precedes(x, y, s \o t)
               <=> Precedes(x, y, s) /\ (x \in ToSet(s) \/ Precedes(x, y, t))
<1> DEFINE P(r) == Precedes(x, y, s \o r) <=>
                       Precedes(x, y, s) /\ (x \in ToSet(s) \/ Precedes(x, y, r))
           G == {r \in Seq(A) : P(r)}
<1>1. <<>> \in G
  <2>1. s \o <<>> = s /\ <<>> \in Seq(A)
    BY ConcatEmptySeq
  <2>2. Precedes(x, y, <<>>)
    BY DEF Precedes
  <2>3. P(<<>>)
    BY <2>1, <2>2
  <2>4. QED
    BY <2>1, <2>3
<1>2. ASSUME NEW r \in G, NEW z \in A PROVE Append(r, z) \in G
  <2> DEFINE p == s \o r
             q == Append(r, z)
  <2>1. r \in Seq(A) /\ q \in Seq(A) /\ P(r)
    BY AppendProperties
  <2>2. s \o q = Append(p, z) /\ p \in Seq(A)
    BY AppendToConcat
  <2>3. ToSet(p) = ToSet(s) \cup ToSet(r)
    BY ToSetOfConcat
  <2>4. Precedes(x, y, q) <=> Precedes(x, y, r) /\ (z = y => x \in ToSet(r))
    BY <2>1, PrecedesInAppend
  <2>5. Precedes(x, y, Append(p, z)) <=> Precedes(x, y, p) /\ (z = y => x \in ToSet(p))
    <3> HIDE DEF p
    <3>1. QED
      BY <2>2, PrecedesInAppend
  <2>6. Precedes(x, y, p) <=> Precedes(x, y, s) /\ (x \in ToSet(s) \/ Precedes(x, y, r))
    BY <2>1
  <2> HIDE DEF p, q, G
  <2>7. P(q)
    BY <2>2, <2>3, <2>4, <2>5, <2>6
  <2>8. QED
    BY <2>1, <2>7 DEF G, q
<1>3. G \in SUBSET Seq(A)
  OBVIOUS
<1> HIDE DEF G
<1>4. t \in G
  BY <1>1, <1>2, <1>3, SequenceInduction
<1>5. QED
  BY <1>4 DEF G

\* A filter keeps the order.
LEMMA WithinKeepsOrder ==
    ASSUME NEW A, NEW s \in Seq(A), NEW S, NEW x \in S, NEW y, Precedes(x, y, s)
    PROVE  Precedes(x, y, Within(s, S))
<1> DEFINE G == {r \in Seq(A) : Precedes(x, y, r) => Precedes(x, y, Within(r, S))}
<1>1. <<>> \in G
  <2>1. Within(<<>>, S) = <<>> /\ <<>> \in Seq(A)
    BY WithinOfEmpty
  <2>2. QED
    BY <2>1
<1>2. ASSUME NEW r \in G, NEW z \in A PROVE Append(r, z) \in G
  <2> DEFINE w == Within(r, S)
  <2>1. w \in Seq(A) /\ r \in Seq(A) /\ Append(r, z) \in Seq(A)
    BY WithinType, AppendProperties
  <2>2. Within(Append(r, z), S) = IF z \in S THEN Append(w, z) ELSE w
    BY WithinOfAppend
  <2>3. ToSet(w) = ToSet(r) \cap S
    BY WithinElements
  <2>4. Precedes(x, y, r) => Precedes(x, y, w)
    OBVIOUS
  <2> HIDE DEF w, G
  <2>5. Precedes(x, y, Append(r, z)) <=> Precedes(x, y, r) /\ (z = y => x \in ToSet(r))
    BY <2>1, PrecedesInAppend
  <2>6. Precedes(x, y, Append(w, z)) <=> Precedes(x, y, w) /\ (z = y => x \in ToSet(w))
    BY <2>1, PrecedesInAppend
  <2>7. Precedes(x, y, Append(r, z)) => Precedes(x, y, Within(Append(r, z), S))
    BY <2>2, <2>3, <2>4, <2>5, <2>6
  <2>8. QED
    BY <2>1, <2>7 DEF G
<1>3. G \in SUBSET Seq(A)
  OBVIOUS
<1> HIDE DEF G
<1>4. s \in G
  BY <1>1, <1>2, <1>3, SequenceInduction
<1>5. QED
  BY <1>4 DEF G

-----------------------------------------------------------------------------
\* The greatest and the least of a set of numbers.

LEMMA MaxOfIndices ==
    ASSUME NEW n \in Nat, NEW S \in SUBSET (1..n), S # {}
    PROVE  Max(S) \in S /\ \A y \in S : Max(S) >= y
<1> DEFINE T == {k \in Nat : n - k \in S}
<1>1. T \in SUBSET Nat /\ T # {}
  <2>1. PICK y \in S : TRUE
    OBVIOUS
  <2>2. n - y \in T
    OBVIOUS
  <2>3. QED
    BY <2>2
<1>2. PICK t \in T : \A u \in T : t <= u
  <2> HIDE DEF T
  <2>1. QED
    BY <1>1, LeastNatural
<1>3. ASSUME NEW y \in S PROVE n - t >= y
  <2>1. n - y \in T
    OBVIOUS
  <2>2. t <= n - y /\ t \in Nat
    BY <1>2, <2>1
  <2>3. QED
    BY <2>2
<1>4. QED
  BY <1>2, <1>3 DEF Max

LEMMA MinOfNaturals ==
    ASSUME NEW S \in SUBSET Nat, S # {}
    PROVE  Min(S) \in S /\ \A y \in S : Min(S) <= y
  BY LeastNatural DEF Min

-----------------------------------------------------------------------------
\* The head of a sequence and the rest.

LEMMA HeadAndRest ==
    ASSUME NEW A, NEW s \in Seq(A), s # <<>>
    PROVE  /\ Head(s) \in A /\ Tail(s) \in Seq(A)
           /\ Len(Tail(s)) = Len(s) - 1 /\ Len(s) \in Nat \ {0}
           /\ s = <<Head(s)>> \o Tail(s)
<1>1. Len(s) \in Nat \ {0}
  BY EmptySeq
<1>2. SubSeq(s, 1, Len(s)) = <<s[1]>> \o SubSeq(s, 2, Len(s))
  BY <1>1, SubSeqRecursiveFirst
<1>3. SubSeq(s, 1, Len(s)) = s /\ SubSeq(s, 2, Len(s)) = Tail(s)
  BY SubSeqFull, TailIsSubSeq
<1>4. QED
  BY <1>1, <1>2, <1>3, HeadTailProperties

LEMMA ToSetType ==
    ASSUME NEW A, NEW s \in Seq(A)
    PROVE  ToSet(s) \subseteq A
  BY LenProperties DEF ToSet

LEMMA ToSetOfOne ==
    ASSUME NEW x
    PROVE  ToSet(<<x>>) = {x} /\ <<x>> \in Seq({x})
  BY DEF ToSet

-----------------------------------------------------------------------------
\* Every x is followed by a y, at once or later.
Followed(x, y, s) == \A i \in DOMAIN s : s[i] = x => \E j \in (i + 1)..Len(s) : s[j] = y

LEMMA FollowedInConcat ==
    ASSUME NEW A, NEW s \in Seq(A), NEW t \in Seq(A), NEW x, NEW y,
           Followed(x, y, t), Followed(x, y, s) \/ y \in ToSet(t)
    PROVE  Followed(x, y, s \o t)
<1> DEFINE r == s \o t
           m == Len(s)
           n == Len(t)
<1>1. /\ m \in Nat /\ n \in Nat /\ Len(r) = m + n
      /\ DOMAIN s = 1..m /\ DOMAIN t = 1..n /\ DOMAIN r = 1..(m + n)
      /\ \A i \in 1..(m + n) : r[i] = IF i <= m THEN s[i] ELSE t[i - m]
  BY ConcatProperties, LenProperties
<1> HIDE DEF r
<1>2. \A j \in 1..n : m + j \in 1..(m + n) /\ r[m + j] = t[j]
  BY <1>1
<1> SUFFICES ASSUME NEW i \in 1..(m + n), r[i] = x
             PROVE  \E j \in (i + 1)..(m + n) : r[j] = y
  BY <1>1 DEF Followed, r
<1>3. CASE i > m
  <2>1. i - m \in 1..n /\ t[i - m] = x
    BY <1>1, <1>3
  <2>2. PICK j \in (i - m + 1)..n : t[j] = y
    BY <1>1, <2>1 DEF Followed
  <2>3. m + j \in (i + 1)..(m + n) /\ j \in 1..n
    BY <1>1, <2>1, <2>2
  <2>4. QED
    BY <1>2, <2>2, <2>3
<1>4. CASE i <= m /\ Followed(x, y, s)
  <2>1. i \in 1..m /\ s[i] = x
    BY <1>1, <1>4
  <2>2. PICK j \in (i + 1)..m : s[j] = y
    BY <1>1, <1>4, <2>1 DEF Followed
  <2>3. j \in (i + 1)..(m + n) /\ j \in 1..(m + n) /\ j <= m
    BY <1>1, <2>2
  <2>4. QED
    BY <1>1, <2>2, <2>3
<1>5. CASE i <= m /\ y \in ToSet(t)
  <2>1. PICK j \in 1..n : t[j] = y
    BY <1>1, <1>5 DEF ToSet
  <2>2. m + j \in (i + 1)..(m + n)
    BY <1>1, <1>5, <2>1
  <2>3. QED
    BY <1>2, <2>1, <2>2
<1>6. QED
  BY <1>1, <1>3, <1>4, <1>5

LEMMA FollowedInRest ==
    ASSUME NEW A, NEW s \in Seq(A), NEW z \in A, NEW x, NEW y, Followed(x, y, <<z>> \o s)
    PROVE  Followed(x, y, s) /\ (z = x => y \in ToSet(s))
<1> DEFINE r == <<z>> \o s
           n == Len(s)
<1>1. /\ n \in Nat /\ DOMAIN s = 1..n /\ DOMAIN r = 1..(n + 1) /\ Len(r) = n + 1
      /\ r[1] = z /\ \A i \in 1..n : r[i + 1] = s[i]
  <2>1. <<z>> \in Seq(A) /\ Len(<<z>>) = 1 /\ <<z>>[1] = z
    OBVIOUS
  <2>2. QED
    BY <2>1, ConcatProperties, LenProperties
<1> HIDE DEF r
<1>2. \A i \in 1..(n + 1) : r[i] = x => \E j \in (i + 1)..(n + 1) : r[j] = y
  BY <1>1 DEF Followed, r
<1>3. ASSUME NEW i \in 0..n, r[i + 1] = x PROVE \E k \in (i + 1)..n : s[k] = y
  <2>1. i + 1 \in 1..(n + 1)
    BY <1>1
  <2>2. PICK j \in (i + 2)..(n + 1) : r[j] = y
    BY <1>1, <1>2, <1>3, <2>1
  <2>3. j - 1 \in (i + 1)..n /\ j - 1 \in 1..n /\ (j - 1) + 1 = j
    BY <1>1, <2>2
  <2>4. s[j - 1] = y
    BY <1>1, <2>2, <2>3
  <2>5. QED
    BY <2>3, <2>4
<1>4. Followed(x, y, s)
  BY <1>1, <1>3 DEF Followed
<1>5. ASSUME z = x PROVE y \in ToSet(s)
  <2>1. r[0 + 1] = x /\ 0 \in 0..n
    BY <1>1, <1>5
  <2>2. PICK k \in (0 + 1)..n : s[k] = y
    BY <1>3, <2>1
  <2>3. k \in DOMAIN s
    BY <1>1, <2>2
  <2>4. QED
    BY <2>2, <2>3 DEF ToSet
<1>6. QED
  BY <1>4, <1>5

LEMMA OrderOfAbsent ==
    ASSUME NEW s, NEW x, NEW y
    PROVE  /\ y \notin ToSet(s) => Precedes(x, y, s)
           /\ x \notin ToSet(s) => Followed(x, y, s)
  BY DEF Precedes, Followed, ToSet

LEMMA OrderNeeds ==
    ASSUME NEW A, NEW s \in Seq(A), NEW x, NEW y
    PROVE  /\ Precedes(x, y, s) /\ y \in ToSet(s) => x \in ToSet(s)
           /\ Followed(x, y, s) /\ x \in ToSet(s) => y \in ToSet(s)
<1>1. DOMAIN s = 1..Len(s) /\ Len(s) \in Nat
  BY LenProperties
<1>2. ASSUME Precedes(x, y, s), y \in ToSet(s) PROVE x \in ToSet(s)
  <2>1. PICK i \in DOMAIN s : s[i] = y
    BY <1>2 DEF ToSet
  <2>2. PICK j \in 1..(i - 1) : s[j] = x
    BY <1>2, <2>1 DEF Precedes
  <2>3. j \in DOMAIN s
    BY <1>1, <2>1, <2>2
  <2>4. QED
    BY <2>2, <2>3 DEF ToSet
<1>3. ASSUME Followed(x, y, s), x \in ToSet(s) PROVE y \in ToSet(s)
  <2>1. PICK i \in DOMAIN s : s[i] = x
    BY <1>3 DEF ToSet
  <2>2. PICK j \in (i + 1)..Len(s) : s[j] = y
    BY <1>3, <2>1 DEF Followed
  <2>3. j \in DOMAIN s
    BY <1>1, <2>1, <2>2
  <2>4. QED
    BY <2>2, <2>3 DEF ToSet
<1>4. QED
  BY <1>2, <1>3

\* Without repetition nothing is there more than once.
NoRepeats(s) == \A i, j \in DOMAIN s : s[i] = s[j] => i = j

LEMMA TimesOfDistinct ==
    ASSUME NEW A, NEW s \in Seq(A), NoRepeats(s), NEW x
    PROVE  Times(x, s) <= 1
<1> DEFINE G == {r \in Seq(A) : NoRepeats(r) => Times(x, r) <= 1}
<1>1. <<>> \in G
  <2>1. Times(x, <<>>) = 0
    BY WithinOfEmpty DEF Times
  <2>2. QED
    BY <2>1
<1>2. ASSUME NEW r \in G, NEW z \in A PROVE Append(r, z) \in G
  <2> DEFINE t == Append(r, z)
             n == Len(r)
  <2>1. /\ t \in Seq(A) /\ DOMAIN t = 1..(n + 1) /\ n \in Nat /\ DOMAIN r = 1..n
        /\ t[n + 1] = z /\ \A i \in 1..n : t[i] = r[i]
    BY AppendProperties, LenProperties
  <2>2. Times(x, t) = Times(x, r) + IF x = z THEN 1 ELSE 0
    BY TimesInAppend
  <2> HIDE DEF t
  <2>3. SUFFICES ASSUME NoRepeats(t) PROVE Times(x, t) <= 1
    BY <2>1 DEF t
  <2>4. NoRepeats(r)
    BY <2>1, <2>3 DEF NoRepeats
  <2>5. Times(x, r) <= 1 /\ Times(x, r) \in Nat
    BY <2>4, TimesType
  <2>6. CASE x = z
    <3>1. x \notin ToSet(r)
      BY <2>1, <2>3, <2>6 DEF NoRepeats, ToSet
    <3>2. Times(x, r) = 0
      BY <3>1, TimesOfAbsent
    <3>3. QED
      BY <2>2, <2>6, <3>2
  <2>7. CASE x # z
    BY <2>2, <2>5, <2>7
  <2>8. QED
    BY <2>6, <2>7
<1>3. \A r \in Seq(A) : r \in G
  <2> HIDE DEF G
  <2>1. G \in SUBSET Seq(A)
    BY DEF G
  <2>2. QED
    BY <1>1, <1>2, <2>1, SequenceInduction
<1>4. QED
  BY <1>3

-----------------------------------------------------------------------------
\* Cutting a sequence.

LEMMA SubSeqType ==
    ASSUME NEW A, NEW s \in Seq(A), NEW m \in 1..(Len(s) + 1), NEW n \in 0..Len(s)
    PROVE  /\ SubSeq(s, m, n) \in Seq(A)
           /\ Len(SubSeq(s, m, n)) = IF m <= n THEN n - m + 1 ELSE 0
           /\ \A i \in 1..(n - m + 1) : SubSeq(s, m, n)[i] = s[m + i - 1]
<1>1. Len(s) \in Nat
  BY LenProperties
<1>2. m \in Int /\ n \in Int /\ \A i \in m..n : i \in 1..Len(s)
  BY <1>1
<1>3. \A i \in m..n : s[i] \in A
  BY <1>2, ElementOfSeq
<1>4. QED
  BY <1>2, <1>3, SubSeqProperties

LEMMA CutAfter ==
    ASSUME NEW A, NEW s \in Seq(A), NEW k \in 0..Len(s)
    PROVE  s = SubSeq(s, 1, k) \o SubSeq(s, k + 1, Len(s))
<1>1. Len(s) \in Nat
  BY LenProperties
<1>2. 1 \in 1..(Len(s) + 1) /\ k \in (1 - 1)..Len(s) /\ Len(s) \in k..Len(s)
  BY <1>1
<1>3. SubSeq(s, 1, k) \o SubSeq(s, k + 1, Len(s)) = SubSeq(s, 1, Len(s))
  BY <1>2, ConcatAdjacentSubSeq
<1>4. QED
  BY <1>3, SubSeqFull

\* What is before and what is after an element.
Parts(s, i, l, r) ==
    /\ s = Append(l, s[i]) \o r
    /\ RemoveAt(s, i) = l \o r

LEMMA CutOut ==
    ASSUME NEW A, NEW s \in Seq(A), NEW i \in DOMAIN s
    PROVE  \E l \in Seq(A), r \in Seq(A) : Parts(s, i, l, r)
<1> DEFINE l == SubSeq(s, 1, i - 1)
           r == SubSeq(s, i + 1, Len(s))
<1>1. Len(s) \in Nat /\ i \in 1..Len(s)
  BY LenProperties
<1>2. l \in Seq(A) /\ Len(l) = i - 1
  <2>1. 1 \in 1..(Len(s) + 1) /\ i - 1 \in 0..Len(s)
    BY <1>1
  <2>2. QED
    BY <1>1, <2>1, SubSeqType
<1>3. r \in Seq(A)
  <2>1. i + 1 \in 1..(Len(s) + 1) /\ Len(s) \in 0..Len(s)
    BY <1>1
  <2>2. QED
    BY <2>1, SubSeqType
<1>4. SubSeq(s, 1, i) = Append(l, s[i])
  <2>1. 1 \in 1..Len(s) /\ i \in 1..Len(s)
    BY <1>1
  <2>2. SubSeq(s, 1, i) = l \o <<s[i]>>
    BY <2>1, SubSeqRecursiveSecond
  <2>3. s[i] \in A
    BY <1>1, ElementOfSeq
  <2>4. QED
    BY <1>2, <2>2, <2>3, AppendIsConcat
<1>5. s = SubSeq(s, 1, i) \o r
  <2>1. i \in 0..Len(s)
    BY <1>1
  <2>2. QED
    BY <2>1, CutAfter
<1>6. RemoveAt(s, i) = l \o r
  BY DEF RemoveAt
<1>7. QED
  BY <1>2, <1>3, <1>4, <1>5, <1>6 DEF Parts

\* The elements of s, in an order that p gives.
Reordered(s, t) ==
    /\ Len(t) = Len(s)
    /\ \E p \in [1..Len(s) -> 1..Len(s)] :
           /\ \A j, k \in 1..Len(s) : p[j] = p[k] => j = k
           /\ \A j \in 1..Len(s) : t[j] = s[p[j]]

\* An element that is moved to the end changes the order and nothing else.
LEMMA MovedToEnd ==
    ASSUME NEW A, NEW s \in Seq(A), NEW i \in DOMAIN s
    PROVE  /\ Append(RemoveAt(s, i), s[i]) \in Seq(A)
           /\ Reordered(s, Append(RemoveAt(s, i), s[i]))
<1>0. PICK l \in Seq(A), r \in Seq(A) : Parts(s, i, l, r)
  BY CutOut
<1>1. s = Append(l, s[i]) \o r /\ RemoveAt(s, i) = l \o r
  BY <1>0 DEF Parts
<1> DEFINE x == s[i]
           h == Append(l, x)
           q == l \o r
           t == Append(q, x)
           a == Len(l)
           b == Len(r)
           n == Len(s)
           p == [j \in 1..n |-> IF j <= a THEN j ELSE IF j <= a + b THEN j + 1 ELSE a + 1]
<1>2. x \in A /\ a \in Nat /\ b \in Nat
  BY ElementOfSeq, LenProperties
<1>3. /\ h \in Seq(A) /\ Len(h) = a + 1 /\ h[a + 1] = x
      /\ \A j \in 1..a : h[j] = l[j]
  BY <1>2, AppendProperties
<1>4. /\ n = a + 1 + b
      /\ \A j \in 1..n : s[j] = IF j <= a + 1 THEN h[j] ELSE r[j - (a + 1)]
  <2>1. s = h \o r
    BY <1>1
  <2> HIDE DEF h, x, a, b
  <2>2. /\ Len(h \o r) = Len(h) + Len(r)
        /\ \A j \in 1..(Len(h) + Len(r)) :
               (h \o r)[j] = IF j <= Len(h) THEN h[j] ELSE r[j - Len(h)]
    BY <1>3, ConcatProperties
  <2>3. Len(h) = a + 1 /\ Len(r) = b
    BY <1>3 DEF b
  <2>4. QED
    BY <2>1, <2>2, <2>3
<1>5. /\ q \in Seq(A) /\ Len(q) = a + b
      /\ \A j \in 1..(a + b) : q[j] = IF j <= a THEN l[j] ELSE r[j - a]
  BY ConcatProperties
<1>6. /\ t \in Seq(A) /\ Len(t) = a + b + 1 /\ t[a + b + 1] = x
      /\ \A j \in 1..(a + b) : t[j] = q[j]
  BY <1>2, <1>5, AppendProperties
<1>7. t = Append(RemoveAt(s, i), s[i])
  BY <1>1
<1> HIDE DEF x, h, q, t, a, b, n
<1>8. p \in [1..n -> 1..n] /\ \A j, k \in 1..n : p[j] = p[k] => j = k
  BY <1>2, <1>4
<1>9. ASSUME NEW j \in 1..n PROVE t[j] = s[p[j]]
  <2>1. CASE j <= a
    <3>1. /\ p[j] = j /\ j \in 1..a /\ j \in 1..(a + b) /\ j <= a + 1
      BY <1>2, <1>4, <2>1
    <3>2. t[j] = l[j] /\ s[j] = l[j]
      BY <1>3, <1>4, <1>5, <1>6, <2>1, <3>1
    <3>3. QED
      BY <3>1, <3>2
  <2>2. CASE j > a /\ j <= a + b
    <3>1. /\ p[j] = j + 1 /\ j \in 1..(a + b) /\ j + 1 \in 1..n /\ ~(j + 1 <= a + 1)
          /\ ~(j <= a) /\ (j + 1) - (a + 1) = j - a
      BY <1>2, <1>4, <2>2
    <3>2. t[j] = r[j - a] /\ s[j + 1] = r[j - a]
      BY <1>4, <1>5, <1>6, <3>1
    <3>3. QED
      BY <3>1, <3>2
  <2>3. CASE j > a + b
    <3>1. p[j] = a + 1 /\ j = a + b + 1 /\ a + 1 \in 1..n /\ a + 1 <= a + 1
      BY <1>2, <1>4, <2>3
    <3>2. t[j] = x /\ s[a + 1] = x
      BY <1>3, <1>4, <1>6, <3>1
    <3>3. QED
      BY <3>1, <3>2
  <2>4. QED
    BY <1>2, <1>4, <2>1, <2>2, <2>3
<1>10. Len(t) = Len(s)
  BY <1>2, <1>4, <1>6 DEF n
<1>11. QED
  BY <1>6, <1>7, <1>8, <1>9, <1>10 DEF n, x, Reordered
=============================================================================
