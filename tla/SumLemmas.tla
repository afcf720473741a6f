------------------------------ MODULE SumLemmas ------------------------------
(***************************************************************************)
(* The sum of a function with a finite domain, FoldFunction(+, 0, f), is   *)
(* an integer, grows by the term that is added, and is the sum of its      *)
(* parts.  FoldFunction is a recursive function on the subsets of the      *)
(* domain; that such a function exists is shown on the subsets of at most  *)
(* n elements, and what it returns by looking at a minimal set where the   *)
(* claim would fail (WFMin), since no theorem of induction can be cited.   *)
(***************************************************************************)
EXTENDS Integers, FiniteSets, Functions, FiniteSetTheorems, WellFoundedInduction, TLAPS

\* The sum of the values of a function.
SumOf(v) == FoldFunction(+, 0, v)

\* The element a fold takes next, and one step of the fold.
Pick(s) == CHOOSE x \in s : TRUE
Unfold(v, f, s) == IF s = {} THEN 0 ELSE v[Pick(s)] + f[s \ {Pick(s)}]

\* The sum is the value at the whole domain of a function that satisfies the
\* recursion: the definition of FoldFunction, unfolded.
LEMMA TotalDef ==
    ASSUME NEW v
    PROVE  FoldFunction(+, 0, v) =
             (CHOOSE f : f = [s \in SUBSET DOMAIN v |-> Unfold(v, f, s)])[DOMAIN v]
  BY DEF FoldFunction, FoldFunctionOnSet, MapThenFoldSet, Unfold, Pick

\* The solutions of the recursion on the subsets of at most n elements.
Below(S, n) == {s \in SUBSET S : Cardinality(s) <= n}
Partial(v, S, n) ==
    {f \in [Below(S, n) -> Int] : \A s \in Below(S, n) : f[s] = Unfold(v, f, s)}

\* There is a solution on the empty set alone.
LEMMA PartialBase ==
    ASSUME NEW S, IsFiniteSet(S), NEW v \in [S -> Int]
    PROVE  Partial(v, S, 0) # {}
  <1> DEFINE f == [s \in Below(S, 0) |-> 0]
  <1>1. \A s \in Below(S, 0) : s = {}
    <2> SUFFICES ASSUME NEW s \in Below(S, 0) PROVE s = {}
        OBVIOUS
    <2>1. IsFiniteSet(s) BY FS_Subset DEF Below
    <2>2. Cardinality(s) \in Nat BY <2>1, FS_CardinalityType
    <2>3. Cardinality(s) = 0 BY <2>2 DEF Below
    <2> QED BY <2>1, <2>3, FS_EmptySet
  <1>2. f \in Partial(v, S, 0) BY <1>1 DEF Partial, Unfold
  <1> QED BY <1>2

\* A solution extends to the sets with one element more.
LEMMA PartialStep ==
    ASSUME NEW S, IsFiniteSet(S), NEW v \in [S -> Int], NEW n \in Nat,
           Partial(v, S, n) # {}
    PROVE  Partial(v, S, n + 1) # {}
  <1> PICK f \in Partial(v, S, n) : TRUE OBVIOUS
  <1> DEFINE g == [s \in Below(S, n + 1) |->
                     IF s \in Below(S, n) THEN f[s] ELSE Unfold(v, f, s)]
  <1>0. f \in [Below(S, n) -> Int] /\ \A s \in Below(S, n) : f[s] = Unfold(v, f, s)
    BY DEF Partial
  <1>1. ASSUME NEW s \in Below(S, n + 1), s # {}
        PROVE  /\ Pick(s) \in S
               /\ s \ {Pick(s)} \in Below(S, n)
    <2>1. Pick(s) \in s BY <1>1 DEF Pick
    <2>2. IsFiniteSet(s) BY FS_Subset DEF Below
    <2>3. Cardinality(s) \in Nat BY <2>2, FS_CardinalityType
    <2>4. Cardinality(s \ {Pick(s)}) = Cardinality(s) - 1 BY <2>1, <2>2, FS_RemoveElement
    <2> QED BY <2>1, <2>3, <2>4 DEF Below
  <1>2. \A s \in Below(S, n + 1) : Unfold(v, f, s) \in Int
    BY <1>0, <1>1 DEF Unfold
  <1>3. g \in [Below(S, n + 1) -> Int] BY <1>0, <1>2
  <1>4. \A s \in Below(S, n) : s \in Below(S, n + 1)
    <2> SUFFICES ASSUME NEW s \in Below(S, n) PROVE s \in Below(S, n + 1)
        OBVIOUS
    <2>1. IsFiniteSet(s) BY FS_Subset DEF Below
    <2>2. Cardinality(s) \in Nat BY <2>1, FS_CardinalityType
    <2> QED BY <2>2 DEF Below
  <1>5. ASSUME NEW s \in Below(S, n + 1) PROVE g[s] = Unfold(v, g, s)
    <2>1. Unfold(v, g, s) = Unfold(v, f, s) BY <1>1, <1>4 DEF Unfold
    <2> QED BY <2>1, <1>0
  <1> QED BY <1>3, <1>5 DEF Partial

\* Hence there are solutions for every size: otherwise take the smallest size
\* without one, which is neither 0 nor the successor of a size that has one.
LEMMA PartialExists ==
    ASSUME NEW S, IsFiniteSet(S), NEW v \in [S -> Int]
    PROVE  \A n \in Nat : Partial(v, S, n) # {}
  <1> DEFINE Bad == {n \in Nat : Partial(v, S, n) = {}}
  <1> SUFFICES ASSUME Bad # {} PROVE FALSE OBVIOUS
  <1> DEFINE Segments == {1 .. n : n \in Bad}
  <1>1. PICK I \in Segments : \A J \in Segments : ~ (<<J, I>> \in StrictSubsetOrdering(Nat))
    <2>1. IsWellFoundedOn(StrictSubsetOrdering(Nat), FiniteSubsetsOf(Nat))
      BY FS_StrictSubsetOrderingWellFounded
    <2>2. Segments \subseteq FiniteSubsetsOf(Nat)
      BY FS_Interval DEF FiniteSubsetsOf
    <2>3. Segments # {} OBVIOUS
    <2> HIDE DEF Segments
    <2> QED BY <2>1, <2>2, <2>3, WFMin
  <1>2. PICK n \in Bad : I = 1 .. n OBVIOUS
  <1>3. n # 0 BY PartialBase
  <1>4. n - 1 \in Nat /\ n - 1 \notin Bad
    <2>1. n - 1 \in Nat /\ 1 .. (n - 1) # 1 .. n BY <1>3
    <2>2. <<1 .. (n - 1), 1 .. n>> \in StrictSubsetOrdering(Nat)
      BY <2>1 DEF StrictSubsetOrdering
    <2> QED BY <1>1, <1>2, <2>1, <2>2
  <1>5. Partial(v, S, (n - 1) + 1) # {} BY <1>4, PartialStep
  <1> QED BY <1>5

\* A solution of the recursion on all subsets of the domain of v.
Sums(v, S, f) == f \in [SUBSET S -> Int] /\ \A s \in SUBSET S : f[s] = Unfold(v, f, s)

\* The fold of v is the value at S of one of them.
LEMMA TotalSolves ==
    ASSUME NEW S, IsFiniteSet(S), NEW v \in [S -> Int]
    PROVE  \E f : Sums(v, S, f) /\ SumOf(v) = f[S]
  <1> DEFINE Solves(f) == f = [s \in SUBSET S |-> Unfold(v, f, s)]
             tot == CHOOSE f : Solves(f)
  <1>1. Cardinality(S) \in Nat BY FS_CardinalityType
  <1>2. Below(S, Cardinality(S)) = SUBSET S BY FS_Subset DEF Below
  <1>3. PICK f \in Partial(v, S, Cardinality(S)) : TRUE BY <1>1, PartialExists
  <1>4. Solves(f) BY <1>2, <1>3 DEF Partial
  <1>5. Solves(tot) BY <1>4
  <1> HIDE DEF tot
  <1>6. \A s \in SUBSET S : tot[s] = Unfold(v, tot, s) BY <1>5
  <1> DEFINE Bad == {s \in FiniteSubsetsOf(S) : tot[s] \notin Int}
  <1>7. Bad = {}
    <2> SUFFICES ASSUME Bad # {} PROVE FALSE OBVIOUS
    <2>1. PICK s \in Bad : \A t \in Bad : ~ (<<t, s>> \in StrictSubsetOrdering(S))
      <3>1. IsWellFoundedOn(StrictSubsetOrdering(S), FiniteSubsetsOf(S))
        BY FS_StrictSubsetOrderingWellFounded
      <3>2. Bad \subseteq FiniteSubsetsOf(S) OBVIOUS
      <3> HIDE DEF Bad
      <3> QED BY <3>1, <3>2, WFMin
    <2>2. s \in SUBSET S /\ IsFiniteSet(s) /\ tot[s] \notin Int BY DEF FiniteSubsetsOf
    <2>3. s # {} BY <1>6, <2>2 DEF Unfold
    <2>4. Pick(s) \in s BY <2>3 DEF Pick
    <2> DEFINE t == s \ {Pick(s)}
    <2>5. t \in SUBSET S /\ IsFiniteSet(t) BY <2>2, FS_RemoveElement
    <2>6. <<t, s>> \in StrictSubsetOrdering(S) BY <2>2, <2>4, <2>5 DEF StrictSubsetOrdering
    <2>7. tot[t] \in Int BY <2>1, <2>5, <2>6 DEF FiniteSubsetsOf
    <2>8. v[Pick(s)] \in Int BY <2>2, <2>4
    <2>9. tot[s] = v[Pick(s)] + tot[t] BY <1>6, <2>2, <2>3 DEF Unfold
    <2> QED BY <2>2, <2>7, <2>8, <2>9
  <1>8. SUBSET S \subseteq FiniteSubsetsOf(S) BY FS_Subset DEF FiniteSubsetsOf
  <1>9. tot \in [SUBSET S -> Int] BY <1>5, <1>7, <1>8
  <1>10. SumOf(v) = tot[S] BY TotalDef DEF tot, SumOf
  <1> QED BY <1>6, <1>9, <1>10 DEF Sums

\* The counts handleUnlockEvent adds up over the rows it matched are integers,
\* whatever the order of the rows.
THEOREM TotalType ==
    ASSUME NEW S, IsFiniteSet(S), NEW v \in [S -> Int]
    PROVE  SumOf(v) \in Int
  <1>1. PICK f : Sums(v, S, f) /\ SumOf(v) = f[S] BY TotalSolves
  <1>2. Sums(v, S, f) BY <1>1
  <1>3. f[S] \in Int BY <1>2 DEF Sums
  <1> QED BY <1>1, <1>3

\* A claim about the finite subsets of S that fails for some of them fails for one
\* none of whose proper subsets it fails for.
LEMMA LeastSubset ==
    ASSUME NEW S, IsFiniteSet(S), NEW Bad \in SUBSET (SUBSET S), Bad # {}
    PROVE  \E s \in Bad : \A t \in SUBSET s : t # s => t \notin Bad
  <1>1. IsWellFoundedOn(StrictSubsetOrdering(S), FiniteSubsetsOf(S))
    BY FS_StrictSubsetOrderingWellFounded
  <1>2. Bad \subseteq FiniteSubsetsOf(S) BY FS_Subset DEF FiniteSubsetsOf
  <1>3. PICK s \in Bad : \A t \in Bad : ~ (<<t, s>> \in StrictSubsetOrdering(S))
    BY <1>1, <1>2, WFMin
  <1>4. ASSUME NEW t \in SUBSET s, t # s PROVE t \notin Bad
    BY <1>3, <1>4 DEF StrictSubsetOrdering
  <1> QED BY <1>4

\* The recursion may take any element first.
LEMMA SumsAnyFirst ==
    ASSUME NEW S, IsFiniteSet(S), NEW v \in [S -> Int], NEW f, Sums(v, S, f),
           NEW s \in SUBSET S, NEW x \in s
    PROVE  f[s] = v[x] + f[s \ {x}]
  <1> DEFINE Bad == {r \in SUBSET S : \E y \in r : f[r] # v[y] + f[r \ {y}]}
  <1>1. Bad = {}
    <2> SUFFICES ASSUME Bad # {} PROVE FALSE OBVIOUS
    <2>1. PICK r \in Bad : \A t \in SUBSET r : t # r => t \notin Bad
      <3>1. Bad \in SUBSET (SUBSET S) OBVIOUS
      <3> HIDE DEF Bad
      <3> QED BY <3>1, LeastSubset
    <2>2. PICK y \in r : f[r] # v[y] + f[r \ {y}] OBVIOUS
    <2> DEFINE p == Pick(r)
    <2>3. p \in r BY DEF Pick
    <2>4. f[r] = v[p] + f[r \ {p}] BY <2>3 DEF Sums, Unfold
    <2>5. p # y BY <2>2, <2>4
    <2> HIDE DEF p
    <2>6. f[r \ {p}] = v[y] + f[(r \ {p}) \ {y}]
      <3>1. r \ {p} \in SUBSET r /\ r \ {p} # r /\ r \ {p} \in SUBSET S /\ y \in r \ {p} BY <2>3, <2>5
      <3>2. r \ {p} \notin Bad BY <2>1, <3>1
      <3> QED BY <3>1, <3>2
    <2>7. f[r \ {y}] = v[p] + f[(r \ {y}) \ {p}]
      <3>1. r \ {y} \in SUBSET r /\ r \ {y} # r /\ r \ {y} \in SUBSET S /\ p \in r \ {y} BY <2>3, <2>5
      <3>2. r \ {y} \notin Bad BY <2>1, <3>1
      <3> QED BY <3>1, <3>2
    <2>8. (r \ {p}) \ {y} = (r \ {y}) \ {p} OBVIOUS
    <2> DEFINE z == f[(r \ {y}) \ {p}]
    <2>9. v[p] \in Int /\ v[y] \in Int /\ z \in Int BY <2>3 DEF Sums
    <2>10. f[r] = v[p] + (v[y] + z) /\ f[r \ {y}] = v[p] + z BY <2>4, <2>6, <2>7, <2>8
    <2>11. v[p] + (v[y] + z) = v[y] + (v[p] + z)
      <3> HIDE DEF z, Bad
      <3> QED BY <2>9
    <2> HIDE DEF Bad
    <2> QED BY <2>2, <2>10, <2>11
  <1> QED BY <1>1

\* What it returns for a subset is the sum over that subset.
LEMMA SumsLocal ==
    ASSUME NEW S, IsFiniteSet(S), NEW v \in [S -> Int], NEW f, Sums(v, S, f),
           NEW T \in SUBSET S
    PROVE  SumOf([x \in T |-> v[x]]) = f[T]
  <1> DEFINE w == [x \in T |-> v[x]]
  <1>1. IsFiniteSet(T) /\ w \in [T -> Int] BY FS_Subset
  <1> HIDE DEF w
  <1>2. PICK g : Sums(w, T, g) /\ SumOf(w) = g[T] BY <1>1, TotalSolves
  <1> DEFINE Bad == {s \in SUBSET T : g[s] # f[s]}
  <1>3. Bad = {}
    <2> SUFFICES ASSUME Bad # {} PROVE FALSE OBVIOUS
    <2>1. PICK s \in Bad : \A t \in SUBSET s : t # s => t \notin Bad
      <3>1. Bad \in SUBSET (SUBSET T) OBVIOUS
      <3> HIDE DEF Bad
      <3> QED BY <1>1, <3>1, LeastSubset
    <2>2. f[s] = Unfold(v, f, s) /\ g[s] = Unfold(w, g, s) BY <1>2 DEF Sums
    <2>3. s # {} BY <2>2 DEF Unfold
    <2>4. Pick(s) \in s BY <2>3 DEF Pick
    <2>5. g[s \ {Pick(s)}] = f[s \ {Pick(s)}] BY <2>1, <2>4
    <2>6. w[Pick(s)] = v[Pick(s)] BY <2>4 DEF w
    <2>7. f[s] = g[s] BY <2>2, <2>3, <2>5, <2>6 DEF Unfold
    <2> QED BY <2>7
  <1> QED BY <1>2, <1>3 DEF w

\* Of nothing the sum is 0.
LEMMA TotalEmpty ==
    ASSUME NEW v \in [{} -> Int]
    PROVE  SumOf(v) = 0
  BY TotalSolves, FS_EmptySet DEF Sums, Unfold

\* v has the terms of u on S, and one more.
OneMore(S, u, x, v) ==
    /\ IsFiniteSet(S) /\ x \notin S
    /\ u \in [S -> Int] /\ v \in [S \cup {x} -> Int]
    /\ \A y \in S : u[y] = v[y]

THEOREM TotalAdd ==
    ASSUME NEW S, NEW u, NEW x, NEW v, OneMore(S, u, x, v)
    PROVE  SumOf(v) = v[x] + SumOf(u)
  <1> DEFINE R == S \cup {x}
  <1>0. /\ IsFiniteSet(R) /\ x \in R /\ S = R \ {x} /\ v \in [R -> Int]
        /\ u \in [S -> Int] /\ \A y \in S : u[y] = v[y]
    BY FS_AddElement DEF OneMore
  <1> HIDE DEF R
  <1>1. PICK f : Sums(v, R, f) /\ SumOf(v) = f[R] BY <1>0, TotalSolves
  <1>2. Sums(v, R, f) BY <1>1
  <1>3. f[R] = v[x] + f[S]
    <2>1. R \in SUBSET R OBVIOUS
    <2> QED BY <1>0, <1>2, <2>1, SumsAnyFirst
  <1>4. SumOf([y \in S |-> v[y]]) = f[S]
    <2>1. S \in SUBSET R BY <1>0
    <2> QED BY <1>0, <1>2, <2>1, SumsLocal
  <1>5. [y \in S |-> v[y]] = u BY <1>0
  <1> QED BY <1>1, <1>3, <1>4, <1>5

\* The terms of v are those of a on A and those of b elsewhere.
TwoParts(S, v, A, a, b) ==
    /\ IsFiniteSet(S) /\ A \in SUBSET S /\ v \in [S -> Int]
    /\ a \in [A -> Int] /\ \A x \in A : a[x] = v[x]
    /\ b \in [S \ A -> Int] /\ \A x \in S \ A : b[x] = v[x]

THEOREM TotalSplit ==
    ASSUME NEW S, NEW v, NEW A, NEW a, NEW b, TwoParts(S, v, A, a, b)
    PROVE  SumOf(v) = SumOf(a) + SumOf(b)
  <1> USE DEF TwoParts
  <1>0. PICK f : Sums(v, S, f) /\ SumOf(v) = f[S] BY TotalSolves
  <1>1. Sums(v, S, f) BY <1>0
  <1> DEFINE B == S \ A
             Bad == {s \in SUBSET B : f[A \cup s] # f[A] + f[s]}
  <1>2. B \in SUBSET S /\ IsFiniteSet(B) /\ A \cup B = S BY FS_Subset
  <1>3. Bad = {}
    <2> SUFFICES ASSUME Bad # {} PROVE FALSE OBVIOUS
    <2>1. PICK s \in Bad : \A t \in SUBSET s : t # s => t \notin Bad
      <3>1. Bad \in SUBSET (SUBSET B) OBVIOUS
      <3> HIDE DEF Bad
      <3> QED BY <1>2, <3>1, LeastSubset
    <2>2. s \in SUBSET S /\ A \cup s \in SUBSET S BY <1>2
    <2>3. s # {}
      <3> SUFFICES ASSUME s = {} PROVE FALSE OBVIOUS
      <3>1. f[{}] = 0 BY <1>1 DEF Sums, Unfold
      <3>2. f[A] \in Int /\ A \cup s = A BY <1>1 DEF Sums
      <3>3. f[A \cup s] # f[A] + f[s] OBVIOUS
      <3> QED BY <3>1, <3>2, <3>3
    <2>4. PICK x \in s : TRUE BY <2>3
    <2> DEFINE t == s \ {x}
    <2>5. t \in SUBSET B /\ t \in SUBSET S /\ A \cup t \in SUBSET S OBVIOUS
    <2>6. (A \cup s) \ {x} = A \cup t BY <2>1, <2>4
    <2>7. f[A \cup t] = f[A] + f[t] BY <2>1, <2>4, <2>5
    <2>8. f[A \cup s] # f[A] + f[s] BY <2>1
    <2> HIDE DEF Bad, t
    <2>9. f[A \cup s] = v[x] + f[A \cup t] BY <1>1, <2>2, <2>4, <2>6, SumsAnyFirst
    <2>10. f[s] = v[x] + f[t] BY <1>1, <2>2, <2>4, SumsAnyFirst DEF t
    <2>11. v[x] \in Int /\ f[A] \in Int /\ f[t] \in Int BY <1>1, <2>2, <2>4, <2>5 DEF Sums
    <2> QED BY <2>7, <2>8, <2>9, <2>10, <2>11
  <1>4. f[S] = f[A] + f[B] BY <1>2, <1>3
  <1>5. [x \in A |-> v[x]] = a /\ [x \in B |-> v[x]] = b OBVIOUS
  <1> HIDE DEF B
  <1>6. SumOf([x \in A |-> v[x]]) = f[A] BY <1>1, SumsLocal
  <1>7. SumOf([x \in B |-> v[x]]) = f[B] BY <1>1, <1>2, SumsLocal
  <1> QED BY <1>0, <1>4, <1>5, <1>6, <1>7
=============================================================================
