--------------------------- MODULE FiniteInduction ---------------------------
(***************************************************************************)
(* Induction over finite data, for proofs about what folds, sums and       *)
(* recursive functions compute.  A property is given as the set of the     *)
(* values that have it.                                                    *)
(***************************************************************************)
EXTENDS Integers, FiniteSets, FiniteSetTheorems, WellFoundedInduction, TLAPS

(* Induction over the subsets of a finite set, for a property given as the *)
(* set of those that have it.                                              *)
LEMMA SubsetInduction ==
  ASSUME NEW S, IsFiniteSet(S), NEW Good,
         \A T \in SUBSET S : (\A U \in SUBSET T : U # T => U \in Good) => T \in Good
  PROVE  \A T \in SUBSET S : T \in Good
<1> DEFINE Bad == {T \in SUBSET S : T \notin Good}
<1>1. SUFFICES ASSUME Bad # {}
               PROVE  FALSE
  OBVIOUS
<1>2. Bad \subseteq FiniteSubsetsOf(S)
  BY FS_Subset DEF FiniteSubsetsOf
<1>3. PICK T \in Bad : \A U \in Bad : ~ (<<U, T>> \in StrictSubsetOrdering(S))
  <2> HIDE DEF Bad
  <2>1. QED
    BY <1>1, <1>2, WFMin, FS_StrictSubsetOrderingWellFounded
<1>4. ASSUME NEW U \in SUBSET T, U # T
      PROVE  U \in Good
  <2>1. <<U, T>> \in StrictSubsetOrdering(S)
    BY <1>3, <1>4 DEF StrictSubsetOrdering
  <2>2. QED
    BY <1>3, <2>1
<1>5. QED
  BY <1>3, <1>4

(* Induction over the numbers up to a bound.                               *)
LEMMA UpToInduction ==
  ASSUME NEW L \in Nat, NEW Good, 0 \in Good,
         \A m \in 1 .. L : m - 1 \in Good => m \in Good
  PROVE  \A m \in 0 .. L : m \in Good
<1> DEFINE GoodSets == {T \in SUBSET (1 .. L) : \A m \in 0 .. L : T = 1 .. m => m \in Good}
<1>1. IsFiniteSet(1 .. L)
  BY FS_Interval
<1>2. ASSUME NEW T \in SUBSET (1 .. L), \A U \in SUBSET T : U # T => U \in GoodSets,
             NEW m \in 0 .. L, T = 1 .. m
      PROVE  m \in Good
  <2>1. CASE m = 0
    BY <2>1
  <2>2. CASE m # 0
    <3>1. m - 1 \in 0 .. L /\ m \in 1 .. L /\ m \in 1 .. m /\ m \notin 1 .. (m - 1)
      BY <2>2
    <3>2. 1 .. (m - 1) \in SUBSET T
      BY <1>2, <3>1
    <3>3. 1 .. (m - 1) # T
      BY <1>2, <3>1
    <3>4. 1 .. (m - 1) \in GoodSets
      BY <1>2, <3>2, <3>3
    <3>5. m - 1 \in Good
      BY <3>1, <3>4
    <3>6. QED
      BY <3>1, <3>5
  <2>3. QED
    BY <2>1, <2>2
<1>3. \A T \in SUBSET (1 .. L) :
        (\A U \in SUBSET T : U # T => U \in GoodSets) => T \in GoodSets
  BY <1>2
<1>4. \A T \in SUBSET (1 .. L) : T \in GoodSets
  <2> HIDE DEF GoodSets
  <2>1. QED
    BY <1>1, <1>3, SubsetInduction
<1>5. \A m \in 0 .. L : 1 .. m \in SUBSET (1 .. L)
  OBVIOUS
<1>6. QED
  BY <1>4, <1>5

(* f is defined by recursion up to L: step[n] gives its value at n from    *)
(* that at n - 1.                                                          *)
Recursive(f, L, base, step) ==
  f[0] = base /\ \A n \in 1 .. L : f[n] = step[n][f[n - 1]]

(* There is such a function.                                               *)
LEMMA RecursionExists ==
  ASSUME NEW L \in Nat, NEW D, NEW base \in D, NEW step \in [1 .. L -> [D -> D]]
  PROVE  \E f \in [0 .. L -> D] : Recursive(f, L, base, step)
<1> DEFINE Good == {m \in 0 .. L : \E f \in [0 .. L -> D] : Recursive(f, m, base, step)}
<1>1. 0 \in Good
  <2>1. [n \in 0 .. L |-> base] \in [0 .. L -> D]
    OBVIOUS
  <2>2. Recursive([n \in 0 .. L |-> base], 0, base, step)
    BY DEF Recursive
  <2>3. 0 \in 0 .. L /\ \E f \in [0 .. L -> D] : Recursive(f, 0, base, step)
    BY <2>1, <2>2
  <2>4. QED
    BY <2>3
<1>2. ASSUME NEW m \in 1 .. L, m - 1 \in Good
      PROVE  m \in Good
  <2>1. PICK f \in [0 .. L -> D] : Recursive(f, m - 1, base, step)
    BY <1>2
  <2>2. m \in 0 .. L /\ m - 1 \in 0 .. L /\ 0 \in 0 .. L /\ m # 0
    OBVIOUS
  <2>3. PICK g : g = [f EXCEPT ![m] = step[m][f[m - 1]]]
    OBVIOUS
  <2>4. step[m][f[m - 1]] \in D
    BY <2>2
  <2>5. g \in [0 .. L -> D] /\ g[m] = step[m][f[m - 1]]
    BY <2>2, <2>3, <2>4
  <2>6. \A n \in 0 .. L : n # m => g[n] = f[n]
    BY <2>3
  <2>7. g[0] = base
    BY <2>1, <2>2, <2>6 DEF Recursive
  <2>8. ASSUME NEW n \in 1 .. m
        PROVE  g[n] = step[n][g[n - 1]]
    <3>1. n \in 0 .. L /\ n - 1 \in 0 .. L /\ n - 1 # m
      OBVIOUS
    <3>2. g[n - 1] = f[n - 1]
      BY <2>6, <3>1
    <3>3. CASE n = m
      BY <2>5, <3>2, <3>3
    <3>4. CASE n # m
      <4>1. n \in 1 .. (m - 1)
        BY <3>4
      <4>2. f[n] = step[n][f[n - 1]]
        BY <2>1, <4>1 DEF Recursive
      <4>3. QED
        BY <2>6, <3>1, <3>2, <3>4, <4>2
    <3>5. QED
      BY <3>3, <3>4
  <2>9. Recursive(g, m, base, step)
    BY <2>7, <2>8 DEF Recursive
  <2>10. QED
    BY <2>2, <2>5, <2>9
<1>3. \A m \in 0 .. L : m \in Good
  <2> HIDE DEF Good
  <2>1. QED
    BY <1>1, <1>2, UpToInduction
<1>4. L \in Good
  <2> HIDE DEF Good
  <2>1. L \in 0 .. L
    OBVIOUS
  <2>2. QED
    BY <1>3, <2>1
<1>5. PICK f \in [0 .. L -> D] : Recursive(f, L, base, step)
  BY <1>4
<1>6. QED
  BY <1>5
==============================================================================
