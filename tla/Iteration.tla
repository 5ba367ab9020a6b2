----------------------------- MODULE Iteration ------------------------------
(***************************************************************************)
(* Induction over an interval, stated with sets rather than with an        *)
(* operator parameter, and what follows for loops that the models write as *)
(* recursive functions over 0 .. n.                                        *)
(***************************************************************************)
EXTENDS Integers, WellFoundedInduction, TLAPS

\* A nonempty set of numbers has a least element.
LEMMA LeastElement ==
    ASSUME NEW S, S \subseteq Nat, S # {}
    PROVE  \E i \in S : \A j \in S : i <= j
<1> DEFINE R == {ss \in Nat \X Nat : ss[1] < ss[2]}
<1>1. IsWellFoundedOn(R, Nat)
  BY NatLessThanWellFounded DEF OpToRel
<1>2. \A x, y \in Nat : x < y => <<x, y>> \in R
  OBVIOUS
<1> HIDE DEF R
<1>3. PICK i \in S : \A j \in S : ~ (<<j, i>> \in R)
  BY <1>1, WFMin
<1>4. ASSUME NEW j \in S
      PROVE  i <= j
  <2>1. i \in Nat /\ j \in Nat
    OBVIOUS
  <2>2. ~ (j < i)
    BY <1>2, <1>3, <2>1
  <2> QED
    BY <2>1, <2>2
<1> QED
  BY <1>4

\* A set that has 0, and with every number its successor up to n, has all of
\* 0 .. n.
LEMMA Induction ==
    ASSUME NEW n \in Nat, NEW G, 0 \in G,
           \A i \in 1 .. n : i - 1 \in G => i \in G
    PROVE  \A i \in 0 .. n : i \in G
<1> DEFINE B == {i \in 0 .. n : i \notin G}
<1>1. B \subseteq Nat
  OBVIOUS
<1>2. ASSUME B # {}
      PROVE  FALSE
  <2>1. PICK i \in B : \A j \in B : i <= j
    BY <1>1, <1>2, LeastElement
  <2>2. i # 0 /\ i \in 0 .. n
    OBVIOUS
  <2>3. i \in 1 .. n /\ i - 1 \in 0 .. n /\ ~ (i <= i - 1)
    BY <2>2
  <2>4. i - 1 \in G
    BY <2>1, <2>3
  <2> QED
    BY <2>3, <2>4
<1> QED
  BY <1>2

\* f is the run of the steps st[1], ..., st[n] on the states S, from base.
IsRun(f, S, base, n, st) ==
    /\ f \in [0 .. n -> S]
    /\ f[0] = base
    /\ \A i \in 1 .. n : f[i] = st[i][f[i - 1]]

\* Such a run exists, from any state.
LEMMA RunExists ==
    ASSUME NEW S, NEW base \in S, NEW n \in Nat, NEW st \in [1 .. n -> [S -> S]]
    PROVE  \E f : IsRun(f, S, base, n, st)
<1> DEFINE Run(m, f) == f[0] = base /\ \A i \in 1 .. m : f[i] = st[i][f[i - 1]]
           G == {m \in 0 .. n : \E f \in [0 .. m -> S] : Run(m, f)}
<1>1. 0 \in G
  <2>1. 0 \in 0 .. n
    OBVIOUS
  <2>2. [k \in 0 .. 0 |-> base] \in [0 .. 0 -> S]
    OBVIOUS
  <2>3. Run(0, [k \in 0 .. 0 |-> base])
    OBVIOUS
  <2> HIDE DEF Run
  <2> QED
    BY <2>1, <2>2, <2>3
<1>2. ASSUME NEW m \in 1 .. n, m - 1 \in G
      PROVE  m \in G
  <2>1. m \in Nat /\ m - 1 \in Nat /\ m # 0 /\ m \in 0 .. n
    OBVIOUS
  <2>2. PICK f \in [0 .. m - 1 -> S] : Run(m - 1, f)
    BY <1>2
  <2> DEFINE g == [k \in 0 .. m |-> IF k = m THEN st[m][f[m - 1]] ELSE f[k]]
  <2>3. f[m - 1] \in S
    BY <2>1
  <2>4. st[m][f[m - 1]] \in S
    BY <2>3
  <2>5. \A k \in 0 .. m : k # m => k \in 0 .. m - 1
    BY <2>1
  <2>6. g \in [0 .. m -> S]
    BY <2>4, <2>5
  <2>7. g[0] = base
    BY <2>1, <2>2
  <2>8. ASSUME NEW i \in 1 .. m
        PROVE  g[i] = st[i][g[i - 1]]
    <3>1. i \in 0 .. m /\ i - 1 \in 0 .. m /\ i - 1 # m
      BY <2>1
    <3>2. g[i - 1] = f[i - 1]
      BY <3>1
    <3>3. CASE i = m
      BY <3>1, <3>2, <3>3
    <3>4. CASE i # m
      <4>1. i \in 1 .. m - 1
        BY <2>1, <3>4
      <4> QED
        BY <2>2, <3>1, <3>2, <3>4, <4>1
    <3> QED
      BY <3>3, <3>4
  <2>9. Run(m, g)
    BY <2>7, <2>8
  <2> HIDE DEF Run, g
  <2> QED
    BY <2>1, <2>6, <2>9
<1>3. n \in 0 .. n
  OBVIOUS
<1>4. n \in G
  <2> HIDE DEF G
  <2> QED
    BY <1>1, <1>2, <1>3, Induction
<1> QED
  BY <1>4 DEF IsRun
=============================================================================
