---------------------------- MODULE RateLoop_proofs ----------------------------
(***************************************************************************)
(* The rate and distortion loops, for every spectrum, layout, width table  *)
(* and budget there may be.                                                *)
(*                                                                         *)
(* The searches come first: sums and the binary search are recursive       *)
(* functions chosen by what they satisfy, and what they return is proved   *)
(* by induction over a set of numbers.  The bound of a granule's lines is  *)
(* monotone in the gain, although its cost is not, so that the search by   *)
(* bound skips no gain that fits.  A coding is then a function of the      *)
(* spectrum and the scalefactors as long as the cache holds nothing of an  *)
(* earlier spectrum.                                                       *)
(*                                                                         *)
(* The invariant says of the loop that there is no best pass only before   *)
(* the first, which is the plain one, and that every best pass since is no *)
(* worse than it; and of a finished coding, that the widths chosen for all *)
(* its scalefactors also cover those left after scfsi, which is why the    *)
(* part2_3_length that was within its field stays so.                      *)
(***************************************************************************)
EXTENDS RateLoop, FiniteSetTheorems, WellFoundedInduction, TLAPS

\* Natural numbers: a smallest element, and induction over a set.
Below == {p \in Nat \X Nat : p[1] < p[2]}

LEMMA BelowWellFounded == IsWellFoundedOn(Below, Nat)
  BY NatLessThanWellFounded DEF OpToRel, Below

LEMMA Smallest ==
    ASSUME NEW S \in SUBSET Nat, S # {}
    PROVE  \E n \in S : \A m \in S : n <= m
  <1>1. PICK x \in S : \A y \in S : <<y, x>> \notin Below
    <2>1. S \subseteq Nat  OBVIOUS
    <2> QED  BY BelowWellFounded, WFMin, <2>1
  <1>2. ASSUME NEW y \in S PROVE x <= y
    <2>1. x \in Nat /\ y \in Nat  OBVIOUS
    <2>2. <<y, x>> \notin Below  BY <1>1
    <2>3. ~(y < x)  BY <2>1, <2>2 DEF Below
    <2> QED  BY <2>1, <2>3
  <1> QED  BY <1>2

LEMMA Induction ==
    ASSUME NEW S, 0 \in S, \A n \in Nat : n \in S => n + 1 \in S
    PROVE  Nat \subseteq S
  <1> DEFINE T == Nat \ S
  <1> SUFFICES ASSUME T # {} PROVE FALSE  OBVIOUS
  <1>1. PICK n \in T : \A m \in T : n <= m
    <2>1. T \in SUBSET Nat  OBVIOUS
    <2> HIDE DEF T
    <2> QED  BY <2>1, Smallest
  <1>2. n \in Nat /\ n # 0  OBVIOUS
  <1>3. n - 1 \in Nat /\ ~(n <= n - 1) /\ (n - 1) + 1 = n  BY <1>2
  <1>4. n - 1 \in S  BY <1>1, <1>3
  <1> QED  BY <1>3, <1>4

\* The recursion of a sum over the subsets of S.
Pick(s) == CHOOSE x \in s : TRUE
Body(g, w, s) == IF s = {} THEN 0 ELSE w[Pick(s)] + g[s \ {Pick(s)}]
Sums(g, w, S) == g = [s \in SUBSET S |-> Body(g, w, s)]
Upto(g, w, S, n) ==
    /\ g = [s \in SUBSET S |-> g[s]]
    /\ \A s \in SUBSET S : Cardinality(s) <= n => g[s] = Body(g, w, s)

LEMMA SumIs ==
    ASSUME NEW w, NEW S
    PROVE  SumFunctionOnSet(w, S) = (CHOOSE g : Sums(g, w, S))[S]
  BY DEF SumFunctionOnSet, FoldFunctionOnSet, MapThenFoldSet, Sums, Body, Pick

\* What is left after taking the element that is picked.
LEMMA Picked ==
    ASSUME NEW S, IsFiniteSet(S), S # {}
    PROVE  /\ Pick(S) \in S
           /\ S \ {Pick(S)} \in SUBSET S
           /\ IsFiniteSet(S \ {Pick(S)})
           /\ Cardinality(S) \in Nat
           /\ Cardinality(S \ {Pick(S)}) = Cardinality(S) - 1
           /\ Cardinality(S \ {Pick(S)}) \in Nat
  <1>1. Pick(S) \in S  BY DEF Pick
  <1> DEFINE x == Pick(S)
  <1> HIDE DEF x
  <1>2. x \in S  BY <1>1 DEF x
  <1>3. IsFiniteSet(S \ {x}) /\ Cardinality(S \ {x}) = Cardinality(S) - 1
    BY <1>2, FS_RemoveElement
  <1>4. Cardinality(S) \in Nat  BY FS_CardinalityType
  <1>5. Cardinality(S \ {x}) \in Nat  BY <1>3, FS_CardinalityType
  <1> QED  BY <1>1, <1>3, <1>4, <1>5 DEF x

LEMMA SumUpto ==
    ASSUME NEW w, NEW S, IsFiniteSet(S), NEW n \in Nat
    PROVE  \E g : Upto(g, w, S, n)
  <1> DEFINE N == {k \in Nat : \E g : Upto(g, w, S, k)}
  <1>1. ASSUME NEW s \in SUBSET S
        PROVE  IsFiniteSet(s) /\ Cardinality(s) \in Nat
    BY FS_Subset, FS_CardinalityType
  <1>2. 0 \in N
    <2> DEFINE g == [s \in SUBSET S |-> 0]
    <2>1. ASSUME NEW s \in SUBSET S, Cardinality(s) <= 0 PROVE g[s] = Body(g, w, s)
      <3>1. s = {}  BY <1>1, <2>1, FS_EmptySet
      <3> QED  BY <3>1 DEF Body
    <2>2. Upto(g, w, S, 0)  BY <2>1 DEF Upto
    <2> HIDE DEF g
    <2> QED  BY <2>2
  <1>3. ASSUME NEW k \in Nat, k \in N PROVE k + 1 \in N
    <2>1. PICK g : Upto(g, w, S, k)  BY <1>3
    <2> DEFINE h == [s \in SUBSET S |-> Body(g, w, s)]
    <2>2. ASSUME NEW s \in SUBSET S, Cardinality(s) <= k + 1
          PROVE  h[s] = Body(h, w, s)
      <3>1. CASE s = {}  BY <3>1 DEF Body
      <3>2. CASE s # {}
        <4> DEFINE r == s \ {Pick(s)}
        <4>1. r \in SUBSET S /\ Cardinality(r) <= k
          BY <1>1, <2>2, <3>2, Picked
        <4>2. h[r] = g[r]
          <5>1. g[r] = Body(g, w, r)  BY <2>1, <4>1 DEF Upto
          <5> HIDE DEF r
          <5> QED  BY <5>1, <4>1
        <4>3. h[s] = Body(g, w, s)  OBVIOUS
        <4> HIDE DEF h
        <4> QED  BY <3>2, <4>2, <4>3 DEF Body
      <3> QED  BY <3>1, <3>2
    <2>3. h = [s \in SUBSET S |-> h[s]]  OBVIOUS
    <2> HIDE DEF h
    <2>4. Upto(h, w, S, k + 1)  BY <2>2, <2>3 DEF Upto
    <2> QED  BY <2>4
  <1> HIDE DEF N
  <1>4. Nat \subseteq N  BY <1>2, <1>3, Induction
  <1> QED  BY <1>4 DEF N

LEMMA SumExists ==
    ASSUME NEW w, NEW S, IsFiniteSet(S)
    PROVE  \E g : Sums(g, w, S)
  <1> DEFINE n == Cardinality(S)
  <1>1. n \in Nat  BY FS_CardinalityType
  <1>2. PICK g : Upto(g, w, S, n)
    <2> HIDE DEF n
    <2> QED  BY <1>1, SumUpto
  <1>3. ASSUME NEW s \in SUBSET S PROVE g[s] = Body(g, w, s)
    BY <1>2, FS_Subset DEF Upto
  <1>4. g = [s \in SUBSET S |-> g[s]]
     BY <1>2 DEF Upto
  <1>5. [s \in SUBSET S |-> g[s]] = [s \in SUBSET S |-> Body(g, w, s)]
     BY <1>3
  <1> QED  BY <1>4, <1>5 DEF Sums

\* Two of them agree where both are defined.
LEMMA SumUnique ==
    ASSUME NEW w, NEW S, NEW T, NEW g, NEW h, Sums(g, w, S), Sums(h, w, T),
           NEW U, U \subseteq S, U \subseteq T, IsFiniteSet(U)
    PROVE  g[U] = h[U]
  <1> DEFINE N == {n \in Nat : \A s \in SUBSET U : Cardinality(s) <= n => g[s] = h[s]}
  <1>1. ASSUME NEW s \in SUBSET U
        PROVE  /\ IsFiniteSet(s) /\ Cardinality(s) \in Nat
               /\ g[s] = Body(g, w, s) /\ h[s] = Body(h, w, s)
    <2>1. IsFiniteSet(s) /\ Cardinality(s) \in Nat
      BY FS_Subset, FS_CardinalityType
    <2>2. s \in SUBSET S /\ s \in SUBSET T  OBVIOUS
    <2>3. g[s] = Body(g, w, s)  BY <2>2 DEF Sums
    <2>4. h[s] = Body(h, w, s)  BY <2>2 DEF Sums
    <2> QED  BY <2>1, <2>3, <2>4
  <1>2. 0 \in N
    <2>1. ASSUME NEW s \in SUBSET U, Cardinality(s) <= 0 PROVE g[s] = h[s]
      <3>1. s = {}  BY <1>1, <2>1, FS_EmptySet
      <3>2. Body(g, w, {}) = 0 /\ Body(h, w, {}) = 0  BY DEF Body
      <3> QED  BY <1>1, <3>1, <3>2
    <2> QED  BY <2>1
  <1>3. ASSUME NEW k \in Nat, k \in N PROVE k + 1 \in N
    <2>1. ASSUME NEW s \in SUBSET U, Cardinality(s) <= k + 1 PROVE g[s] = h[s]
      <3>1. CASE s = {}
        <4>2. Body(g, w, {}) = 0 /\ Body(h, w, {}) = 0  BY DEF Body
        <4> QED  BY <1>1, <3>1, <4>2
      <3>2. CASE s # {}
        <4> DEFINE r == s \ {Pick(s)}
        <4>1. r \in SUBSET U /\ Cardinality(r) <= k
          BY <1>1, <2>1, <3>2, Picked
        <4>2. h[r] = g[r]  BY <1>3, <4>1
        <4>3. Body(g, w, s) = Body(h, w, s)  BY <3>2, <4>2 DEF Body
        <4> QED  BY <1>1, <4>3
      <3> QED  BY <3>1, <3>2
    <2> QED  BY <2>1
  <1> HIDE DEF N
  <1>4. Nat \subseteq N  BY <1>2, <1>3, Induction
  <1>5. Cardinality(U) \in N  BY <1>4, <1>1
  <1> QED  BY <1>5, <1>1 DEF N

\* The sum of w over a finite set, as its definition reads.
LEMMA SumStep ==
    ASSUME NEW w, NEW S, IsFiniteSet(S)
    PROVE  /\ S = {} => SumFunctionOnSet(w, S) = 0
           /\ S # {} => SumFunctionOnSet(w, S)
                          = w[Pick(S)] + SumFunctionOnSet(w, S \ {Pick(S)})
  <1> DEFINE g == CHOOSE f : Sums(f, w, S)
  <1>1. Sums(g, w, S)  BY SumExists
  <1> HIDE DEF g
  <1>2. SumFunctionOnSet(w, S) = g[S]  BY SumIs DEF g
  <1>3. g[S] = Body(g, w, S)  BY <1>1 DEF Sums
  <1>4. CASE S = {}  BY <1>2, <1>3, <1>4 DEF Body
  <1>5. CASE S # {}
    <2> DEFINE r == S \ {Pick(S)}
               h == CHOOSE f : Sums(f, w, r)
    <2>1. IsFiniteSet(r) /\ r \subseteq S  BY <1>5, Picked
    <2>2. Sums(h, w, r)
      <3> HIDE DEF r
      <3> QED  BY <2>1, SumExists
    <2>3. SumFunctionOnSet(w, r) = h[r]  BY SumIs
    <2>4. g[r] = h[r]
      <3> HIDE DEF r, h
      <3> QED  BY <1>1, <2>1, <2>2, SumUnique
    <2>5. g[S] = w[Pick(S)] + g[r]  BY <1>3, <1>5 DEF Body
    <2> QED  BY <1>2, <1>5, <2>3, <2>4, <2>5
  <1> QED  BY <1>4, <1>5

\* Any element may be taken first.
LEMMA SumRemove ==
    ASSUME NEW S, IsFiniteSet(S), NEW w, \A x \in S : w[x] \in Int
    PROVE  \A x \in S : SumFunctionOnSet(w, S) = w[x] + SumFunctionOnSet(w, S \ {x})
  <1> DEFINE Sum(s) == SumFunctionOnSet(w, s)
             Good(s) == Sum(s) \in Int /\ \A x \in s : Sum(s) = w[x] + Sum(s \ {x})
             N == {n \in Nat : \A s \in SUBSET S : Cardinality(s) <= n => Good(s)}
  <1>0. ASSUME NEW s \in SUBSET S PROVE Cardinality(s) \in Nat
    BY FS_Subset, FS_CardinalityType
  <1>1. ASSUME NEW s \in SUBSET S
        PROVE  /\ IsFiniteSet(s) /\ Cardinality(s) \in Nat
               /\ s = {} => Sum(s) = 0
               /\ s # {} => Sum(s) = w[Pick(s)] + Sum(s \ {Pick(s)})
               /\ s = {} <=> Cardinality(s) = 0
    <2>1. IsFiniteSet(s) /\ Cardinality(s) \in Nat
      BY FS_Subset, FS_CardinalityType
    <2> QED  BY <2>1, SumStep, FS_EmptySet
  <1>2. 0 \in N
    <2>1. ASSUME NEW s \in SUBSET S, Cardinality(s) <= 0 PROVE Good(s)
      <3>1. s = {}
        <4>1. Cardinality(s) = 0  BY <1>0, <2>1
        <4> QED  BY <1>1, <4>1
      <3>2. Sum(s) = 0  BY <1>1, <3>1
      <3> HIDE DEF Sum
      <3> QED  BY <3>1, <3>2
    <2> HIDE DEF Good
    <2> QED  BY <2>1
  <1>3. ASSUME NEW k \in Nat, k \in N PROVE k + 1 \in N
    <2>1. ASSUME NEW s \in SUBSET S, Cardinality(s) <= k + 1 PROVE Good(s)
      <3>1. CASE s = {}
        <4>1. Sum(s) = 0  BY <1>1, <3>1
        <4> HIDE DEF Sum
        <4> QED  BY <3>1, <4>1
      <3>2. CASE s # {}
        <4> DEFINE p == Pick(s)
        <4>0. p \in s /\ s \ {p} \in SUBSET S /\ Cardinality(s \ {p}) <= k
          <5>1. IsFiniteSet(s) /\ Cardinality(s) \in Nat  BY <1>1
          <5>2. p \in s /\ s \ {p} \in SUBSET s /\ Cardinality(s \ {p}) = Cardinality(s) - 1
            BY <5>1, <3>2, Picked
          <5> HIDE DEF p
          <5> QED  BY <2>1, <5>1, <5>2
        <4>1. /\ p \in s /\ s \ {p} \in SUBSET S /\ Cardinality(s \ {p}) <= k
              /\ Sum(s) = w[p] + Sum(s \ {p})
          BY <1>1, <3>2, <4>0
        <4> HIDE DEF Sum, p
        <4>2. Good(s \ {p})  BY <1>3, <4>1
        <4>3. w[p] \in Int  BY <4>1
        <4>4. Sum(s) \in Int  BY <4>1, <4>2, <4>3
        <4>5. ASSUME NEW x \in s, x # p PROVE Sum(s) = w[x] + Sum(s \ {x})
          <5>1. x \in s \ {p}  BY <4>5
          <5>2. Sum(s \ {p}) = w[x] + Sum((s \ {p}) \ {x})  BY <4>2, <5>1
          <5>3. s \ {x} \in SUBSET S /\ Cardinality(s \ {x}) <= k
            <6>1. Cardinality(s \ {x}) = Cardinality(s) - 1
              BY <1>1, FS_RemoveElement
            <6>2. Cardinality(s) \in Nat  BY <1>1
            <6> QED  BY <2>1, <6>1, <6>2
          <5>4. Good(s \ {x})  BY <1>3, <5>3
          <5>5. Sum(s \ {x}) = w[p] + Sum((s \ {x}) \ {p})  BY <4>1, <4>5, <5>4
          <5>6. (s \ {x}) \ {p} = (s \ {p}) \ {x}  OBVIOUS
          <5>7. (s \ {p}) \ {x} \in SUBSET S
                /\ Cardinality((s \ {p}) \ {x}) <= k
            <6>1. IsFiniteSet(s \ {p})  BY <1>1, <4>1
            <6>2. Cardinality((s \ {p}) \ {x}) = Cardinality(s \ {p}) - 1
              BY <5>1, <6>1, FS_RemoveElement
            <6>3. Cardinality(s \ {p}) \in Nat  BY <1>1, <4>1
            <6> QED  BY <4>1, <6>2, <6>3
          <5>8. Sum((s \ {p}) \ {x}) \in Int  BY <1>3, <5>7
          <5>9. w[x] \in Int  OBVIOUS
          <5> DEFINE z == Sum((s \ {p}) \ {x})
          <5>10. z \in Int /\ Sum(s \ {x}) = w[p] + z /\ Sum(s \ {p}) = w[x] + z
            BY <5>2, <5>5, <5>6, <5>8
          <5> HIDE DEF z
          <5> QED  BY <4>1, <4>3, <5>9, <5>10
        <4> QED  BY <4>1, <4>4, <4>5
      <3> QED  BY <3>1, <3>2
    <2> HIDE DEF Good
    <2> QED  BY <2>1
  <1> HIDE DEF N
  <1>4. Nat \subseteq N  BY <1>2, <1>3, Induction
  <1>5. Cardinality(S) \in N  BY <1>4, <1>1
  <1> QED  BY <1>5, <1>1 DEF N

\* A sum of natural numbers is one, and is no smaller than any of them.
LEMMA SumNat ==
    ASSUME NEW S, IsFiniteSet(S), NEW w, \A x \in S : w[x] \in Nat
    PROVE  /\ SumFunctionOnSet(w, S) \in Nat
           /\ \A x \in S : w[x] <= SumFunctionOnSet(w, S)
  <1> DEFINE Sum(s) == SumFunctionOnSet(w, s)
             N == {n \in Nat : \A s \in SUBSET S : Cardinality(s) <= n => Sum(s) \in Nat}
  <1>0. ASSUME NEW s \in SUBSET S PROVE Cardinality(s) \in Nat
    BY FS_Subset, FS_CardinalityType
  <1>1. ASSUME NEW s \in SUBSET S
        PROVE  /\ IsFiniteSet(s) /\ Cardinality(s) \in Nat
               /\ s = {} => Sum(s) = 0
               /\ s # {} => Sum(s) = w[Pick(s)] + Sum(s \ {Pick(s)})
               /\ s = {} <=> Cardinality(s) = 0
    <2>1. IsFiniteSet(s) /\ Cardinality(s) \in Nat
      BY FS_Subset, FS_CardinalityType
    <2> QED  BY <2>1, SumStep, FS_EmptySet
  <1>2. 0 \in N
    <2>1. ASSUME NEW s \in SUBSET S, Cardinality(s) <= 0 PROVE Sum(s) = 0
      <3>1. Cardinality(s) = 0  BY <1>0, <2>1
      <3> QED  BY <1>1, <3>1
    <2> HIDE DEF Sum
    <2> QED  BY <2>1
  <1>3. ASSUME NEW k \in Nat, k \in N PROVE k + 1 \in N
    <2>1. ASSUME NEW s \in SUBSET S, Cardinality(s) <= k + 1 PROVE Sum(s) \in Nat
      <3>1. CASE s = {}
        <4>1. Sum(s) = 0  BY <1>1, <3>1
        <4> HIDE DEF Sum
        <4> QED  BY <4>1
      <3>2. CASE s # {}
        <4> DEFINE p == Pick(s)
        <4>0. p \in s /\ s \ {p} \in SUBSET S /\ Cardinality(s \ {p}) <= k
          <5>1. IsFiniteSet(s) /\ Cardinality(s) \in Nat  BY <1>1
          <5>2. p \in s /\ s \ {p} \in SUBSET s /\ Cardinality(s \ {p}) = Cardinality(s) - 1
            BY <5>1, <3>2, Picked
          <5> HIDE DEF p
          <5> QED  BY <2>1, <5>1, <5>2
        <4>1. /\ p \in s /\ s \ {p} \in SUBSET S /\ Cardinality(s \ {p}) <= k
              /\ Sum(s) = w[p] + Sum(s \ {p})
          BY <1>1, <3>2, <4>0
        <4> HIDE DEF Sum, p
        <4>2. Sum(s \ {p}) \in Nat  BY <1>3, <4>1
        <4>3. w[p] \in Nat  BY <4>1
        <4> QED  BY <4>1, <4>2, <4>3
      <3> QED  BY <3>1, <3>2
    <2> HIDE DEF Sum
    <2> QED  BY <2>1
  <1> HIDE DEF N
  <1>4. Nat \subseteq N  BY <1>2, <1>3, Induction
  <1>5. ASSUME NEW s \in SUBSET S PROVE Sum(s) \in Nat
    <2>1. Cardinality(s) \in N  BY <1>4, <1>1, <1>5
    <2> QED  BY <2>1, <1>1 DEF N
  <1>6. ASSUME NEW x \in S PROVE w[x] <= Sum(S)
    <2>1. \A y \in S : w[y] \in Int  OBVIOUS
    <2>2. Sum(S) = w[x] + Sum(S \ {x})  BY <2>1, SumRemove
    <2>3. Sum(S \ {x}) \in Nat  BY <1>5
    <2>4. w[x] \in Nat  OBVIOUS
    <2> HIDE DEF Sum
    <2> QED  BY <2>2, <2>3, <2>4
  <1>7. Sum(S) \in Nat  BY <1>5
  <1> QED  BY <1>6, <1>7

\* Termwise smaller on a part of the set is smaller.
LEMMA SumMono ==
    ASSUME NEW S, IsFiniteSet(S), NEW T \in SUBSET S, NEW v, NEW w,
           \A x \in S : w[x] \in Nat,
           \A x \in T : v[x] \in Nat /\ v[x] <= w[x]
    PROVE  SumFunctionOnSet(v, T) <= SumFunctionOnSet(w, S)
  <1> DEFINE V(s) == SumFunctionOnSet(v, s)
             W(s) == SumFunctionOnSet(w, s)
             N == {n \in Nat : \A s \in SUBSET S :
                                  Cardinality(s) <= n => V(s \cap T) <= W(s)}
  <1>0. ASSUME NEW s \in SUBSET S PROVE Cardinality(s) \in Nat
    BY FS_Subset, FS_CardinalityType
  <1>1. ASSUME NEW s \in SUBSET S
        PROVE  /\ IsFiniteSet(s) /\ Cardinality(s) \in Nat
               /\ s = {} => V(s) = 0 /\ W(s) = 0
               /\ s # {} => W(s) = w[Pick(s)] + W(s \ {Pick(s)})
               /\ s = {} <=> Cardinality(s) = 0
    <2>1. IsFiniteSet(s) /\ Cardinality(s) \in Nat
      BY FS_Subset, FS_CardinalityType
    <2> QED  BY <2>1, SumStep, FS_EmptySet
  <1>2. ASSUME NEW s \in SUBSET S
        PROVE  /\ W(s) \in Nat
               /\ V(s \cap T) \in Nat
               /\ \A x \in s \cap T : V(s \cap T) = v[x] + V((s \cap T) \ {x})
    <2>1. IsFiniteSet(s) /\ IsFiniteSet(s \cap T)
      <3>1. s \cap T \in SUBSET S  OBVIOUS
      <3> QED  BY <1>1, <3>1
    <2>2. W(s) \in Nat
      <3>1. \A x \in s : w[x] \in Nat  OBVIOUS
      <3> QED  BY <2>1, <3>1, SumNat
    <2> DEFINE r == s \cap T
    <2>3. \A x \in r : v[x] \in Nat  OBVIOUS
    <2>4. \A x \in r : v[x] \in Int  OBVIOUS
    <2>5. V(r) \in Nat
      <3> HIDE DEF r
      <3> QED  BY <2>1, <2>3, SumNat DEF r
    <2>6. \A x \in r : V(r) = v[x] + V(r \ {x})
      <3>1. IsFiniteSet(r)  BY <2>1
      <3> HIDE DEF r
      <3> QED  BY <3>1, <2>4, SumRemove
    <2> QED  BY <2>2, <2>5, <2>6
  <1>3. 0 \in N
    <2>1. ASSUME NEW s \in SUBSET S, Cardinality(s) <= 0 PROVE V(s \cap T) <= W(s)
      <3>1. s = {} /\ s \cap T = {}
        <4>1. Cardinality(s) = 0  BY <1>0, <2>1
        <4>2. s = {}  BY <1>1, <4>1
        <4> QED  BY <4>2
      <3>2. V(s) = 0 /\ W(s) = 0  BY <1>1, <3>1
      <3>3. V(s \cap T) = 0  BY <3>1, <3>2
      <3> HIDE DEF V, W
      <3> QED  BY <3>2, <3>3
    <2> HIDE DEF V, W
    <2> QED  BY <2>1
  <1>4. ASSUME NEW k \in Nat, k \in N PROVE k + 1 \in N
    <2>1. ASSUME NEW s \in SUBSET S, Cardinality(s) <= k + 1 PROVE V(s \cap T) <= W(s)
      <3>1. CASE s = {}
        <4>1. s \cap T = s  BY <3>1
        <4>2. V(s) = 0 /\ W(s) = 0  BY <1>1, <3>1
        <4>3. V(s \cap T) = 0  BY <4>1, <4>2
        <4> HIDE DEF V, W
        <4> QED  BY <4>2, <4>3
      <3>2. CASE s # {}
        <4> DEFINE p == Pick(s)
                   r == s \ {p}
        <4>0. p \in s /\ r \in SUBSET S /\ Cardinality(r) <= k
          <5>1. IsFiniteSet(s) /\ Cardinality(s) \in Nat  BY <1>1
          <5>2. p \in s /\ r \in SUBSET s /\ Cardinality(r) = Cardinality(s) - 1
            BY <5>1, <3>2, Picked
          <5> HIDE DEF p, r
          <5> QED  BY <2>1, <5>1, <5>2
        <4>1. /\ p \in s /\ r \in SUBSET S /\ Cardinality(r) <= k
              /\ W(s) = w[p] + W(r)
          BY <1>1, <3>2, <4>0
        <4> HIDE DEF V, W, p
        <4>2. V(r \cap T) <= W(r)  BY <1>4, <4>1
        <4>3. W(r) \in Nat /\ V(r \cap T) \in Nat /\ V(s \cap T) \in Nat
          BY <1>2, <4>1
        <4>4. w[p] \in Nat  BY <4>1
        <4>5. CASE p \in T
          <5>1. V(s \cap T) = v[p] + V((s \cap T) \ {p})  BY <1>2, <4>1, <4>5
          <5>2. (s \cap T) \ {p} = r \cap T  OBVIOUS
          <5>3. v[p] \in Nat /\ v[p] <= w[p]  BY <4>5
          <5>4. V(s \cap T) = v[p] + V(r \cap T)  BY <5>1, <5>2
          <5> HIDE DEF r
          <5> QED  BY <4>1, <4>2, <4>3, <4>4, <5>3, <5>4
        <4>6. CASE p \notin T
          <5>1. s \cap T = r \cap T  BY <4>6
          <5>2. V(s \cap T) = V(r \cap T)  BY <5>1
          <5> HIDE DEF r
          <5> QED  BY <4>1, <4>2, <4>3, <4>4, <5>2
        <4> QED  BY <4>5, <4>6
      <3> QED  BY <3>1, <3>2
    <2> HIDE DEF V, W
    <2> QED  BY <2>1
  <1> HIDE DEF N
  <1>5. Nat \subseteq N  BY <1>3, <1>4, Induction
  <1>6. Cardinality(S) \in N  BY <1>1, <1>5
  <1>7. S \cap T = T  OBVIOUS
  <1>8. V(S \cap T) <= W(S)  BY <1>1, <1>6 DEF N
  <1> QED  BY <1>7, <1>8

\* A sum of zeros.
LEMMA SumZero ==
    ASSUME NEW S, IsFiniteSet(S), NEW w, \A x \in S : w[x] = 0
    PROVE  SumFunctionOnSet(w, S) = 0
  <1> DEFINE N == {n \in Nat : \A s \in SUBSET S :
                                  Cardinality(s) <= n => SumFunctionOnSet(w, s) = 0}
             Sum(s) == SumFunctionOnSet(w, s)
  <1>0. ASSUME NEW s \in SUBSET S PROVE Cardinality(s) \in Nat
    BY FS_Subset, FS_CardinalityType
  <1>1. ASSUME NEW s \in SUBSET S
        PROVE  /\ IsFiniteSet(s) /\ Cardinality(s) \in Nat
               /\ s = {} => Sum(s) = 0
               /\ s # {} => Sum(s) = w[Pick(s)] + Sum(s \ {Pick(s)})
               /\ s = {} <=> Cardinality(s) = 0
    <2>1. IsFiniteSet(s) /\ Cardinality(s) \in Nat
      BY FS_Subset, FS_CardinalityType
    <2> QED  BY <2>1, SumStep, FS_EmptySet
  <1>2. 0 \in N
    <2>1. ASSUME NEW s \in SUBSET S, Cardinality(s) <= 0 PROVE Sum(s) = 0
      <3>1. Cardinality(s) = 0  BY <1>0, <2>1
      <3> QED  BY <1>1, <3>1
    <2> QED  BY <2>1
  <1>3. ASSUME NEW k \in Nat, k \in N PROVE k + 1 \in N
    <2>1. ASSUME NEW s \in SUBSET S, Cardinality(s) <= k + 1 PROVE Sum(s) = 0
      <3>1. CASE s = {}  BY <1>1, <3>1
      <3>2. CASE s # {}
        <4> DEFINE p == Pick(s)
        <4>1. p \in s /\ s \ {p} \in SUBSET S /\ Cardinality(s \ {p}) <= k
          <5>1. IsFiniteSet(s) /\ Cardinality(s) \in Nat  BY <1>1
          <5>2. p \in s /\ s \ {p} \in SUBSET s /\ Cardinality(s \ {p}) = Cardinality(s) - 1
            BY <5>1, <3>2, Picked
          <5> HIDE DEF p
          <5> QED  BY <2>1, <5>1, <5>2
        <4>2. Sum(s) = w[p] + Sum(s \ {p})  BY <1>1, <3>2
        <4>3. Sum(s \ {p}) = 0  BY <1>3, <4>1
        <4>4. w[p] = 0  BY <4>1
        <4> HIDE DEF Sum, p
        <4> QED  BY <4>2, <4>3, <4>4
      <3> QED  BY <3>1, <3>2
    <2> QED  BY <2>1
  <1> HIDE DEF N
  <1>4. Nat \subseteq N  BY <1>2, <1>3, Induction
  <1>5. Cardinality(S) \in N  BY <1>4, <1>1
  <1> QED  BY <1>5, <1>1 DEF N

\* The smallest and the largest of a set of natural numbers.
LEMMA MinIs ==
    ASSUME NEW S \in SUBSET Nat, S # {}
    PROVE  Min(S) \in S /\ \A y \in S : Min(S) <= y
  BY Smallest DEF Min

LEMMA MaxIs ==
    ASSUME NEW S \in SUBSET Nat, S # {}, NEW n \in Nat, \A x \in S : x <= n
    PROVE  Max(S) \in S /\ \A y \in S : Max(S) >= y
  <1> DEFINE T == {n - x : x \in S}
  <1>0. ASSUME NEW x \in S PROVE n - x \in Nat
    <2>1. x \in Nat /\ x <= n  OBVIOUS
    <2> QED  BY <2>1
  <1>1. T \in SUBSET Nat /\ T # {}  BY <1>0
  <1>2. PICK m \in T : \A k \in T : m <= k
    <2> HIDE DEF T
    <2> QED  BY <1>1, Smallest
  <1>3. PICK x \in S : m = n - x  BY <1>2
  <1>4. ASSUME NEW y \in S PROVE x >= y
    <2>1. n - y \in T  OBVIOUS
    <2>2. n - x <= n - y  BY <1>2, <1>3, <2>1
    <2>3. x \in Nat /\ y \in Nat  OBVIOUS
    <2> QED  BY <2>2, <2>3
  <1> QED  BY <1>4 DEF Max

\* Of a finite set, one where f is largest.
LEMMA Largest ==
    ASSUME NEW S, IsFiniteSet(S), S # {}, NEW f, \A x \in S : f[x] \in Nat
    PROVE  \E b \in S : \A a \in S : f[a] <= f[b]
  <1> DEFINE T == {f[x] : x \in S}
             n == SumFunctionOnSet(f, S)
  <1>1. n \in Nat /\ \A x \in S : f[x] <= n  BY SumNat
  <1>2. T \in SUBSET Nat /\ T # {} /\ \A t \in T : t <= n  BY <1>1
  <1>3. Max(T) \in T /\ \A t \in T : Max(T) >= t
    <2> HIDE DEF T, n
    <2> QED  BY <1>1, <1>2, MaxIs
  <1>4. PICK b \in S : Max(T) = f[b]  BY <1>3
  <1>5. ASSUME NEW a \in S PROVE f[a] <= f[b]
    <2>1. f[a] \in T  OBVIOUS
    <2>2. f[b] >= f[a]  BY <1>3, <1>4, <2>1
    <2>3. f[a] \in Nat /\ f[b] \in Nat  OBVIOUS
    <2> QED  BY <2>2, <2>3
  <1> QED  BY <1>5

-----------------------------------------------------------------------------
\* The recursion of the binary search over pairs of bounds.
Pairs(lo, hi) == (lo..hi) \X (lo..hi)

Halve(g, ok, p) ==
    LET mid == (p[1] + p[2]) \div 2
    IN  IF p[1] >= p[2] THEN p[1]
        ELSE g[IF mid \in ok THEN <<p[1], mid>> ELSE <<mid + 1, p[2]>>]

Searches(g, ok, lo, hi) == g = [p \in Pairs(lo, hi) |-> Halve(g, ok, p)]

\* g does it for bounds no further apart than n.
Within(g, ok, lo, hi, n) ==
    /\ g = [p \in Pairs(lo, hi) |-> g[p]]
    /\ \A p \in Pairs(lo, hi) : p[2] - p[1] <= n => g[p] = Halve(g, ok, p)

LEMMA BisectIs ==
    ASSUME NEW ok, NEW lo, NEW hi
    PROVE  Bisect(ok, lo, hi) = (CHOOSE g : Searches(g, ok, lo, hi))[<<lo, hi>>]
  BY DEF Bisect, Searches, Halve, Pairs

\* Halving stays between the bounds and brings them closer.
LEMMA Halves ==
    ASSUME NEW l \in Int, NEW h \in Int, l < h
    PROVE  LET mid == (l + h) \div 2
           IN  /\ mid \in Int /\ l <= mid /\ mid < h
               /\ mid - l < h - l /\ h - (mid + 1) < h - l
  OBVIOUS

\* Where a pair of bounds that is not closed goes on: to one that is closer.
Narrow(ok, p) ==
    LET mid == (p[1] + p[2]) \div 2
    IN  IF mid \in ok THEN <<p[1], mid>> ELSE <<mid + 1, p[2]>>

LEMMA Narrows ==
    ASSUME NEW ok, NEW lo \in Int, NEW hi \in Int, NEW p \in Pairs(lo, hi), p[1] < p[2]
    PROVE  /\ Narrow(ok, p) \in Pairs(lo, hi)
           /\ Narrow(ok, p)[1] <= Narrow(ok, p)[2]
           /\ Narrow(ok, p)[2] - Narrow(ok, p)[1] < p[2] - p[1]
           /\ p[1] <= Narrow(ok, p)[1] /\ Narrow(ok, p)[2] <= p[2]
           /\ \A g : Halve(g, ok, p) = g[Narrow(ok, p)]
  <1> DEFINE l == p[1]
             h == p[2]
             mid == (l + h) \div 2
  <1>1. l \in lo..hi /\ h \in lo..hi /\ l < h  BY DEF Pairs
  <1> HIDE DEF l, h
  <1>2. /\ mid \in lo..hi /\ mid + 1 \in lo..hi /\ l <= mid /\ mid + 1 <= h
        /\ mid - l < h - l /\ h - (mid + 1) < h - l
    BY <1>1, Halves
  <1> HIDE DEF mid
  <1>3. CASE mid \in ok
    <2>1. Narrow(ok, p) = <<l, mid>>  BY <1>3 DEF Narrow, l, h, mid
    <2>2. \A g : Halve(g, ok, p) = g[<<l, mid>>]
      BY <1>1, <1>2, <1>3 DEF Halve, l, h, mid
    <2>3. <<l, mid>> \in Pairs(lo, hi) /\ <<l, mid>>[1] = l /\ <<l, mid>>[2] = mid
      BY <1>1, <1>2 DEF Pairs
    <2>4. l <= l /\ mid <= h  BY <1>1, <1>2
    <2> QED  BY <1>1, <1>2, <2>1, <2>2, <2>3, <2>4 DEF l, h
  <1>4. CASE mid \notin ok
    <2>1. Narrow(ok, p) = <<mid + 1, h>>  BY <1>4 DEF Narrow, l, h, mid
    <2>2. \A g : Halve(g, ok, p) = g[<<mid + 1, h>>]
      BY <1>1, <1>2, <1>4 DEF Halve, l, h, mid
    <2>3. /\ <<mid + 1, h>> \in Pairs(lo, hi)
          /\ <<mid + 1, h>>[1] = mid + 1 /\ <<mid + 1, h>>[2] = h
      BY <1>1, <1>2 DEF Pairs
    <2>4. l <= mid + 1 /\ h <= h  BY <1>1, <1>2
    <2> QED  BY <1>1, <1>2, <2>1, <2>2, <2>3, <2>4 DEF l, h
  <1> QED  BY <1>3, <1>4

LEMMA SearchWithin ==
    ASSUME NEW ok, NEW lo \in Int, NEW hi \in Int, NEW n \in Nat
    PROVE  \E g : Within(g, ok, lo, hi, n)
  <1> DEFINE N == {k \in Nat : \E g : Within(g, ok, lo, hi, k)}
  <1>0. ASSUME NEW p \in Pairs(lo, hi) PROVE p[1] \in Int /\ p[2] \in Int
    BY DEF Pairs
  <1>1. 0 \in N
    <2> DEFINE g == [p \in Pairs(lo, hi) |-> p[1]]
    <2>1. ASSUME NEW p \in Pairs(lo, hi), p[2] - p[1] <= 0
          PROVE  g[p] = Halve(g, ok, p)
      <3>1. p[1] >= p[2]  BY <1>0, <2>1
      <3>2. g[p] = p[1]  OBVIOUS
      <3> HIDE DEF g
      <3> QED  BY <3>1, <3>2 DEF Halve
    <2>2. g = [p \in Pairs(lo, hi) |-> g[p]]  OBVIOUS
    <2> HIDE DEF g
    <2>3. Within(g, ok, lo, hi, 0)  BY <2>1, <2>2 DEF Within
    <2> QED  BY <2>3
  <1>2. ASSUME NEW k \in Nat, k \in N PROVE k + 1 \in N
    <2>1. PICK g : Within(g, ok, lo, hi, k)  BY <1>2
    <2> DEFINE f == [p \in Pairs(lo, hi) |-> Halve(g, ok, p)]
    <2>2. ASSUME NEW p \in Pairs(lo, hi), p[2] - p[1] <= k + 1
          PROVE  f[p] = Halve(f, ok, p)
      <3>1. f[p] = Halve(g, ok, p)  OBVIOUS
      <3>2. CASE p[1] >= p[2]
        <4> HIDE DEF f
        <4> QED  BY <3>1, <3>2 DEF Halve
      <3>3. CASE ~(p[1] >= p[2])
        <4> DEFINE r == Narrow(ok, p)
        <4>1. /\ r \in Pairs(lo, hi) /\ r[2] - r[1] < p[2] - p[1]
              /\ Halve(g, ok, p) = g[r] /\ Halve(f, ok, p) = f[r]
          <5>1. p[1] < p[2]  BY <1>0, <3>3
          <5> HIDE DEF f
          <5> QED  BY <5>1, Narrows
        <4> HIDE DEF r
        <4>2. r[2] - r[1] <= k
          BY <1>0, <2>2, <4>1
        <4>3. g[r] = Halve(g, ok, r)  BY <2>1, <4>1, <4>2 DEF Within
        <4>4. f[r] = Halve(g, ok, r)  BY <4>1
        <4> HIDE DEF f
        <4> QED  BY <3>1, <4>1, <4>3, <4>4
      <3> QED  BY <3>2, <3>3
    <2>3. f = [p \in Pairs(lo, hi) |-> f[p]]  OBVIOUS
    <2> HIDE DEF f
    <2>4. Within(f, ok, lo, hi, k + 1)  BY <2>2, <2>3 DEF Within
    <2> QED  BY <2>4
  <1> HIDE DEF N
  <1>3. Nat \subseteq N  BY <1>1, <1>2, Induction
  <1> QED  BY <1>3 DEF N

\* The search ends between its bounds; and where every number above one that is ok is
\* ok too, none below its end is.
LEMMA BisectFinds ==
    ASSUME NEW ok, NEW lo \in Int, NEW hi \in Int, lo <= hi
    PROVE  /\ Bisect(ok, lo, hi) \in lo..hi
           /\ (\A x \in lo..hi, y \in lo..hi : x <= y /\ x \in ok => y \in ok)
                => \A x \in lo..hi : x < Bisect(ok, lo, hi) => x \notin ok
  <1> DEFINE g == CHOOSE f : Searches(f, ok, lo, hi)
  <1>0. ASSUME NEW p \in Pairs(lo, hi) PROVE p[1] \in lo..hi /\ p[2] \in lo..hi
    BY DEF Pairs
  <1>1. Searches(g, ok, lo, hi)
    <2> DEFINE n == hi - lo
    <2>1. n \in Nat  OBVIOUS
    <2>2. PICK f : Within(f, ok, lo, hi, n)
      <3> HIDE DEF n
      <3> QED  BY <2>1, SearchWithin
    <2>3. ASSUME NEW p \in Pairs(lo, hi) PROVE f[p] = Halve(f, ok, p)
      <3>1. p[2] - p[1] <= n  BY <1>0
      <3> HIDE DEF n
      <3> QED  BY <2>2, <3>1 DEF Within
    <2>4. [p \in Pairs(lo, hi) |-> f[p]] = [p \in Pairs(lo, hi) |-> Halve(f, ok, p)]
      BY <2>3
    <2>5. f = [p \in Pairs(lo, hi) |-> f[p]]  BY <2>2 DEF Within
    <2>6. Searches(f, ok, lo, hi)  BY <2>4, <2>5 DEF Searches
    <2> QED  BY <2>6
  <1> HIDE DEF g
  <1>2. ASSUME NEW p \in Pairs(lo, hi) PROVE g[p] = Halve(g, ok, p)
    BY <1>1 DEF Searches
  <1> DEFINE Up == \A x \in lo..hi, y \in lo..hi : x <= y /\ x \in ok => y \in ok
             Found(p) == /\ g[p] \in p[1]..p[2]
                         /\ Up => \A x \in p[1]..p[2] : x < g[p] => x \notin ok
             N == {k \in Nat : \A p \in Pairs(lo, hi) :
                                  p[1] <= p[2] /\ p[2] - p[1] <= k => Found(p)}
  <1>3. ASSUME NEW p \in Pairs(lo, hi), p[1] = p[2] PROVE Found(p)
    <2>1. g[p] = p[1]
      <3>1. p[1] >= p[2]  BY <1>0, <1>3
      <3> QED  BY <1>2, <3>1 DEF Halve
    <2>2. g[p] \in p[1]..p[2] /\ \A x \in p[1]..p[2] : ~(x < g[p])  BY <1>0, <1>3, <2>1
    <2> QED  BY <2>2
  <1>4. 0 \in N
    <2>1. ASSUME NEW p \in Pairs(lo, hi), p[1] <= p[2], p[2] - p[1] <= 0 PROVE Found(p)
      <3>1. p[1] = p[2]  BY <1>0, <2>1
      <3> HIDE DEF Found
      <3> QED  BY <1>3, <3>1
    <2> HIDE DEF Found
    <2> QED  BY <2>1
  <1>5. ASSUME NEW k \in Nat, k \in N PROVE k + 1 \in N
    <2>1. ASSUME NEW p \in Pairs(lo, hi), p[1] <= p[2], p[2] - p[1] <= k + 1
          PROVE  Found(p)
      <3>1. CASE p[1] = p[2]
        <4> HIDE DEF Found
        <4> QED  BY <1>3, <3>1
      <3>2. CASE p[1] < p[2]
        <4> DEFINE r == Narrow(ok, p)
                   mid == (p[1] + p[2]) \div 2
        <4>1. /\ r \in Pairs(lo, hi) /\ r[1] <= r[2] /\ r[2] - r[1] < p[2] - p[1]
              /\ p[1] <= r[1] /\ r[2] <= p[2] /\ Halve(g, ok, p) = g[r]
          BY <3>2, Narrows
        <4>2. \/ mid \in ok /\ r = <<p[1], mid>>
              \/ mid \notin ok /\ r = <<mid + 1, p[2]>>
          BY DEF Narrow
        <4>3. mid \in Int /\ mid \in lo..hi
          <5>1. p[1] \in Int /\ p[2] \in Int  BY <1>0
          <5>2. mid \in Int /\ p[1] <= mid /\ mid < p[2]  BY <3>2, <5>1, Halves
          <5> HIDE DEF mid
          <5> QED  BY <1>0, <5>2
        <4> HIDE DEF r, mid
        <4>4. r[2] - r[1] <= k  BY <1>0, <2>1, <4>1
        <4>5. Found(r)
          <5> HIDE DEF Found
          <5> QED  BY <1>5, <4>1, <4>4
        <4>6. g[p] = g[r]  BY <1>2, <4>1
        <4>7. g[p] \in p[1]..p[2]  BY <1>0, <4>1, <4>5, <4>6
        <4>8. ASSUME Up, NEW x \in p[1]..p[2], x < g[p] PROVE x \notin ok
          <5>1. x \in lo..hi  BY <1>0
          <5>2. CASE r = <<p[1], mid>>
            <6>1. r[1] = p[1] /\ r[2] = mid  BY <5>2
            <6>2. x \in r[1]..r[2]  BY <1>0, <4>1, <4>5, <4>6, <4>8, <6>1
            <6> QED  BY <4>5, <4>6, <4>8, <6>2
          <5>3. CASE mid \notin ok /\ r = <<mid + 1, p[2]>>
            <6>1. r[1] = mid + 1 /\ r[2] = p[2]  BY <5>3
            <6>2. CASE x <= mid  BY <4>3, <4>8, <5>1, <5>3, <6>2
            <6>3. CASE ~(x <= mid)
              <7>1. x \in r[1]..r[2]  BY <1>0, <4>3, <5>1, <6>1, <6>3
              <7> QED  BY <4>5, <4>6, <4>8, <7>1
            <6> QED  BY <6>2, <6>3
          <5> QED  BY <4>2, <5>2, <5>3
        <4> HIDE DEF Up
        <4> QED  BY <4>7, <4>8
      <3>3. p[1] = p[2] \/ p[1] < p[2]  BY <1>0, <2>1
      <3> QED  BY <3>1, <3>2, <3>3
    <2> HIDE DEF Found
    <2> QED  BY <2>1
  <1> HIDE DEF N
  <1>6. Nat \subseteq N  BY <1>4, <1>5, Induction
  <1> DEFINE e == <<lo, hi>>
  <1>7. e \in Pairs(lo, hi) /\ e[1] = lo /\ e[2] = hi  BY DEF Pairs
  <1>8. Found(e)
    <2> DEFINE n == hi - lo
    <2>1. n \in N  BY <1>6
    <2>2. e[1] <= e[2] /\ e[2] - e[1] <= n  BY <1>7
    <2> HIDE DEF n, Found, e
    <2> QED  BY <1>7, <2>1, <2>2 DEF N
  <1>9. Bisect(ok, lo, hi) = g[e]  BY BisectIs DEF g
  <1> HIDE DEF e
  <1> QED  BY <1>7, <1>8, <1>9

-----------------------------------------------------------------------------
SfMax == MaxOf(SfMaxLo, SfMaxHi)
Exponents == Zeroed..MaxExponent

\* The scalefactors the loop may come to.
Sf == [scf : [DOMAIN Pretab -> 0..SfMax], ssg : [Windows -> 0..MaxSubblockGain],
       scale : {0, 1}, preflag : {0, 1}]

\* Lines of spectrum s in layout l.
LineSet(s, l) == [Bands(l) -> [of : {s}, q : Exponents]]

LEMMA Numbers ==
    /\ SfMaxLo \in Nat /\ SfMaxHi \in Nat /\ MaxSubblockGain \in Nat /\ MaxGain \in Nat
    /\ MaxExponent \in Nat /\ MaxPart23Length \in Nat /\ MaxIters \in Nat /\ 1 <= MaxIters
    /\ SfMax \in Nat /\ SfMaxLo <= SfMax /\ SfMaxHi <= SfMax
    /\ Zeroed \in Int /\ Zeroed = -MaxGain - 1
  <1>1. /\ SfMaxLo \in Nat /\ SfMaxHi \in Nat /\ MaxSubblockGain \in Nat /\ MaxGain \in Nat
        /\ MaxExponent \in Nat /\ MaxPart23Length \in Nat
    BY NumbersAssumption
  <1>2. MaxIters \in Nat /\ 1 <= MaxIters  BY NumbersAssumption
  <1> QED  BY <1>1, <1>2 DEF SfMax, MaxOf, Zeroed

LEMMA LayoutFacts ==
    ASSUME NEW l \in DOMAIN Layouts
    PROVE  /\ Layouts[l].n \in Nat /\ 1 <= Layouts[l].n
           /\ ScfBands(l) \subseteq Bands(l) /\ ScfBands(l) \subseteq DOMAIN Pretab
           /\ IsFiniteSet(Bands(l)) /\ IsFiniteSet(ScfBands(l))
           /\ ScfBands(l) \subseteq Nat \ {0}
           /\ 1 \in Bands(l) /\ Bands(l) \subseteq Nat
  <1>1. /\ Layouts[l].n \in Nat \ {0} /\ Layouts[l].nScf \in 0..Layouts[l].n
        /\ ScfBands(l) \subseteq DOMAIN Pretab
    BY LayoutAssumption
  <1>2. IsFiniteSet(Bands(l))
    <2> DEFINE n == Layouts[l].n
    <2>1. n \in Int  BY <1>1
    <2> HIDE DEF n
    <2>2. IsFiniteSet(1..n)  BY <2>1, FS_Interval
    <2> QED  BY <2>2 DEF Bands, n
  <1>3. ScfBands(l) \subseteq Bands(l)  BY <1>1 DEF Bands, ScfBands
  <1>4. IsFiniteSet(ScfBands(l))  BY <1>2, <1>3, FS_Subset
  <1>5. 1 \in Bands(l)  BY <1>1 DEF Bands
  <1>6. ScfBands(l) \subseteq Nat \ {0}  BY <1>1 DEF ScfBands
  <1>7. Bands(l) \subseteq Nat  BY <1>1 DEF Bands
  <1>8. Layouts[l].n \in Nat /\ 1 <= Layouts[l].n  BY <1>1
  <1> QED  BY <1>1, <1>2, <1>3, <1>4, <1>5, <1>6, <1>7, <1>8

\* What scalefactors raise a band by is an exponent.
LEMMA ExtraBounds ==
    ASSUME NEW sf \in Sf, NEW l \in DOMAIN Layouts, NEW b \in Bands(l)
    PROVE  Extra(sf, l, b) \in 0..MaxExponent
  <1> DEFINE scfPart == IF b \in ScfBands(l)
                        THEN 2 * (sf.scale + 1) * (sf.scf[b] + sf.preflag * Pretab[b]) ELSE 0
             ssgPart == IF IsShort(l) THEN 8 * sf.ssg[Layouts[l].win[b]] ELSE 0
  <1>1. ssgPart \in 0..(8 * MaxSubblockGain)
    <2>1. CASE IsShort(l)
      <3> DEFINE w == Layouts[l].win[b]
      <3>1. w \in Windows  BY <2>1, LayoutAssumption
      <3>2. sf.ssg[w] \in 0..MaxSubblockGain  BY <3>1 DEF Sf
      <3> DEFINE z == sf.ssg[w]
      <3>3. z \in 0..MaxSubblockGain  BY <3>2
      <3>4. ssgPart = 8 * z  BY <2>1
      <3> HIDE DEF z, ssgPart
      <3> QED  BY <3>3, <3>4, Numbers
    <2>2. CASE ~IsShort(l)  BY <2>2, Numbers
    <2> QED  BY <2>1, <2>2
  <1>2. \E p \in {0} \cup {Pretab[a] : a \in DOMAIN Pretab} :
           p \in Nat /\ scfPart \in 0..(4 * (SfMax + p))
    <2>1. CASE b \in ScfBands(l)
      <3>1. b \in DOMAIN Pretab  BY <2>1, LayoutFacts
      <3>2. Pretab[b] \in Nat  BY <3>1, ScalefactorAssumption
      <3>3. sf.scf[b] \in 0..SfMax /\ sf.scale \in {0, 1} /\ sf.preflag \in {0, 1}
        BY <3>1 DEF Sf
      <3> DEFINE x == sf.scf[b]
                 p == Pretab[b]
                 s == sf.scale
                 f == sf.preflag
      <3>4. scfPart = 2 * (s + 1) * (x + f * p)  BY <2>1
      <3>5. x \in 0..SfMax /\ p \in Nat /\ s \in {0, 1} /\ f \in {0, 1}  BY <3>2, <3>3
      <3>6. p \in {Pretab[a] : a \in DOMAIN Pretab}  BY <3>1
      <3> HIDE DEF x, p, s, f, scfPart
      <3>7. f * p \in 0..p
        <4>1. CASE f = 0  BY <3>5, <4>1
        <4>2. CASE f = 1  BY <3>5, <4>2
        <4> QED  BY <3>5, <4>1, <4>2
      <3> DEFINE y == x + f * p
      <3>8. y \in 0..(SfMax + p)  BY <3>5, <3>7, Numbers
      <3>9. scfPart = 2 * (s + 1) * y  BY <3>4
      <3> HIDE DEF y
      <3>10. scfPart \in 0..(4 * (SfMax + p))
        <4>1. CASE s = 0  BY <3>5, <3>8, <3>9, <4>1, Numbers
        <4>2. CASE s = 1  BY <3>5, <3>8, <3>9, <4>2, Numbers
        <4> QED  BY <3>5, <4>1, <4>2
      <3> QED  BY <3>5, <3>6, <3>10
    <2>2. CASE b \notin ScfBands(l)
      <3>1. scfPart = 0  BY <2>2
      <3> HIDE DEF scfPart
      <3> QED  BY <3>1, Numbers
    <2> QED  BY <2>1, <2>2
  <1>3. PICK p \in {0} \cup {Pretab[a] : a \in DOMAIN Pretab} :
           p \in Nat /\ scfPart \in 0..(4 * (SfMax + p))
    BY <1>2
  <1>4. 4 * (SfMax + p) + 8 * MaxSubblockGain <= MaxExponent
    BY ScalefactorAssumption DEF SfMax
  <1>5. Extra(sf, l, b) = scfPart + ssgPart  BY DEF Extra
  <1> HIDE DEF scfPart, ssgPart
  <1> QED  BY <1>1, <1>3, <1>4, <1>5, Numbers

LEMMA NoScalefactorsType == NoScalefactors \in Sf
  <1>1. \A b \in DOMAIN Pretab : 0 \in 0..SfMax  BY Numbers
  <1>2. 0 \in 0..MaxSubblockGain  BY Numbers
  <1> QED  BY <1>1, <1>2 DEF NoScalefactors, Sf

-----------------------------------------------------------------------------
\* The lines at a gain, of a spectrum and a layout.
RecodeOf(x, l, sf, gg) == [b \in Bands(l) |-> Lines(x, Extra(sf, l, b) - gg)]

LEMMA RecodeLines ==
    ASSUME NEW x, NEW l \in DOMAIN Layouts, NEW sf \in Sf, NEW gg \in 0..MaxGain
    PROVE  /\ RecodeOf(x, l, sf, gg) \in LineSet(x, l)
           /\ \A b \in Bands(l) : Extra(sf, l, b) - gg \in -MaxGain..MaxExponent
  <1>1. ASSUME NEW b \in Bands(l) PROVE Extra(sf, l, b) - gg \in -MaxGain..MaxExponent
    <2> DEFINE e == Extra(sf, l, b)
    <2>1. e \in 0..MaxExponent  BY ExtraBounds
    <2> HIDE DEF e
    <2>2. e - gg \in -MaxGain..MaxExponent  BY <2>1, Numbers
    <2> QED  BY <2>2 DEF e
  <1>2. ASSUME NEW b \in Bands(l)
        PROVE  Lines(x, Extra(sf, l, b) - gg) \in [of : {x}, q : Exponents]
    <2>1. -MaxGain..MaxExponent \subseteq Exponents  BY Numbers DEF Exponents
    <2>2. Extra(sf, l, b) - gg \in Exponents  BY <1>1, <2>1
    <2> QED  BY <2>2 DEF Lines
  <1> QED  BY <1>1, <1>2 DEF RecodeOf, LineSet

\* What lines cost: a natural number, at least the bound, nothing if no floor is positive.
LEMMA HuffmanFacts ==
    ASSUME NEW s \in DOMAIN Spectra, NEW l \in DOMAIN Layouts, NEW ix \in LineSet(s, l)
    PROVE  /\ \A b \in Bands(l) : FloorOf(ix, b) \in Nat /\ Noise(ix, b) \in Nat
           /\ Bound(ix) \in Nat /\ HuffmanBits(ix) \in Nat /\ Bound(ix) <= HuffmanBits(ix)
           /\ (\A b \in Bands(l) : FloorOf(ix, b) = 0) => HuffmanBits(ix) = 0
  <1>1. DOMAIN ix = Bands(l)  BY DEF LineSet
  <1>2. ASSUME NEW b \in Bands(l) PROVE FloorOf(ix, b) \in Nat /\ Noise(ix, b) \in Nat
    <2>1. ix[b].of = s /\ ix[b].q \in Exponents  BY DEF LineSet
    <2>2. /\ Spectra[s].noise[b] \in [Exponents -> Nat]
          /\ Spectra[s].bits[b] \in [Exponents -> Nat]
      BY SpectraAssumption DEF Exponents
    <2> QED  BY <2>1, <2>2 DEF FloorOf, Noise
  <1> DEFINE f == [b \in Bands(l) |-> FloorOf(ix, b)]
  <1>3. Bound(ix) = SumFunctionOnSet(f, Bands(l))
    BY <1>1 DEF Bound, SumFunction
  <1>4. \A b \in Bands(l) : f[b] \in Nat  BY <1>2
  <1>5. IsFiniteSet(Bands(l))  BY LayoutFacts
  <1>6. Bound(ix) \in Nat
    <2> HIDE DEF f
    <2> QED  BY <1>3, <1>4, <1>5, SumNat
  <1>7. CASE Coded(ix) = {}
    <2>1. HuffmanBits(ix) = 0  BY <1>7 DEF HuffmanBits
    <2>2. ASSUME NEW b \in Bands(l) PROVE f[b] = 0
      <3>1. ~(FloorOf(ix, b) > 0)  BY <1>1, <1>7 DEF Coded
      <3>2. FloorOf(ix, b) = 0  BY <1>2, <3>1
      <3> QED  BY <3>2
    <2>3. Bound(ix) = 0
      <3> HIDE DEF f
      <3> QED  BY <1>3, <1>5, <2>2, SumZero
    <2> QED  BY <1>2, <2>1, <2>3
  <1>8. CASE Coded(ix) # {}
    <2>1. HuffmanBits(ix) = Bound(ix) \/ HuffmanBits(ix) = Bound(ix) + 2
      BY <1>6, <1>8 DEF HuffmanBits
    <2>2. ~ \A b \in Bands(l) : FloorOf(ix, b) = 0  BY <1>1, <1>8 DEF Coded
    <2> QED  BY <1>2, <1>6, <2>1, <2>2
  <1> QED  BY <1>7, <1>8

\* What lines sound like, in natural numbers, and all of them 0 when nothing is audible.
LEMMA MetricsType ==
    ASSUME NEW s \in DOMAIN Spectra, NEW l \in DOMAIN Layouts, NEW ix \in LineSet(s, l)
    PROVE  /\ Metrics(ix).excess \in Nat /\ Metrics(ix).ratio \in Nat
           /\ Metrics(ix).over \in Nat
           /\ Metrics(ix).over = 0 => Metrics(ix).excess = 0 /\ Metrics(ix).ratio = 0
  <1> DEFINE bad == {b \in DOMAIN ix : Noise(ix, b) > 1}
             f == [b \in bad |-> Noise(ix, b) - 1]
             g == [b \in bad |-> Noise(ix, b)]
             R == {Noise(ix, b) : b \in bad} \cup {0}
             n == SumFunctionOnSet(g, bad)
  <1>1. DOMAIN ix = Bands(l)  BY DEF LineSet
  <1>2. IsFiniteSet(bad)
    <2>1. bad \in SUBSET Bands(l)  BY <1>1
    <2> HIDE DEF bad
    <2> QED  BY <2>1, LayoutFacts, FS_Subset
  <1>3. ASSUME NEW b \in bad PROVE f[b] \in Nat /\ g[b] \in Nat /\ g[b] = Noise(ix, b)
    <2>1. Noise(ix, b) \in Nat /\ Noise(ix, b) > 1  BY <1>1, HuffmanFacts
    <2>2. f[b] = Noise(ix, b) - 1 /\ g[b] = Noise(ix, b)  OBVIOUS
    <2> HIDE DEF f, g
    <2> QED  BY <2>1, <2>2
  <1>4. SumFunctionOnSet(f, bad) \in Nat
    <2> HIDE DEF f, bad
    <2> QED  BY <1>2, <1>3, SumNat
  <1>5. n \in Nat /\ \A b \in bad : g[b] <= n
    <2> HIDE DEF g, bad
    <2> QED  BY <1>2, <1>3, SumNat
  <1>6. R \in SUBSET Nat /\ R # {} /\ \A r \in R : r <= n
    <2>1. ASSUME NEW r \in R PROVE r \in Nat /\ r <= n
      <3>1. CASE r = 0
        <4> HIDE DEF n
        <4> QED  BY <1>5, <3>1
      <3>2. ASSUME NEW b \in bad, r = Noise(ix, b) PROVE r \in Nat /\ r <= n
        <4> HIDE DEF n, g
        <4> QED  BY <1>3, <1>5, <3>2
      <3> QED  BY <3>1, <3>2
    <2> HIDE DEF n
    <2> QED  BY <2>1
  <1>7. Max(R) \in Nat
    <2> HIDE DEF R, n
    <2> QED  BY <1>5, <1>6, MaxIs
  <1>8. Cardinality(bad) \in Nat  BY <1>2, FS_CardinalityType
  <1>9. /\ Metrics(ix).excess = SumFunctionOnSet(f, bad)
        /\ Metrics(ix).ratio = Max(R) /\ Metrics(ix).over = Cardinality(bad)
    BY DEF Metrics, SumFunction
  <1>10. Cardinality(bad) = 0 => SumFunctionOnSet(f, bad) = 0 /\ Max(R) = 0
    <2>1. SUFFICES ASSUME bad = {} PROVE SumFunctionOnSet(f, bad) = 0 /\ Max(R) = 0
      <3> HIDE DEF f, R, bad
      <3> QED  BY <1>2, FS_EmptySet
    <2>2. SumFunctionOnSet(f, bad) = 0
      <3> HIDE DEF f, bad
      <3> QED  BY <1>2, <2>1, SumZero
    <2>3. R \in SUBSET {0} /\ R # {}  BY <2>1
    <2>4. Max(R) \in R
      <3> HIDE DEF R, n
      <3> QED  BY <1>5, <1>6, MaxIs
    <2> HIDE DEF R
    <2> QED  BY <2>2, <2>3, <2>4
  <1> HIDE DEF f, R, bad
  <1> QED  BY <1>4, <1>7, <1>8, <1>9, <1>10

Measure(m) == m.excess \in Nat /\ m.ratio \in Nat /\ m.over \in Nat

LEMMA BetterOrders ==
    ASSUME NEW m, NEW n, NEW k, Measure(m), Measure(n), Measure(k)
    PROVE  ~ Better(m, m) /\ (Better(k, m) /\ Better(m, n) => Better(k, n))
  BY DEF Better, Measure

-----------------------------------------------------------------------------
(* The fields of the scalefactors. *)

LEMMA FieldFacts ==
    ASSUME NEW i \in DOMAIN SlenTab, NEW l \in DOMAIN Layouts,
           NEW S \in SUBSET ScfBands(l)
    PROVE  /\ FieldBits(i, l, S) \in Nat
           /\ FieldBits(i, l, S) <= FieldBits(i, l, ScfBands(l))
           /\ SlenTab[i] = <<0, 0>> => FieldBits(i, l, S) = 0
           /\ \A b \in S : Width(i, l, b) \in Nat
  <1> DEFINE v == [b \in S |-> Width(i, l, b)]
             w == [b \in ScfBands(l) |-> Width(i, l, b)]
  <1>1. ASSUME NEW b PROVE Width(i, l, b) \in Nat
    <2>1. SlenTab[i] \in Nat \X Nat  BY ScalefactorAssumption
    <2>2. SlenTab[i][1] \in Nat /\ SlenTab[i][2] \in Nat  BY <2>1
    <2> QED  BY <2>2 DEF Width
  <1>2. IsFiniteSet(ScfBands(l)) /\ IsFiniteSet(S)
    <2>1. IsFiniteSet(ScfBands(l))  BY LayoutFacts
    <2> QED  BY <2>1, FS_Subset
  <1>3. /\ FieldBits(i, l, S) = SumFunctionOnSet(v, S)
        /\ FieldBits(i, l, ScfBands(l)) = SumFunctionOnSet(w, ScfBands(l))
    BY DEF FieldBits, SumFunction
  <1>4. \A b \in S : v[b] \in Nat  BY <1>1
  <1>5. \A b \in ScfBands(l) : w[b] \in Nat  BY <1>1
  <1>6. \A b \in S : v[b] \in Nat /\ v[b] <= w[b]
    <2>1. ASSUME NEW b \in S PROVE v[b] \in Nat /\ v[b] = w[b]
      BY <1>1
    <2>2. \A b \in S : v[b] \in Nat /\ v[b] = w[b]  BY <2>1
    <2> HIDE DEF v, w
    <2> QED  BY <2>2
  <1>7. SlenTab[i] = <<0, 0>> => \A b \in S : v[b] = 0
    BY DEF Width
  <1> HIDE DEF v, w
  <1>8. SumFunctionOnSet(v, S) \in Nat  BY <1>2, <1>4, SumNat
  <1>9. SumFunctionOnSet(v, S) <= SumFunctionOnSet(w, ScfBands(l))
    BY <1>2, <1>5, <1>6, SumMono
  <1>10. SlenTab[i] = <<0, 0>> => SumFunctionOnSet(v, S) = 0
    BY <1>2, <1>7, SumZero
  <1> QED  BY <1>1, <1>3, <1>8, <1>9, <1>10

\* The widths that chooseScalefacCompress may take for the bands sent.
Wide(sf, l, mask) ==
    {i \in DOMAIN SlenTab : \A b \in Sent(l, mask) : Covers(Width(i, l, b), sf.scf[b])}

\* It takes the cheapest of them.
LEMMA CompressFacts ==
    ASSUME NEW sf, NEW l \in DOMAIN Layouts, NEW mask, Wide(sf, l, mask) # {}
    PROVE  /\ Compress(sf, l, mask) \in Wide(sf, l, mask)
           /\ Compress(sf, l, mask) # 0
           /\ \A j \in Wide(sf, l, mask) :
                FieldBits(Compress(sf, l, mask), l, Sent(l, mask))
                  <= FieldBits(j, l, Sent(l, mask))
  <1> DEFINE S == Sent(l, mask)
             ok == Wide(sf, l, mask)
             cost(i) == FieldBits(i, l, S)
             C == {cost(i) : i \in ok}
             best == {i \in ok : \A j \in ok : cost(i) <= cost(j)}
  <1>1. S \in SUBSET ScfBands(l)  BY DEF Sent
  <1>2. ASSUME NEW i \in ok PROVE i \in Nat \ {0} /\ cost(i) \in Nat
    <2>1. i \in DOMAIN SlenTab  BY DEF Wide
    <2>2. i \in Nat \ {0}  BY <2>1, ScalefactorAssumption
    <2>3. FieldBits(i, l, S) \in Nat  BY <1>1, <2>1, FieldFacts
    <2> QED  BY <2>2, <2>3
  <1> HIDE DEF ok
  <1>3. PICK c \in C : \A k \in C : c <= k
    <2>1. C \in SUBSET Nat  BY <1>2
    <2>2. C # {}  BY DEF ok
    <2> HIDE DEF C
    <2> QED  BY <2>1, <2>2, Smallest
  <1>4. PICK i \in ok : c = cost(i)  BY <1>3
  <1>5. i \in best
    <2>1. \A j \in ok : cost(j) \in C  OBVIOUS
    <2> HIDE DEF C, cost
    <2> QED  BY <1>3, <1>4, <2>1
  <1>6. best \in SUBSET Nat /\ best # {}  BY <1>2, <1>5
  <1>7. Min(best) \in best
    <2> HIDE DEF best
    <2> QED  BY <1>6, MinIs
  <1>8. Compress(sf, l, mask) = Min(best)
    <2>1. ok # {}  BY DEF ok
    <2> QED  BY <2>1 DEF Compress, Wide, ok
  <1>9. Min(best) \in Nat \ {0}  BY <1>2, <1>7
  <1> HIDE DEF best
  <1>10. Compress(sf, l, mask) \in best  BY <1>7, <1>8
  <1> QED  BY <1>8, <1>9, <1>10 DEF best, ok

LEMMA CompressNone ==
    ASSUME NEW sf, NEW l, NEW mask, Wide(sf, l, mask) = {}
    PROVE  Compress(sf, l, mask) = 0
  BY DEF Compress, Wide

\* No scalefactors are sent in no bits.
LEMMA NothingSent ==
    ASSUME NEW l \in DOMAIN Layouts
    PROVE  /\ Compress(NoScalefactors, l, {}) # 0
           /\ FieldBits(Compress(NoScalefactors, l, {}), l, ScfBands(l)) = 0
  <1>1. PICK z \in DOMAIN SlenTab : SlenTab[z] = <<0, 0>>
    BY ScalefactorAssumption
  <1>2. Sent(l, {}) = ScfBands(l)  BY DEF Sent
  <1>3. z \in Wide(NoScalefactors, l, {})
    <2>1. ASSUME NEW b \in ScfBands(l)
          PROVE  Covers(Width(z, l, b), NoScalefactors.scf[b])
      <3>1. b \in DOMAIN Pretab  BY LayoutFacts
      <3>2. NoScalefactors.scf[b] = 0  BY <3>1 DEF NoScalefactors
      <3>3. Width(z, l, b) = 0  BY <1>1 DEF Width
      <3>4. 0 < 2^0  OBVIOUS
      <3> QED  BY <3>2, <3>3, <3>4 DEF Covers
    <2> QED  BY <1>2, <2>1 DEF Wide
  <1> DEFINE i == Compress(NoScalefactors, l, {})
  <1>4. /\ i \in Wide(NoScalefactors, l, {}) /\ i # 0
        /\ FieldBits(i, l, ScfBands(l)) <= FieldBits(z, l, ScfBands(l))
    BY <1>2, <1>3, CompressFacts
  <1>5. i \in DOMAIN SlenTab  BY <1>4 DEF Wide
  <1> HIDE DEF i
  <1>6. FieldBits(i, l, ScfBands(l)) \in Nat  BY <1>5, FieldFacts
  <1>7. FieldBits(z, l, ScfBands(l)) = 0  BY <1>1, FieldFacts
  <1>8. FieldBits(i, l, ScfBands(l)) = 0  BY <1>4, <1>6, <1>7
  <1> QED  BY <1>4, <1>8 DEF i

-----------------------------------------------------------------------------
(* codeGranule, of a spectrum and a layout, uncached. *)

MinGainOf(x, l, sf) ==
    Min({gg \in 0..MaxGain - 1 :
            \A b \in Bands(l) : Extra(sf, l, b) - gg <= Spectra[x].peak[b]} \cup {MaxGain})

AdmittedOf(x, l, sf, eff) == {gg \in 0..MaxGain : Bound(RecodeOf(x, l, sf, gg)) <= eff}
FitsOf(x, l, sf, eff) == {gg \in 0..MaxGain : HuffmanBits(RecodeOf(x, l, sf, gg)) <= eff}

FirstOf(x, l, sf, gg0, eff) ==
    IF gg0 >= MaxGain \/ gg0 \in AdmittedOf(x, l, sf, eff) THEN gg0
    ELSE Bisect(AdmittedOf(x, l, sf, eff), gg0 + 1, MaxGain)

ExactOf(x, l, sf, gg0, eff) ==
    Min({gg \in FirstOf(x, l, sf, gg0, eff)..MaxGain :
            HuffmanBits(RecodeOf(x, l, sf, gg)) <= eff} \cup {MaxGain})

FastOf(x, l, sf, gg0, eff) ==
    LET lo == Bisect(FitsOf(x, l, sf, eff), gg0 + 1, MaxGain)
    IN  IF gg0 >= MaxGain \/ gg0 \in FitsOf(x, l, sf, eff) THEN gg0
        ELSE IF HuffmanBits(RecodeOf(x, l, sf, lo)) <= eff THEN lo
        ELSE ExactOf(x, l, sf, gg0, eff)

GainOf(f, x, l, sf, eff) ==
    IF f THEN FastOf(x, l, sf, MinGainOf(x, l, sf), eff)
    ELSE ExactOf(x, l, sf, MinGainOf(x, l, sf), eff)

LinesOf(f, x, l, sf, eff) == Truncated(RecodeOf(x, l, sf, GainOf(f, x, l, sf, eff)), eff)

\* Everything cached is of the granule's own spectrum.
CacheOwn == \A k \in DOMAIN cache : cache[k] = xr

\* Then codeGranule is that function.
LEMMA GranuleIs ==
    ASSUME CacheOwn, NEW sf, NEW eff
    PROVE  /\ CodeGranule(sf, eff).gain = GainOf(fast, xr, lay, sf, eff)
           /\ CodeGranule(sf, eff).ix = LinesOf(fast, xr, lay, sf, eff)
  <1> DEFINE gg0 == MinGainOf(xr, lay, sf)
  <1>1. MinGlobalGain(sf) = gg0  BY DEF MinGlobalGain, MinGainOf
  <1>2. \A gg : Recode(sf, gg) = RecodeOf(xr, lay, sf, gg)
    BY DEF Recode, RecodeOf
  <1>3. \A gg : CodeAt(sf, gg) = RecodeOf(xr, lay, sf, gg)
    <2>1. ASSUME NEW gg, NEW b \in Bands(lay)
          PROVE  Lines(IF <<b, Extra(sf, lay, b) - gg>> \in DOMAIN cache
                       THEN cache[<<b, Extra(sf, lay, b) - gg>>] ELSE xr,
                       Extra(sf, lay, b) - gg)
                   = Lines(xr, Extra(sf, lay, b) - gg)
      BY DEF CacheOwn
    <2> QED  BY <2>1 DEF CodeAt, RecodeOf
  <1>4. Admitted(sf, eff) = AdmittedOf(xr, lay, sf, eff)
    BY <1>3 DEF Admitted, AdmittedOf
  <1>5. FirstAdmissibleGain(sf, gg0, eff) = FirstOf(xr, lay, sf, gg0, eff)
    BY <1>4 DEF FirstAdmissibleGain, FirstOf
  <1>6. SearchExact(sf, gg0, eff) = ExactOf(xr, lay, sf, gg0, eff)
    <2> DEFINE F == FirstOf(xr, lay, sf, gg0, eff)
               A == {gg \in F..MaxGain : HuffmanBits(CodeAt(sf, gg)) <= eff}
               B == {gg \in F..MaxGain : HuffmanBits(RecodeOf(xr, lay, sf, gg)) <= eff}
    <2>1. A = B  BY <1>3
    <2>2. SearchExact(sf, gg0, eff) = Min(A \cup {MaxGain})  BY <1>5 DEF SearchExact
    <2>3. ExactOf(xr, lay, sf, gg0, eff) = Min(B \cup {MaxGain})  BY DEF ExactOf
    <2> QED  BY <2>1, <2>2, <2>3
  <1> DEFINE e == ExactOf(xr, lay, sf, gg0, eff)
             t == FastOf(xr, lay, sf, gg0, eff)
  <1>7. ChosenExact(sf, gg0, eff) = Chosen(e, RecodeOf(xr, lay, sf, e), TRUE)
    BY <1>3, <1>6 DEF ChosenExact
  <1>8. \E c : ChosenFast(sf, gg0, eff) = Chosen(t, RecodeOf(xr, lay, sf, t), c)
    <2> DEFINE fits == {gg \in 0..MaxGain : HuffmanBits(Recode(sf, gg)) <= eff}
               lo == Bisect(FitsOf(xr, lay, sf, eff), gg0 + 1, MaxGain)
    <2>1. fits = FitsOf(xr, lay, sf, eff)  BY <1>2 DEF FitsOf
    <2>2. ChosenFast(sf, gg0, eff)
            = IF gg0 >= MaxGain \/ gg0 \in FitsOf(xr, lay, sf, eff)
                THEN Chosen(gg0, Recode(sf, gg0), FALSE)
              ELSE IF FitsAt(sf, lo, eff) THEN Chosen(lo, Recode(sf, lo), FALSE)
              ELSE ChosenExact(sf, gg0, eff)
      BY <2>1 DEF ChosenFast
    <2>3. FitsAt(sf, lo, eff) <=> HuffmanBits(RecodeOf(xr, lay, sf, lo)) <= eff
      BY <1>2 DEF FitsAt
    <2>4. t = IF gg0 >= MaxGain \/ gg0 \in FitsOf(xr, lay, sf, eff) THEN gg0
              ELSE IF HuffmanBits(RecodeOf(xr, lay, sf, lo)) <= eff THEN lo ELSE e
      BY DEF FastOf
    <2> HIDE DEF fits, lo, t, e, gg0
    <2>5. CASE gg0 >= MaxGain \/ gg0 \in FitsOf(xr, lay, sf, eff)
      BY <1>2, <2>2, <2>4, <2>5
    <2>6. CASE ~(gg0 >= MaxGain \/ gg0 \in FitsOf(xr, lay, sf, eff)) /\ FitsAt(sf, lo, eff)
      BY <1>2, <2>2, <2>3, <2>4, <2>6
    <2>7. CASE ~(gg0 >= MaxGain \/ gg0 \in FitsOf(xr, lay, sf, eff)) /\ ~FitsAt(sf, lo, eff)
      BY <1>7, <2>2, <2>3, <2>4, <2>7
    <2> QED  BY <2>5, <2>6, <2>7
  <1>9. PICK c : (IF fast THEN ChosenFast(sf, gg0, eff) ELSE ChosenExact(sf, gg0, eff))
                   = Chosen(IF fast THEN t ELSE e,
                            RecodeOf(xr, lay, sf, IF fast THEN t ELSE e), c)
    <2> HIDE DEF t, e, gg0
    <2> QED  BY <1>7, <1>8
  <1> DEFINE g == IF fast THEN t ELSE e
  <1>10. GainOf(fast, xr, lay, sf, eff) = g  BY DEF GainOf
  <1> HIDE DEF g, t, e, gg0
  <1>11. CodeGranule(sf, eff)
           = [Chosen(g, RecodeOf(xr, lay, sf, g), c) EXCEPT !.ix = Truncated(@, eff)]
    BY <1>1, <1>9 DEF CodeGranule, g
  <1> QED  BY <1>10, <1>11 DEF Chosen, LinesOf

\* The coarsest gain is a gain.
LEMMA MinGain ==
    ASSUME NEW x, NEW l, NEW sf
    PROVE  MinGainOf(x, l, sf) \in 0..MaxGain
  <1> DEFINE S == {gg \in 0..MaxGain - 1 :
                      \A b \in Bands(l) : Extra(sf, l, b) - gg <= Spectra[x].peak[b]}
                  \cup {MaxGain}
  <1>1. S \in SUBSET Nat /\ S # {} /\ S \subseteq 0..MaxGain  BY Numbers
  <1>2. Min(S) \in S
    <2> HIDE DEF S
    <2> QED  BY <1>1, MinIs
  <1>3. MinGainOf(x, l, sf) = Min(S)  BY DEF MinGainOf
  <1> HIDE DEF S
  <1> QED  BY <1>1, <1>2, <1>3

\* A larger gain never raises the bound.
LEMMA BoundMonotone ==
    ASSUME NEW x \in DOMAIN Spectra, NEW l \in DOMAIN Layouts, NEW sf \in Sf,
           NEW g \in 0..MaxGain, NEW h \in 0..MaxGain, g <= h
    PROVE  Bound(RecodeOf(x, l, sf, h)) <= Bound(RecodeOf(x, l, sf, g))
  <1> DEFINE ig == RecodeOf(x, l, sf, g)
             ih == RecodeOf(x, l, sf, h)
             v == [b \in Bands(l) |-> FloorOf(ih, b)]
             w == [b \in Bands(l) |-> FloorOf(ig, b)]
  <1>1. ig \in LineSet(x, l) /\ ih \in LineSet(x, l)  BY RecodeLines
  <1>2. DOMAIN ig = Bands(l) /\ DOMAIN ih = Bands(l)  BY DEF RecodeOf
  <1>3. ASSUME NEW b \in Bands(l)
        PROVE  w[b] \in Nat /\ v[b] \in Nat /\ v[b] <= w[b]
    <2> DEFINE q == Extra(sf, l, b) - h
               r == Extra(sf, l, b) - g
    <2>1. q \in -MaxGain..MaxExponent /\ r \in -MaxGain..MaxExponent
      BY RecodeLines
    <2>2. q <= r
      <3> DEFINE e == Extra(sf, l, b)
      <3>1. e \in 0..MaxExponent  BY ExtraBounds
      <3>2. q = e - h /\ r = e - g  OBVIOUS
      <3> HIDE DEF e, q, r
      <3> QED  BY <3>1, <3>2, Numbers
    <2>3. FloorOf(ih, b) = Spectra[x].bits[b][q] /\ FloorOf(ig, b) = Spectra[x].bits[b][r]
      BY DEF FloorOf, RecodeOf, Lines
    <2> HIDE DEF q, r
    <2>4. Spectra[x].bits[b][q] <= Spectra[x].bits[b][r]
      BY <2>1, <2>2, SpectraAssumption
    <2>5. FloorOf(ih, b) \in Nat /\ FloorOf(ig, b) \in Nat
      BY <1>1, HuffmanFacts
    <2>6. v[b] = FloorOf(ih, b) /\ w[b] = FloorOf(ig, b)  OBVIOUS
    <2> HIDE DEF v, w, ig, ih
    <2> QED  BY <2>3, <2>4, <2>5, <2>6
  <1>4. Bound(ih) = SumFunctionOnSet(v, Bands(l)) /\ Bound(ig) = SumFunctionOnSet(w, Bands(l))
    BY <1>2 DEF Bound, SumFunction
  <1>5. IsFiniteSet(Bands(l))  BY LayoutFacts
  <1>6. (\A b \in Bands(l) : w[b] \in Nat)
        /\ (\A b \in Bands(l) : v[b] \in Nat /\ v[b] <= w[b])
    BY <1>3
  <1> HIDE DEF v, w, ig, ih
  <1>7. SumFunctionOnSet(v, Bands(l)) <= SumFunctionOnSet(w, Bands(l))
    BY <1>5, <1>6, SumMono
  <1>8. Bound(ih) <= Bound(ig)  BY <1>4, <1>7
  <1> QED  BY <1>8 DEF ig, ih

\* The exact search begins at a gain before which none fits.
LEMMA FirstFinds ==
    ASSUME NEW x \in DOMAIN Spectra, NEW l \in DOMAIN Layouts, NEW sf \in Sf,
           NEW gg0 \in 0..MaxGain, NEW eff \in Int
    PROVE  /\ FirstOf(x, l, sf, gg0, eff) \in gg0..MaxGain
           /\ \A gg \in gg0..MaxGain : gg < FirstOf(x, l, sf, gg0, eff) =>
                 ~(HuffmanBits(RecodeOf(x, l, sf, gg)) <= eff)
  <1> DEFINE ok == AdmittedOf(x, l, sf, eff)
             F == FirstOf(x, l, sf, gg0, eff)
  <1>1. CASE gg0 >= MaxGain \/ gg0 \in ok
    <2>1. F = gg0  BY <1>1 DEF FirstOf
    <2> HIDE DEF F
    <2>2. \A gg \in gg0..MaxGain : ~(gg < F)  BY <2>1
    <2>3. F \in gg0..MaxGain  BY <2>1
    <2> QED  BY <2>2, <2>3 DEF F
  <1>2. CASE ~(gg0 >= MaxGain \/ gg0 \in ok)
    <2> DEFINE lo == gg0 + 1
    <2>1. lo \in Int /\ MaxGain \in Int /\ lo <= MaxGain /\ gg0 < MaxGain
      BY <1>2, Numbers
    <2>2. F = Bisect(ok, lo, MaxGain)  BY <1>2 DEF FirstOf
    <2>3. ASSUME NEW g \in lo..MaxGain, NEW h \in lo..MaxGain, g <= h, g \in ok
          PROVE  h \in ok
      <3>1. g \in 0..MaxGain /\ h \in 0..MaxGain  BY <2>1
      <3>2. Bound(RecodeOf(x, l, sf, h)) <= Bound(RecodeOf(x, l, sf, g))
        BY <2>3, <3>1, BoundMonotone
      <3>3. Bound(RecodeOf(x, l, sf, g)) <= eff  BY <2>3 DEF AdmittedOf
      <3>4. Bound(RecodeOf(x, l, sf, h)) \in Nat /\ Bound(RecodeOf(x, l, sf, g)) \in Nat
        BY <3>1, RecodeLines, HuffmanFacts
      <3>5. Bound(RecodeOf(x, l, sf, h)) <= eff  BY <3>2, <3>3, <3>4
      <3> QED  BY <3>1, <3>5 DEF AdmittedOf
    <2> HIDE DEF ok, lo
    <2>4. /\ Bisect(ok, lo, MaxGain) \in lo..MaxGain
          /\ \A g \in lo..MaxGain : g < Bisect(ok, lo, MaxGain) => g \notin ok
      BY <2>1, <2>3, BisectFinds
    <2> HIDE DEF F
    <2>5. F \in gg0..MaxGain  BY <2>1, <2>2, <2>4 DEF lo
    <2>6. ASSUME NEW gg \in gg0..MaxGain, gg < F
          PROVE  ~(HuffmanBits(RecodeOf(x, l, sf, gg)) <= eff)
      <3>1. gg \notin ok
        <4>1. CASE gg = gg0  BY <1>2, <4>1
        <4>2. CASE gg # gg0
          <5>1. gg \in lo..MaxGain  BY <4>2, <2>1 DEF lo
          <5> QED  BY <2>2, <2>4, <2>6, <5>1
        <4> QED  BY <4>1, <4>2
      <3>2. gg \in 0..MaxGain  BY Numbers
      <3>3. ~(Bound(RecodeOf(x, l, sf, gg)) <= eff)  BY <3>1, <3>2 DEF ok, AdmittedOf
      <3> DEFINE B == Bound(RecodeOf(x, l, sf, gg))
                 H == HuffmanBits(RecodeOf(x, l, sf, gg))
      <3>4. B \in Nat /\ H \in Nat /\ B <= H
        BY <3>2, RecodeLines, HuffmanFacts
      <3>5. ~(B <= eff)  BY <3>3
      <3> HIDE DEF B, H
      <3>6. ~(H <= eff)  BY <3>4, <3>5
      <3> QED  BY <3>6 DEF H
    <2> QED  BY <2>5, <2>6 DEF F
  <1> QED  BY <1>1, <1>2

\* The gains that fit, from the coarsest on.
Fitting(x, l, sf, eff) ==
    {gg \in MinGainOf(x, l, sf)..MaxGain : HuffmanBits(RecodeOf(x, l, sf, gg)) <= eff}

LEMMA ExactFinds ==
    ASSUME NEW x \in DOMAIN Spectra, NEW l \in DOMAIN Layouts, NEW sf \in Sf, NEW eff \in Int
    PROVE  LET e == ExactOf(x, l, sf, MinGainOf(x, l, sf), eff)
           IN  /\ e \in 0..MaxGain
               /\ Fitting(x, l, sf, eff) = {} => e = MaxGain
               /\ Fitting(x, l, sf, eff) # {} =>
                    e \in Fitting(x, l, sf, eff) /\ e = Min(Fitting(x, l, sf, eff))
  <1> DEFINE gg0 == MinGainOf(x, l, sf)
             F == FirstOf(x, l, sf, gg0, eff)
             fits == Fitting(x, l, sf, eff)
             A == {gg \in F..MaxGain : HuffmanBits(RecodeOf(x, l, sf, gg)) <= eff}
             e == ExactOf(x, l, sf, gg0, eff)
  <1>1. gg0 \in 0..MaxGain  BY MinGain
  <1>2. /\ F \in gg0..MaxGain
        /\ \A gg \in gg0..MaxGain : gg < F => ~(HuffmanBits(RecodeOf(x, l, sf, gg)) <= eff)
    <2> HIDE DEF gg0
    <2> QED  BY <1>1, FirstFinds
  <1>3. e = Min(A \cup {MaxGain})  BY DEF ExactOf
  <1>4. A = fits
    <2> HIDE DEF F, gg0
    <2>1. fits = {gg \in gg0..MaxGain : HuffmanBits(RecodeOf(x, l, sf, gg)) <= eff}
      BY DEF Fitting, gg0
    <2>2. A \subseteq fits
      <3>1. F..MaxGain \subseteq gg0..MaxGain  BY <1>1, <1>2, Numbers
      <3> QED  BY <2>1, <3>1
    <2>3. ASSUME NEW gg \in fits PROVE gg \in A
      <3>1. gg \in gg0..MaxGain /\ HuffmanBits(RecodeOf(x, l, sf, gg)) <= eff  BY <2>1
      <3>2. ~(gg < F)  BY <1>2, <3>1
      <3>3. gg \in F..MaxGain  BY <1>1, <1>2, <3>1, <3>2, Numbers
      <3> QED  BY <3>1, <3>3
    <2> QED  BY <2>2, <2>3
  <1>5. fits \in SUBSET Nat /\ \A gg \in fits : gg <= MaxGain
    <2> HIDE DEF gg0
    <2>1. fits \subseteq gg0..MaxGain  BY DEF Fitting, gg0
    <2> HIDE DEF fits
    <2> QED  BY <1>1, <2>1, Numbers
  <1> DEFINE B == fits \cup {MaxGain}
  <1>6. B \in SUBSET Nat /\ B # {} /\ B \subseteq 0..MaxGain
    <2> HIDE DEF fits
    <2> QED  BY <1>5, Numbers
  <1>7. Min(B) \in B /\ \A y \in B : Min(B) <= y
    <2> HIDE DEF B
    <2> QED  BY <1>6, MinIs
  <1>8. e = Min(B)
    <2> HIDE DEF e, A, fits
    <2> QED  BY <1>3, <1>4
  <1>9. CASE fits = {}
    <2> HIDE DEF e, fits, gg0
    <2>1. e = MaxGain  BY <1>7, <1>8, <1>9
    <2> QED  BY <1>9, <2>1, Numbers DEF e, fits, gg0
  <1>10. CASE fits # {}
    <2>1. Min(fits) \in fits /\ \A y \in fits : Min(fits) <= y
      <3> HIDE DEF fits
      <3> QED  BY <1>5, <1>10, MinIs
    <2> DEFINE m == Min(fits)
    <2>2. e \in B /\ \A y \in B : e <= y
      <3> HIDE DEF e, B
      <3> QED  BY <1>7, <1>8
    <2>3. m \in fits /\ \A y \in fits : m <= y  BY <2>1
    <2> HIDE DEF e, fits, m, gg0
    <2>4. e \in Nat /\ m \in Nat /\ e <= m /\ e <= MaxGain /\ m <= MaxGain
      BY <1>5, <1>6, <2>2, <2>3
    <2>5. m <= e
      <3>1. CASE e \in fits  BY <2>3, <3>1
      <3>2. CASE e = MaxGain  BY <2>4, <3>2
      <3> QED  BY <2>2, <3>1, <3>2
    <2>6. e = m  BY <2>4, <2>5
    <2>7. e \in 0..MaxGain /\ e \in fits /\ e = Min(fits)
      BY <2>3, <2>4, <2>6, Numbers DEF m
    <2> QED  BY <1>10, <2>7 DEF e, fits, gg0
  <1> QED  BY <1>9, <1>10

LEMMA FastFinds ==
    ASSUME NEW x \in DOMAIN Spectra, NEW l \in DOMAIN Layouts, NEW sf \in Sf, NEW eff \in Int
    PROVE  LET t == FastOf(x, l, sf, MinGainOf(x, l, sf), eff)
           IN  /\ t \in 0..MaxGain
               /\ Fitting(x, l, sf, eff) = {} => t = MaxGain
               /\ Fitting(x, l, sf, eff) # {} => t \in Fitting(x, l, sf, eff)
  <1> DEFINE gg0 == MinGainOf(x, l, sf)
             ok == FitsOf(x, l, sf, eff)
             lo == Bisect(ok, gg0 + 1, MaxGain)
             fits == Fitting(x, l, sf, eff)
             H(gg) == HuffmanBits(RecodeOf(x, l, sf, gg))
             t == FastOf(x, l, sf, gg0, eff)
  <1>1. gg0 \in 0..MaxGain  BY MinGain
  <1>2. fits = {gg \in gg0..MaxGain : H(gg) <= eff}  BY DEF Fitting
  <1>3. CASE gg0 >= MaxGain
    <2>1. t = gg0  BY <1>3 DEF FastOf
    <2> HIDE DEF t, gg0, fits, H
    <2>2. gg0 = MaxGain  BY <1>1, <1>3, Numbers
    <2>3. fits \subseteq {MaxGain}  BY <1>2, <2>2, Numbers
    <2>4. /\ t \in 0..MaxGain /\ (fits = {} => t = MaxGain) /\ (fits # {} => t \in fits)
      BY <1>1, <2>1, <2>2, <2>3
    <2> QED  BY <2>4 DEF t, gg0, fits
  <1>4. CASE ~(gg0 >= MaxGain) /\ gg0 \in ok
    <2>1. t = gg0  BY <1>4 DEF FastOf
    <2>2. H(gg0) <= eff  BY <1>4 DEF FitsOf
    <2> HIDE DEF t, gg0, fits, H
    <2>3. gg0 \in gg0..MaxGain  BY <1>1, Numbers
    <2>4. gg0 \in fits  BY <1>2, <2>2, <2>3
    <2>5. /\ t \in 0..MaxGain /\ (fits = {} => t = MaxGain) /\ (fits # {} => t \in fits)
      BY <1>1, <2>1, <2>4
    <2> QED  BY <2>5 DEF t, gg0, fits
  <1>5. CASE ~(gg0 >= MaxGain) /\ gg0 \notin ok /\ H(lo) <= eff
    <2>1. t = lo  BY <1>5 DEF FastOf
    <2> DEFINE n == gg0 + 1
    <2>2. n \in Int /\ MaxGain \in Int /\ n <= MaxGain
      <3> HIDE DEF gg0
      <3> QED  BY <1>1, <1>5, Numbers
    <2>3. Bisect(ok, n, MaxGain) \in n..MaxGain
      <3> HIDE DEF n, ok
      <3> QED  BY <2>2, BisectFinds
    <2>4. lo \in (gg0 + 1)..MaxGain  BY <2>3
    <2> HIDE DEF t, gg0, fits, H, lo
    <2>5. lo \in gg0..MaxGain /\ lo \in 0..MaxGain  BY <1>1, <2>4, Numbers
    <2>6. lo \in fits  BY <1>2, <1>5, <2>5
    <2>7. /\ t \in 0..MaxGain /\ (fits = {} => t = MaxGain) /\ (fits # {} => t \in fits)
      BY <2>1, <2>5, <2>6
    <2> QED  BY <2>7 DEF t, gg0, fits
  <1>6. CASE ~(gg0 >= MaxGain) /\ gg0 \notin ok /\ ~(H(lo) <= eff)
    <2>1. t = ExactOf(x, l, sf, gg0, eff)  BY <1>6 DEF FastOf
    <2> QED  BY <2>1, ExactFinds
  <1> QED  BY <1>3, <1>4, <1>5, <1>6

\* Zeroing bands from the top: within the budget, and nothing if nothing need be.
LEMMA TruncatedFacts ==
    ASSUME NEW x \in DOMAIN Spectra, NEW l \in DOMAIN Layouts, NEW ix \in LineSet(x, l),
           NEW eff \in Nat
    PROVE  /\ Truncated(ix, eff) \in LineSet(x, l)
           /\ HuffmanBits(Truncated(ix, eff)) <= eff
           /\ HuffmanBits(ix) <= eff => Truncated(ix, eff) = ix
  <1> DEFINE n == Layouts[l].n
             upTo(k) == [b \in DOMAIN ix |-> IF b <= k THEN ix[b] ELSE Lines(ix[b].of, Zeroed)]
             K == {k \in 0..Len(ix) : HuffmanBits(upTo(k)) <= eff}
  <1>1. n \in Nat /\ Bands(l) = 1..n  BY LayoutFacts DEF Bands
  <1>2. DOMAIN ix = 1..n  BY <1>1 DEF LineSet
  <1>3. Len(ix) = n
    <2> DEFINE T == [of : {x}, q : Exponents]
    <2>0. ix \in [1..n -> T]  BY <1>1 DEF LineSet
    <2>1. ix \in Seq(T)
      <3> HIDE DEF n, T
      <3> QED  BY <1>1, <2>0
    <2> HIDE DEF n
    <2> QED  BY <1>1, <1>2, <2>1
  <1>4. ASSUME NEW k \in 0..n PROVE upTo(k) \in LineSet(x, l)
    <2>1. Zeroed \in Exponents  BY Numbers DEF Exponents
    <2>2. ASSUME NEW b \in Bands(l)
          PROVE  ix[b] \in [of : {x}, q : Exponents]
                 /\ Lines(ix[b].of, Zeroed) \in [of : {x}, q : Exponents]
      BY <2>1 DEF LineSet, Lines
    <2> QED  BY <1>1, <1>2, <2>2 DEF LineSet
  <1>5. 0 \in K
    <2>1. 0 \in 0..n  BY <1>1
    <2> DEFINE z == upTo(0)
    <2>2. z \in LineSet(x, l)  BY <1>4, <2>1
    <2>3. ASSUME NEW b \in Bands(l) PROVE FloorOf(z, b) = 0
      <3>1. b \in 1..n /\ ~(b <= 0)  BY <1>1
      <3>2. z[b] = Lines(ix[b].of, Zeroed)  BY <1>2, <3>1
      <3>3. ix[b].of = x  BY DEF LineSet
      <3> HIDE DEF z
      <3>4. FloorOf(z, b) = Spectra[x].bits[b][Zeroed]  BY <3>2, <3>3 DEF FloorOf, Lines
      <3> QED  BY <3>4, SpectraAssumption
    <2>4. HuffmanBits(z) = 0
      <3> HIDE DEF z
      <3> QED  BY <2>2, <2>3, HuffmanFacts
    <2> QED  BY <1>3, <2>1, <2>4
  <1>6. K \in SUBSET Nat /\ K # {} /\ \A k \in K : k <= n /\ k \in 0..n
    <2> HIDE DEF upTo, n
    <2> QED  BY <1>1, <1>3, <1>5
  <1> DEFINE m == Max(K)
  <1>7. m \in K /\ \A k \in K : m >= k
    <2> HIDE DEF K, n
    <2> QED  BY <1>1, <1>6, MaxIs
  <1>8. Truncated(ix, eff) = upTo(m)  BY DEF Truncated
  <1>9. m \in 0..n /\ HuffmanBits(upTo(m)) <= eff  BY <1>6, <1>7
  <1>10. ASSUME HuffmanBits(ix) <= eff PROVE upTo(m) = ix
    <2>1. upTo(n) = ix
      <3>1. ix = [b \in DOMAIN ix |-> ix[b]]  BY DEF LineSet
      <3>2. \A b \in DOMAIN ix : b <= n
        <4> HIDE DEF n
        <4> QED  BY <1>1, <1>2
      <3> HIDE DEF n
      <3> QED  BY <3>1, <3>2
    <2>2. n \in K
      <3> DEFINE u == upTo(n)
      <3>1. HuffmanBits(u) <= eff
        <4> HIDE DEF u
        <4> QED  BY <1>10, <2>1 DEF u
      <3>2. n \in 0..Len(ix)
        <4> HIDE DEF n
        <4> QED  BY <1>1, <1>3
      <3> QED  BY <3>1, <3>2
    <2>3. m = n
      <3> HIDE DEF m, n, K
      <3> QED  BY <1>1, <1>7, <1>9, <2>2
    <2> HIDE DEF upTo, m, n
    <2> QED  BY <2>1, <2>3
  <1>11. upTo(m) \in LineSet(x, l)
    <2> HIDE DEF upTo, m
    <2> QED  BY <1>4, <1>9
  <1> HIDE DEF upTo, m
  <1> QED  BY <1>8, <1>9, <1>10, <1>11

\* What a coding promises about its gain and lines.
Fits(f, x, l, sf, eff, gain, ix) ==
    /\ HuffmanBits(ix) <= eff
    /\ Fitting(x, l, sf, eff) = {} => gain = MaxGain
    /\ Fitting(x, l, sf, eff) # {} =>
          /\ gain \in Fitting(x, l, sf, eff) /\ ix = RecodeOf(x, l, sf, gain)
          /\ f \/ gain = Min(Fitting(x, l, sf, eff))

LEMMA GranuleFits ==
    ASSUME NEW f \in BOOLEAN, NEW x \in DOMAIN Spectra, NEW l \in DOMAIN Layouts,
           NEW sf \in Sf, NEW eff \in Nat
    PROVE  /\ GainOf(f, x, l, sf, eff) \in 0..MaxGain
           /\ LinesOf(f, x, l, sf, eff) \in LineSet(x, l)
           /\ Fits(f, x, l, sf, eff, GainOf(f, x, l, sf, eff), LinesOf(f, x, l, sf, eff))
  <1> DEFINE g == GainOf(f, x, l, sf, eff)
             fits == Fitting(x, l, sf, eff)
             ix == RecodeOf(x, l, sf, g)
  <1>1. /\ g \in 0..MaxGain /\ (fits = {} => g = MaxGain)
        /\ fits # {} => g \in fits /\ (f \/ g = Min(fits))
    <2>0. eff \in Int  OBVIOUS
    <2>1. CASE f
      <3>1. g = FastOf(x, l, sf, MinGainOf(x, l, sf), eff)  BY <2>1 DEF GainOf
      <3>2. g \in 0..MaxGain /\ (fits = {} => g = MaxGain) /\ (fits # {} => g \in fits)
        BY <2>0, <3>1, FastFinds
      <3> QED  BY <2>1, <3>2
    <2>2. CASE ~f
      <3>1. g = ExactOf(x, l, sf, MinGainOf(x, l, sf), eff)  BY <2>2 DEF GainOf
      <3> QED  BY <2>0, <3>1, ExactFinds
    <2> QED  BY <2>1, <2>2
  <1>2. ix \in LineSet(x, l)
    <2> HIDE DEF g
    <2> QED  BY <1>1, RecodeLines
  <1> DEFINE t == Truncated(ix, eff)
  <1>3. /\ t \in LineSet(x, l) /\ HuffmanBits(t) <= eff
        /\ HuffmanBits(ix) <= eff => t = ix
    <2> HIDE DEF ix
    <2> QED  BY <1>2, TruncatedFacts
  <1>4. LinesOf(f, x, l, sf, eff) = t  BY DEF LinesOf
  <1>5. fits # {} => t = RecodeOf(x, l, sf, g)
    <2>1. ASSUME g \in fits PROVE HuffmanBits(ix) <= eff
      BY <2>1 DEF Fitting
    <2> HIDE DEF t, fits
    <2> QED  BY <1>1, <1>3, <2>1
  <1> HIDE DEF t, g
  <1> QED  BY <1>1, <1>3, <1>4, <1>5 DEF Fits, g

-----------------------------------------------------------------------------
(* The inductive invariant. *)

AnyLines == UNION {LineSet(s, l) : s \in DOMAIN Spectra, l \in DOMAIN Layouts}

CodingType ==
    [set : {TRUE}, sf : Sf, lay : DOMAIN Layouts, compress : DOMAIN SlenTab,
     scfsi : {{}}, part2 : Nat, part23 : Nat, eff : Nat, gain : 0..MaxGain, ix : AnyLines]

\* Every scalefactor fits its field, and the bits are those of the fields and lines.
Coding(c) ==
    /\ c \in CodingType
    /\ \A b \in ScfBands(c.lay) : c.sf.scf[b] < 2^Width(c.compress, c.lay, b)
    /\ c.part2 = FieldBits(c.compress, c.lay, ScfBands(c.lay))
    /\ c.part23 = c.part2 + HuffmanBits(c.ix)
    /\ c.part23 <= MaxPart23Length

Codings == {c \in CodingType : Coding(c)}

\* A coding of the granule of spectrum x in layout l.
OwnOf(f, x, l, c) ==
    /\ Coding(c) /\ c.lay = l /\ c.ix \in LineSet(x, l)
    /\ Fits(f, x, l, c.sf, c.eff, c.gain, c.ix)

PlainOf(f, x, l, bits) == LinesOf(f, x, l, NoScalefactors, MinOf(bits, MaxPart23Length))

NoWorseOf(f, x, l, bits, c) == ~Better(Metrics(PlainOf(f, x, l, bits)), Metrics(c.ix))

LoopType(l) ==
    [sf : Sf, unfixable : SUBSET Nat, prev : {<<>>} \cup [Bands(l) -> Nat], pending : Nat,
     noise : Nat, ssg : BOOLEAN, iters : Nat, best : {NoCoding} \cup CodingType]

\* The first pass is plain, and ever after there is a best pass no worse than it.
LoopOf(f, x, l, bits, loop) ==
    /\ loop \in LoopType(l)
    /\ loop.best = NoCoding =>
          loop.sf = NoScalefactors /\ loop.prev = <<>> /\ loop.pending = None /\ loop.iters = 1
    /\ loop.best # NoCoding => OwnOf(f, x, l, loop.best) /\ NoWorseOf(f, x, l, bits, loop.best)

GranuleInv ==
    /\ xr \in DOMAIN Spectra /\ lay \in DOMAIN Layouts /\ budget \in Budgets

IInv ==
    /\ fast \in BOOLEAN /\ at \in {"idle", "loop", "coded"}
    /\ CacheOwn
    /\ at # "coded" => gr \in Seq(Codings)
    /\ ScalefactorsSurvive
    /\ gc = NoCoding \/ OwnOf(fast, xr, lay, gc)
    /\ at = "loop" \/ gc # NoCoding => GranuleInv
    /\ at # "loop" /\ gc # NoCoding => NoWorseOf(fast, xr, lay, budget, gc)
    /\ at = "loop" => LoopOf(fast, xr, lay, budget, o)

LEMMA CodingSet ==
    ASSUME NEW c \in CodingType
    PROVE  c # NoCoding /\ c.set
  <1>1. c.set = TRUE  BY DEF CodingType
  <1>2. NoCoding.set = FALSE  BY DEF NoCoding
  <1> QED  BY <1>1, <1>2

LEMMA NoCodingSet == NoCoding.set = FALSE
  BY DEF NoCoding

-----------------------------------------------------------------------------
(* Amplification keeps the scalefactors in their range. *)

LEMMA SfFields ==
    ASSUME NEW sf \in Sf
    PROVE  /\ sf.scf \in [DOMAIN Pretab -> 0..SfMax]
           /\ sf.ssg \in [Windows -> 0..MaxSubblockGain]
           /\ sf.scale \in {0, 1} /\ sf.preflag \in {0, 1}
           /\ DOMAIN sf.scf = DOMAIN Pretab
           /\ sf = [scf |-> sf.scf, ssg |-> sf.ssg, scale |-> sf.scale,
                    preflag |-> sf.preflag]
  BY DEF Sf

LEMMA PreflagType ==
    ASSUME NEW sf \in Sf, lay \in DOMAIN Layouts
    PROVE  Preflag(sf) \in Sf
  <1> DEFINE ready == ~IsShort(lay) /\ sf.preflag = 0
                      /\ \A b \in HiBands : sf.scf[b] >= Pretab[b]
             scf == [b \in DOMAIN sf.scf |-> IF b \in HiBands THEN sf.scf[b] - Pretab[b]
                                             ELSE sf.scf[b]]
  <1>1. CASE ready
    <2>1. ASSUME NEW b \in DOMAIN Pretab PROVE scf[b] \in 0..SfMax
      <3> DEFINE x == sf.scf[b]
                 p == Pretab[b]
      <3>1. x \in 0..SfMax /\ p \in Nat  BY SfFields, ScalefactorAssumption
      <3>2. scf[b] = IF b \in HiBands THEN x - p ELSE x  BY SfFields
      <3>3. b \in HiBands => x >= p  BY <1>1
      <3> HIDE DEF x, p, scf
      <3> QED  BY <3>1, <3>2, <3>3, Numbers
    <2>2. scf \in [DOMAIN Pretab -> 0..SfMax]
      <3>1. scf = [b \in DOMAIN Pretab |-> scf[b]]  BY SfFields
      <3> HIDE DEF scf
      <3> QED  BY <2>1, <3>1
    <2>3. Preflag(sf) = [sf EXCEPT !.preflag = 1, !.scf = scf]
      BY <1>1 DEF Preflag
    <2> HIDE DEF scf
    <2>4. Preflag(sf) = [scf |-> scf, ssg |-> sf.ssg, scale |-> sf.scale, preflag |-> 1]
      BY <2>3, SfFields
    <2> QED  BY <2>2, <2>4, SfFields DEF Sf
  <1>2. CASE ~ready
    <2>1. Preflag(sf) = sf  BY <1>2 DEF Preflag
    <2> QED  BY <2>1
  <1> QED  BY <1>1, <1>2

LEMMA RaiseType ==
    ASSUME NEW sf \in Sf, NEW w \in DOMAIN Pretab, sf.scf[w] < SfMax
    PROVE  [sf EXCEPT !.scf[w] = @ + 1] \in Sf
  <1> DEFINE scf == [sf.scf EXCEPT ![w] = @ + 1]
  <1>1. sf.scf[w] + 1 \in 0..SfMax
    <2> DEFINE x == sf.scf[w]
    <2>1. x \in 0..SfMax /\ x < SfMax  BY SfFields
    <2> HIDE DEF x
    <2>2. x + 1 \in 0..SfMax  BY <2>1, Numbers
    <2> QED  BY <2>2 DEF x
  <1>2. scf \in [DOMAIN Pretab -> 0..SfMax]  BY <1>1, SfFields
  <1>3. [sf EXCEPT !.scf[w] = @ + 1]
          = [scf |-> scf, ssg |-> sf.ssg, scale |-> sf.scale, preflag |-> sf.preflag]
    BY SfFields
  <1> HIDE DEF scf
  <1> QED  BY <1>2, <1>3, SfFields DEF Sf

LEMMA RescaleType ==
    ASSUME NEW sf \in Sf
    PROVE  [sf EXCEPT !.scale = 1,
                      !.scf = [b \in DOMAIN @ |-> IF b \in ScfBands(lay)
                                                  THEN (@[b] + 1) \div 2 ELSE @[b]]] \in Sf
  <1> DEFINE scf == [b \in DOMAIN sf.scf |-> IF b \in ScfBands(lay)
                                             THEN (sf.scf[b] + 1) \div 2 ELSE sf.scf[b]]
  <1>1. ASSUME NEW b \in DOMAIN Pretab PROVE scf[b] \in 0..SfMax
    <2> DEFINE x == sf.scf[b]
    <2>1. x \in 0..SfMax  BY SfFields
    <2>2. scf[b] = IF b \in ScfBands(lay) THEN (x + 1) \div 2 ELSE x  BY SfFields
    <2> HIDE DEF x, scf
    <2>3. (x + 1) \div 2 \in 0..SfMax  BY <2>1, Numbers
    <2> QED  BY <2>1, <2>2, <2>3
  <1>2. scf \in [DOMAIN Pretab -> 0..SfMax]
    <2>1. scf = [b \in DOMAIN Pretab |-> scf[b]]  BY SfFields
    <2> HIDE DEF scf
    <2> QED  BY <1>1, <2>1
  <1>3. [sf EXCEPT !.scale = 1,
                   !.scf = [b \in DOMAIN @ |-> IF b \in ScfBands(lay)
                                               THEN (@[b] + 1) \div 2 ELSE @[b]]]
          = [scf |-> scf, ssg |-> sf.ssg, scale |-> 1, preflag |-> sf.preflag]
    <2>1. [sf EXCEPT !.scale = 1,
                     !.scf = [b \in DOMAIN @ |-> IF b \in ScfBands(lay)
                                                 THEN (@[b] + 1) \div 2 ELSE @[b]]]
            = [sf EXCEPT !.scale = 1, !.scf = scf]
      OBVIOUS
    <2>2. [sf EXCEPT !.scale = 1, !.scf = scf]
            = [scf |-> scf, ssg |-> sf.ssg, scale |-> 1, preflag |-> sf.preflag]
      <3> DEFINE s == [sf EXCEPT !.scale = 1]
      <3> HIDE DEF scf
      <3>1. [sf EXCEPT !.scale = 1, !.scf = scf] = [s EXCEPT !.scf = scf]  OBVIOUS
      <3>2. s = [scf |-> sf.scf, ssg |-> sf.ssg, scale |-> 1, preflag |-> sf.preflag]
        BY SfFields
      <3> HIDE DEF s
      <3>3. [s EXCEPT !.scf = scf]
              = [scf |-> scf, ssg |-> sf.ssg, scale |-> 1, preflag |-> sf.preflag]
        BY <3>2
      <3> QED  BY <3>1, <3>3, Zenon
    <2> QED  BY <2>1, <2>2, Zenon
  <1> HIDE DEF scf
  <1> QED  BY <1>2, <1>3, SfFields DEF Sf

LEMMA EscalateType ==
    ASSUME NEW sf \in Sf, lay \in DOMAIN Layouts, NEW w \in ScfBands(lay), IsShort(lay),
           sf.ssg[Layouts[lay].win[w]] < MaxSubblockGain
    PROVE  EscalateSubblockGain(sf, w) \in Sf
  <1> DEFINE win == Layouts[lay].win
             v == win[w]
             giveBack == 8 \div (2 * (sf.scale + 1))
             scf == [b \in DOMAIN sf.scf |-> IF b \in ScfBands(lay) /\ win[b] = win[w]
                                             THEN MaxOf(sf.scf[b] - giveBack, 0) ELSE sf.scf[b]]
             ssg == [sf.ssg EXCEPT ![v] = @ + 1]
  <1>1. v \in Windows
    <2>1. w \in Bands(lay)  BY LayoutFacts
    <2> QED  BY <2>1, LayoutAssumption
  <1>2. giveBack \in Nat
    <2> DEFINE s == sf.scale
    <2>1. s \in {0, 1}  BY SfFields
    <2>2. giveBack = 8 \div (2 * (s + 1))  OBVIOUS
    <2> HIDE DEF s, giveBack
    <2>3. CASE s = 0  BY <2>2, <2>3
    <2>4. CASE s = 1  BY <2>2, <2>4
    <2> QED  BY <2>1, <2>3, <2>4
  <1>3. ASSUME NEW b \in DOMAIN Pretab PROVE scf[b] \in 0..SfMax
    <2> DEFINE x == sf.scf[b]
    <2>1. x \in 0..SfMax  BY SfFields
    <2>2. scf[b] = IF b \in ScfBands(lay) /\ win[b] = win[w] THEN MaxOf(x - giveBack, 0) ELSE x
      BY SfFields
    <2> HIDE DEF x, scf, giveBack, win
    <2>3. MaxOf(x - giveBack, 0) \in 0..SfMax  BY <1>2, <2>1, Numbers DEF MaxOf
    <2> QED  BY <2>1, <2>2, <2>3
  <1>4. scf \in [DOMAIN Pretab -> 0..SfMax]
    <2>1. scf = [b \in DOMAIN Pretab |-> scf[b]]  BY SfFields
    <2> HIDE DEF scf
    <2> QED  BY <1>3, <2>1
  <1>5. ssg \in [Windows -> 0..MaxSubblockGain]
    <2> DEFINE y == sf.ssg[v]
    <2>1. y \in 0..MaxSubblockGain /\ y < MaxSubblockGain  BY <1>1, SfFields
    <2>2. ssg = [sf.ssg EXCEPT ![v] = y + 1]  BY <1>1, SfFields
    <2> HIDE DEF y, v, ssg
    <2>3. y + 1 \in 0..MaxSubblockGain  BY <2>1, Numbers
    <2> QED  BY <1>1, <2>2, <2>3, SfFields
  <1>6. EscalateSubblockGain(sf, w)
          = [scf |-> scf, ssg |-> ssg, scale |-> sf.scale, preflag |-> sf.preflag]
    <2>1. EscalateSubblockGain(sf, w) = [sf EXCEPT !.ssg[v] = @ + 1, !.scf = scf]
      BY DEF EscalateSubblockGain
    <2>2. [sf EXCEPT !.ssg[v] = @ + 1, !.scf = scf] = [sf EXCEPT !.ssg = ssg, !.scf = scf]
      <3> HIDE DEF scf, v
      <3> QED  OBVIOUS
    <2> DEFINE s == [sf EXCEPT !.ssg = ssg]
    <2> HIDE DEF scf, ssg, v
    <2>3. [sf EXCEPT !.ssg = ssg, !.scf = scf] = [s EXCEPT !.scf = scf]  OBVIOUS
    <2>4. s = [scf |-> sf.scf, ssg |-> ssg, scale |-> sf.scale, preflag |-> sf.preflag]
      BY SfFields
    <2> HIDE DEF s
    <2>5. [s EXCEPT !.scf = scf]
            = [scf |-> scf, ssg |-> ssg, scale |-> sf.scale, preflag |-> sf.preflag]
      BY <2>4
    <2> QED  BY <2>1, <2>2, <2>3, <2>5, Zenon
  <1> HIDE DEF scf, ssg
  <1> QED  BY <1>4, <1>5, <1>6, SfFields DEF Sf

LEMMA LoopFields ==
    ASSUME NEW k \in LoopType(lay)
    PROVE  /\ k.sf \in Sf /\ k.unfixable \in SUBSET Nat
           /\ k.prev \in {<<>>} \cup [Bands(lay) -> Nat]
           /\ k.pending \in Nat /\ k.noise \in Nat /\ k.ssg \in BOOLEAN /\ k.iters \in Nat
           /\ k.best \in {NoCoding} \cup CodingType
           /\ k = [sf |-> k.sf, unfixable |-> k.unfixable, prev |-> k.prev,
                   pending |-> k.pending, noise |-> k.noise, ssg |-> k.ssg,
                   iters |-> k.iters, best |-> k.best]
  BY DEF LoopType

LEMMA LoopExcept ==
    ASSUME NEW k \in LoopType(lay), NEW a, NEW b
    PROVE  /\ [k EXCEPT !.pending = a, !.noise = b]
                = [sf |-> k.sf, unfixable |-> k.unfixable, prev |-> k.prev,
                   pending |-> a, noise |-> b, ssg |-> k.ssg,
                   iters |-> k.iters, best |-> k.best]
           /\ [k EXCEPT !.unfixable = a]
                = [sf |-> k.sf, unfixable |-> a, prev |-> k.prev,
                   pending |-> k.pending, noise |-> k.noise, ssg |-> k.ssg,
                   iters |-> k.iters, best |-> k.best]
  <1> DEFINE s == [k EXCEPT !.pending = a]
  <1>1. s = [sf |-> k.sf, unfixable |-> k.unfixable, prev |-> k.prev,
             pending |-> a, noise |-> k.noise, ssg |-> k.ssg,
             iters |-> k.iters, best |-> k.best]
    BY LoopFields
  <1>2. [k EXCEPT !.pending = a, !.noise = b] = [s EXCEPT !.noise = b]  OBVIOUS
  <1>3. [k EXCEPT !.unfixable = a]
          = [sf |-> k.sf, unfixable |-> a, prev |-> k.prev,
             pending |-> k.pending, noise |-> k.noise, ssg |-> k.ssg,
             iters |-> k.iters, best |-> k.best]
    BY LoopFields
  <1> HIDE DEF s
  <1>4. [s EXCEPT !.noise = b]
          = [sf |-> k.sf, unfixable |-> k.unfixable, prev |-> k.prev,
             pending |-> a, noise |-> b, ssg |-> k.ssg,
             iters |-> k.iters, best |-> k.best]
    BY <1>1
  <1> QED  BY <1>2, <1>3, <1>4

\* Whatever is done about the worst band, the locals stay typed and the best pass kept.
LEMMA AmplifyType ==
    ASSUME lay \in DOMAIN Layouts, NEW k \in LoopType(lay), NEW w \in ScfBands(lay),
           NEW noise \in Nat
    PROVE  /\ Amplify(k, w, noise) \in LoopType(lay)
           /\ Amplify(k, w, noise).best = k.best
  <1> DEFINE sf == k.sf
             amplified == [k EXCEPT !.pending = w, !.noise = noise]
             next ==
                CASE sf.scf[w] < SfCap(w) -> [amplified EXCEPT !.sf.scf[w] = @ + 1]
                  [] sf.scf[w] >= SfCap(w) /\ sf.scale = 0 ->
                        [amplified EXCEPT
                            !.sf.scale = 1,
                            !.sf.scf = [b \in DOMAIN @ |-> IF b \in ScfBands(lay)
                                                           THEN (@[b] + 1) \div 2 ELSE @[b]]]
                  [] sf.scf[w] >= SfCap(w) /\ sf.scale = 1
                     /\ IsShort(lay) /\ sf.ssg[Layouts[lay].win[w]] < MaxSubblockGain ->
                        [k EXCEPT !.sf = EscalateSubblockGain(sf, w), !.ssg = TRUE]
                  [] OTHER -> [k EXCEPT !.unfixable = @ \cup {w}]
  <1>1. w \in DOMAIN Pretab /\ w \in Nat  BY LayoutFacts
  <1>2. sf \in Sf  BY LoopFields
  <1>3. SfCap(w) \in Nat /\ SfCap(w) <= SfMax  BY Numbers DEF SfCap
  <1>4. sf.scf[w] \in 0..SfMax  BY <1>1, <1>2, SfFields
  <1>5. amplified = [sf |-> sf, unfixable |-> k.unfixable, prev |-> k.prev,
                     pending |-> w, noise |-> noise, ssg |-> k.ssg,
                     iters |-> k.iters, best |-> k.best]
    BY LoopExcept
  <1>6. next \in LoopType(lay) /\ next.best = k.best
    <2>1. CASE sf.scf[w] < SfCap(w)
      <3> DEFINE s == [sf EXCEPT !.scf[w] = @ + 1]
      <3>1. s \in Sf
        <4>1. sf.scf[w] < SfMax
          <5> DEFINE x == sf.scf[w]
          <5>1. x \in 0..SfMax /\ x < SfCap(w)  BY <1>4, <2>1
          <5> HIDE DEF x
          <5>2. x < SfMax  BY <1>3, <5>1, Numbers
          <5> QED  BY <5>2 DEF x
        <4> HIDE DEF sf
        <4> QED  BY <1>1, <1>2, <4>1, RaiseType
      <3>2. next = [amplified EXCEPT !.sf.scf[w] = @ + 1]
        <4>1. ~(sf.scf[w] >= SfCap(w))
          <5> DEFINE x == sf.scf[w]
          <5>1. x \in 0..SfMax /\ x < SfCap(w)  BY <1>4, <2>1
          <5> HIDE DEF x
          <5>2. ~(x >= SfCap(w))  BY <1>3, <5>1, Numbers
          <5> QED  BY <5>2 DEF x
        <4> HIDE DEF amplified
        <4> QED  BY <2>1, <4>1
      <3>3. next = [sf |-> s, unfixable |-> k.unfixable, prev |-> k.prev,
                    pending |-> w, noise |-> noise, ssg |-> k.ssg,
                    iters |-> k.iters, best |-> k.best]
        <4> HIDE DEF amplified, next
        <4> QED  BY <1>5, <3>2
      <3> HIDE DEF next, s
      <3> QED  BY <1>1, <3>1, <3>3, LoopFields DEF LoopType
    <2>2. CASE sf.scf[w] >= SfCap(w) /\ sf.scale = 0
      <3> DEFINE s == [sf EXCEPT !.scale = 1,
                                 !.scf = [b \in DOMAIN @ |-> IF b \in ScfBands(lay)
                                                             THEN (@[b] + 1) \div 2 ELSE @[b]]]
      <3>1. s \in Sf
        <4> HIDE DEF sf
        <4> QED  BY <1>2, RescaleType
      <3>2. next = [amplified EXCEPT
                      !.sf.scale = 1,
                      !.sf.scf = [b \in DOMAIN @ |-> IF b \in ScfBands(lay)
                                                     THEN (@[b] + 1) \div 2 ELSE @[b]]]
        <4>1. ~(sf.scf[w] < SfCap(w)) /\ ~(sf.scale = 1)
          <5> DEFINE x == sf.scf[w]
          <5>1. x \in 0..SfMax /\ x >= SfCap(w)  BY <1>4, <2>2
          <5> HIDE DEF x
          <5>2. ~(x < SfCap(w))  BY <1>3, <5>1, Numbers
          <5> QED  BY <2>2, <5>2 DEF x
        <4> HIDE DEF amplified
        <4> QED  BY <2>2, <4>1
      <3>3. next = [sf |-> s, unfixable |-> k.unfixable, prev |-> k.prev,
                    pending |-> w, noise |-> noise, ssg |-> k.ssg,
                    iters |-> k.iters, best |-> k.best]
        <4> HIDE DEF amplified, next
        <4> QED  BY <1>5, <3>2
      <3> HIDE DEF next, s
      <3> QED  BY <1>1, <3>1, <3>3, LoopFields DEF LoopType
    <2>3. CASE sf.scf[w] >= SfCap(w) /\ sf.scale = 1
               /\ IsShort(lay) /\ sf.ssg[Layouts[lay].win[w]] < MaxSubblockGain
      <3> DEFINE s == EscalateSubblockGain(sf, w)
      <3>1. s \in Sf
        <4> HIDE DEF sf
        <4> QED  BY <1>2, <2>3, EscalateType
      <3>2. next = [k EXCEPT !.sf = s, !.ssg = TRUE]
        <4>1. ~(sf.scf[w] < SfCap(w)) /\ ~(sf.scale = 0)
          <5> DEFINE x == sf.scf[w]
          <5>1. x \in 0..SfMax /\ x >= SfCap(w)  BY <1>4, <2>3
          <5> HIDE DEF x
          <5>2. ~(x < SfCap(w))  BY <1>3, <5>1, Numbers
          <5> QED  BY <2>3, <5>2 DEF x
        <4> HIDE DEF amplified
        <4> QED  BY <2>3, <4>1
      <3> HIDE DEF s, next
      <3> DEFINE t == TRUE
      <3>3. next = [k EXCEPT !.sf = s, !.ssg = t] /\ t \in BOOLEAN  BY <3>2
      <3> HIDE DEF t
      <3>4. next = [sf |-> s, unfixable |-> k.unfixable, prev |-> k.prev,
                    pending |-> k.pending, noise |-> k.noise, ssg |-> t,
                    iters |-> k.iters, best |-> k.best]
        <4> DEFINE r == [k EXCEPT !.sf = s]
        <4>1. next = [r EXCEPT !.ssg = t]  BY <3>3
        <4>2. r = [sf |-> s, unfixable |-> k.unfixable, prev |-> k.prev,
                   pending |-> k.pending, noise |-> k.noise, ssg |-> k.ssg,
                   iters |-> k.iters, best |-> k.best]
          BY LoopFields
        <4> HIDE DEF r
        <4> QED  BY <4>1, <4>2
      <3> QED  BY <3>1, <3>3, <3>4, LoopFields DEF LoopType
    <2>4. CASE /\ ~(sf.scf[w] < SfCap(w))
               /\ ~(sf.scf[w] >= SfCap(w) /\ sf.scale = 0)
               /\ ~(sf.scf[w] >= SfCap(w) /\ sf.scale = 1
                    /\ IsShort(lay) /\ sf.ssg[Layouts[lay].win[w]] < MaxSubblockGain)
      <3>1. next = [k EXCEPT !.unfixable = @ \cup {w}]
        <4> HIDE DEF amplified
        <4> QED  BY <2>4
      <3> HIDE DEF next
      <3>2. next = [sf |-> sf, unfixable |-> k.unfixable \cup {w}, prev |-> k.prev,
                    pending |-> k.pending, noise |-> k.noise, ssg |-> k.ssg,
                    iters |-> k.iters, best |-> k.best]
        <4> DEFINE u == k.unfixable \cup {w}
        <4>1. next = [k EXCEPT !.unfixable = u]  BY <3>1
        <4> HIDE DEF u
        <4>2. next = [sf |-> sf, unfixable |-> u, prev |-> k.prev,
                      pending |-> k.pending, noise |-> k.noise, ssg |-> k.ssg,
                      iters |-> k.iters, best |-> k.best]
          BY <4>1, LoopExcept
        <4> QED  BY <4>2 DEF u
      <3> QED  BY <1>1, <3>2, LoopFields DEF LoopType
    <2> HIDE DEF next
    <2> QED  BY <2>1, <2>2, <2>3, <2>4
  <1>7. Amplify(k, w, noise) = [next EXCEPT !.sf = Preflag(@)]
    BY DEF Amplify
  <1> HIDE DEF next
  <1> DEFINE p == Preflag(next.sf)
  <1>8. p \in Sf  BY <1>6, LoopFields, PreflagType
  <1>9. Amplify(k, w, noise)
          = [sf |-> p, unfixable |-> next.unfixable, prev |-> next.prev,
             pending |-> next.pending, noise |-> next.noise, ssg |-> next.ssg,
             iters |-> next.iters, best |-> next.best]
    BY <1>6, <1>7, LoopFields
  <1> HIDE DEF p
  <1> QED  BY <1>6, <1>8, <1>9, LoopFields DEF LoopType

\* The worst band is one with scalefactors, if there is one.
LEMMA WorstIs ==
    ASSUME xr \in DOMAIN Spectra, lay \in DOMAIN Layouts, NEW ix \in LineSet(xr, lay),
           NEW unfixable, WorstViolator(ix, unfixable) # None
    PROVE  WorstViolator(ix, unfixable) \in ScfBands(lay)
  <1> DEFINE bad == {b \in ScfBands(lay) \ unfixable : Noise(ix, b) > 1}
             worst == {b \in bad : \A a \in bad : Noise(ix, a) <= Noise(ix, b)}
             f == [b \in bad |-> Noise(ix, b)]
  <1>1. bad # {} /\ WorstViolator(ix, unfixable) = Min(worst)
    BY DEF WorstViolator
  <1>2. IsFiniteSet(bad) /\ bad \subseteq Nat
    <2>1. bad \in SUBSET ScfBands(lay)  OBVIOUS
    <2> HIDE DEF bad
    <2> QED  BY <2>1, LayoutFacts, FS_Subset
  <1>3. ASSUME NEW b \in bad PROVE f[b] = Noise(ix, b) /\ f[b] \in Nat
    <2>1. b \in Bands(lay)  BY LayoutFacts
    <2>2. Noise(ix, b) \in Nat  BY <2>1, HuffmanFacts
    <2> QED  BY <2>2
  <1>4. \E b \in bad : \A a \in bad : f[a] <= f[b]
    <2> HIDE DEF bad, f
    <2> QED  BY <1>1, <1>2, <1>3, Largest
  <1>5. worst # {}  BY <1>3, <1>4
  <1>6. worst \in SUBSET Nat  BY <1>2
  <1>7. Min(worst) \in worst
    <2> HIDE DEF worst
    <2> QED  BY <1>5, <1>6, MinIs
  <1> QED  BY <1>1, <1>7

-----------------------------------------------------------------------------
(* A pass. *)

\* What a pass with scalefactors sf codes.
Working(f, x, l, bits, sf) ==
    LET i == Compress(sf, l, {})
        part2 == FieldBits(i, l, ScfBands(l))
        eff == MinOf(bits, MaxPart23Length) - part2
        ix == LinesOf(f, x, l, sf, eff)
    IN  [set |-> TRUE, sf |-> sf, lay |-> l, compress |-> i, scfsi |-> {}, part2 |-> part2,
         part23 |-> part2 + HuffmanBits(ix), eff |-> eff,
         gain |-> GainOf(f, x, l, sf, eff), ix |-> ix]

\* It is a coding, when the fields leave bits.
LEMMA WorkingOwn ==
    ASSUME NEW f \in BOOLEAN, NEW x \in DOMAIN Spectra, NEW l \in DOMAIN Layouts,
           NEW bits \in Budgets, NEW sf \in Sf, Compress(sf, l, {}) # 0,
           ~(FieldBits(Compress(sf, l, {}), l, ScfBands(l)) >= bits)
    PROVE  OwnOf(f, x, l, Working(f, x, l, bits, sf))
  <1> DEFINE i == Compress(sf, l, {})
             part2 == FieldBits(i, l, ScfBands(l))
             eff == MinOf(bits, MaxPart23Length) - part2
             gain == GainOf(f, x, l, sf, eff)
             ix == LinesOf(f, x, l, sf, eff)
             h == HuffmanBits(ix)
             c == Working(f, x, l, bits, sf)
  <1>1. i \in Wide(sf, l, {})
    <2>1. Wide(sf, l, {}) # {}  BY CompressNone
    <2> QED  BY <2>1, CompressFacts
  <1>2. Sent(l, {}) = ScfBands(l)  BY DEF Sent
  <1>3. i \in DOMAIN SlenTab /\ \A b \in ScfBands(l) : sf.scf[b] < 2^Width(i, l, b)
    <2> HIDE DEF i
    <2> QED  BY <1>1, <1>2 DEF Wide, Covers
  <1>4. part2 \in Nat /\ part2 <= MaxPart23Length
    <2> HIDE DEF i
    <2>1. part2 \in Nat  BY <1>3, FieldFacts
    <2>2. part2 <= MaxPart23Length  BY <1>3, ScalefactorAssumption
    <2> QED  BY <2>1, <2>2
  <1>5. eff \in Nat /\ part2 + eff <= MaxPart23Length
    <2>1. bits \in Nat /\ MaxPart23Length \in Nat  BY NumbersAssumption, Numbers
    <2>2. ~(part2 >= bits)  OBVIOUS
    <2> HIDE DEF part2
    <2> QED  BY <1>4, <2>1, <2>2 DEF MinOf
  <1>6. /\ gain \in 0..MaxGain /\ ix \in LineSet(x, l)
        /\ Fits(f, x, l, sf, eff, gain, ix)
    <2> HIDE DEF eff
    <2> QED  BY <1>5, GranuleFits
  <1>7. h \in Nat /\ h <= eff
    <2>1. h <= eff
      <3> HIDE DEF ix, gain, eff
      <3> QED  BY <1>6 DEF Fits
    <2>2. h \in Nat
      <3> HIDE DEF ix
      <3> QED  BY <1>6, HuffmanFacts
    <2> QED  BY <2>1, <2>2
  <1>8. ix \in AnyLines
    <2> HIDE DEF ix
    <2> QED  BY <1>6 DEF AnyLines
  <1>9. c = [set |-> TRUE, sf |-> sf, lay |-> l, compress |-> i, scfsi |-> {},
             part2 |-> part2, part23 |-> part2 + h, eff |-> eff, gain |-> gain, ix |-> ix]
    BY DEF Working
  <1>10. part2 + h \in Nat /\ part2 + h <= MaxPart23Length
    <2>1. MaxPart23Length \in Nat  BY Numbers
    <2> HIDE DEF part2, eff, h
    <2> QED  BY <1>4, <1>5, <1>7, <2>1
  <1> DEFINE part23 == part2 + h
  <1>11. /\ part2 = FieldBits(i, l, ScfBands(l)) /\ part23 = part2 + HuffmanBits(ix)
         /\ part23 \in Nat /\ part23 <= MaxPart23Length
    BY <1>10
  <1>12. c = [set |-> TRUE, sf |-> sf, lay |-> l, compress |-> i, scfsi |-> {},
              part2 |-> part2, part23 |-> part23, eff |-> eff, gain |-> gain, ix |-> ix]
    BY <1>9
  <1> HIDE DEF c, i, part2, part23, eff, gain, ix, h
  <1>13. c \in CodingType
    BY <1>3, <1>4, <1>5, <1>6, <1>8, <1>11, <1>12 DEF CodingType
  <1>14. Coding(c)  BY <1>3, <1>11, <1>12, <1>13 DEF Coding
  <1>15. OwnOf(f, x, l, c)  BY <1>6, <1>12, <1>14 DEF OwnOf
  <1> QED  BY <1>15 DEF c

\* The first pass is the plain one.
LEMMA FirstPlain ==
    ASSUME NEW f \in BOOLEAN, NEW x \in DOMAIN Spectra, NEW l \in DOMAIN Layouts,
           NEW bits \in Budgets
    PROVE  /\ Working(f, x, l, bits, NoScalefactors).ix = PlainOf(f, x, l, bits)
           /\ PlainOf(f, x, l, bits) \in LineSet(x, l)
           /\ NoWorseOf(f, x, l, bits, Working(f, x, l, bits, NoScalefactors))
  <1> DEFINE part2 == FieldBits(Compress(NoScalefactors, l, {}), l, ScfBands(l))
             most == MinOf(bits, MaxPart23Length)
             plain == PlainOf(f, x, l, bits)
             c == Working(f, x, l, bits, NoScalefactors)
  <1>1. part2 = 0  BY NothingSent
  <1>2. most \in Nat
    <2>1. bits \in Nat /\ MaxPart23Length \in Nat  BY NumbersAssumption, Numbers
    <2> QED  BY <2>1 DEF MinOf
  <1>3. most - part2 = most
    <2> HIDE DEF most, part2
    <2> QED  BY <1>1, <1>2
  <1>4. c.ix = LinesOf(f, x, l, NoScalefactors, most - part2)  BY DEF Working
  <1>5. c.ix = plain
    <2> HIDE DEF most, part2, c
    <2>1. plain = LinesOf(f, x, l, NoScalefactors, most)  BY DEF PlainOf, most
    <2> HIDE DEF plain
    <2> QED  BY <1>3, <1>4, <2>1
  <1>6. plain \in LineSet(x, l)
    <2> HIDE DEF most
    <2>1. plain = LinesOf(f, x, l, NoScalefactors, most)  BY DEF PlainOf, most
    <2> HIDE DEF plain
    <2> QED  BY <1>2, <2>1, GranuleFits, NoScalefactorsType
  <1> HIDE DEF plain, c
  <1>7. ~Better(Metrics(plain), Metrics(plain))
    <2> DEFINE m == Metrics(plain)
    <2>1. Measure(m)  BY <1>6, MetricsType DEF Measure
    <2> HIDE DEF m
    <2>2. ~Better(m, m)  BY <2>1, BetterOrders
    <2> QED  BY <2>2 DEF m
  <1>8. NoWorseOf(f, x, l, bits, c)  BY <1>5, <1>7 DEF NoWorseOf, plain
  <1> QED  BY <1>5, <1>6, <1>8 DEF plain, c

\* A pass that betters one no worse than plain, or leaves nothing audible, is none either.
LEMMA NoWorseKept ==
    ASSUME NEW f \in BOOLEAN, NEW x \in DOMAIN Spectra, NEW l \in DOMAIN Layouts,
           NEW bits \in Budgets, NEW c, OwnOf(f, x, l, c)
    PROVE  /\ Metrics(c.ix).over = 0 => NoWorseOf(f, x, l, bits, c)
           /\ \A b : OwnOf(f, x, l, b) /\ NoWorseOf(f, x, l, bits, b)
                       /\ Better(Metrics(c.ix), Metrics(b.ix)) =>
                    NoWorseOf(f, x, l, bits, c)
  <1> DEFINE p == Metrics(PlainOf(f, x, l, bits))
             m == Metrics(c.ix)
  <1>1. Measure(p)  BY FirstPlain, MetricsType DEF Measure
  <1>2. Measure(m) /\ (m.over = 0 => m.excess = 0 /\ m.ratio = 0)
    <2>1. c.ix \in LineSet(x, l)  BY DEF OwnOf
    <2> QED  BY <2>1, MetricsType DEF Measure
  <1>3. NoWorseOf(f, x, l, bits, c) <=> ~Better(p, m)  BY DEF NoWorseOf
  <1>4. m.over = 0 => ~Better(p, m)
    <2> HIDE DEF p, m
    <2> QED  BY <1>1, <1>2 DEF Measure, Better
  <1>5. ASSUME NEW b, OwnOf(f, x, l, b), NoWorseOf(f, x, l, bits, b),
               Better(Metrics(c.ix), Metrics(b.ix))
        PROVE  NoWorseOf(f, x, l, bits, c)
    <2> DEFINE n == Metrics(b.ix)
    <2>1. b.ix \in LineSet(x, l)  BY <1>5 DEF OwnOf
    <2>2. Measure(n)  BY <2>1, MetricsType DEF Measure
    <2>3. ~Better(p, n)  BY <1>5 DEF NoWorseOf
    <2>4. Better(m, n)  BY <1>5
    <2> HIDE DEF p, m, n
    <2>5. ~Better(p, m)  BY <1>1, <1>2, <2>2, <2>3, <2>4, BetterOrders
    <2> QED  BY <1>3, <2>5
  <1> QED  BY <1>3, <1>4, <1>5

\* The updates of a pass.
LEMMA PassUpdates ==
    ASSUME NEW k \in LoopType(lay), NEW a
    PROVE  /\ [k EXCEPT !.iters = a]
                = [sf |-> k.sf, unfixable |-> k.unfixable, prev |-> k.prev,
                   pending |-> k.pending, noise |-> k.noise, ssg |-> k.ssg,
                   iters |-> a, best |-> k.best]
           /\ [k EXCEPT !.best = a]
                = [sf |-> k.sf, unfixable |-> k.unfixable, prev |-> k.prev,
                   pending |-> k.pending, noise |-> k.noise, ssg |-> k.ssg,
                   iters |-> k.iters, best |-> a]
  BY LoopFields

LEMMA Begun ==
    ASSUME NEW k \in LoopType(lay), NEW e \in [Bands(lay) -> Nat], NEW r,
           r = [k EXCEPT !.ssg = FALSE, !.prev = e, !.pending = None]
    PROVE  r \in LoopType(lay) /\ r.best = k.best
  <1> DEFINE f == FALSE
             n == None
             s == [k EXCEPT !.ssg = f]
             t == [s EXCEPT !.prev = e]
  <1>1. r = [t EXCEPT !.pending = n]  OBVIOUS
  <1>2. f \in BOOLEAN /\ n \in Nat  BY DEF None
  <1> HIDE DEF f, n
  <1>3. s = [sf |-> k.sf, unfixable |-> k.unfixable, prev |-> k.prev,
             pending |-> k.pending, noise |-> k.noise, ssg |-> f,
             iters |-> k.iters, best |-> k.best]
    BY LoopFields
  <1>4. t = [sf |-> k.sf, unfixable |-> k.unfixable, prev |-> e,
             pending |-> k.pending, noise |-> k.noise, ssg |-> f,
             iters |-> k.iters, best |-> k.best]
    <2> HIDE DEF s
    <2> QED  BY <1>3
  <1> HIDE DEF t
  <1>5. r = [sf |-> k.sf, unfixable |-> k.unfixable, prev |-> e,
             pending |-> n, noise |-> k.noise, ssg |-> f,
             iters |-> k.iters, best |-> k.best]
    BY <1>1, <1>4
  <1> QED  BY <1>2, <1>5, LoopFields DEF LoopType

LEMMA RolledBack ==
    ASSUME NEW k \in LoopType(lay), NEW a, NEW b, NEW c, NEW r,
           r = [k EXCEPT !.unfixable = a, !.sf = b, !.iters = c]
    PROVE  r = [sf |-> b, unfixable |-> a, prev |-> k.prev,
                pending |-> k.pending, noise |-> k.noise, ssg |-> k.ssg,
                iters |-> c, best |-> k.best]
  <1> DEFINE s == [k EXCEPT !.unfixable = a]
             t == [s EXCEPT !.sf = b]
  <1>1. s = [sf |-> k.sf, unfixable |-> a, prev |-> k.prev,
             pending |-> k.pending, noise |-> k.noise, ssg |-> k.ssg,
             iters |-> k.iters, best |-> k.best]
    BY LoopFields
  <1>2. r = [t EXCEPT !.iters = c]
    OBVIOUS
  <1>3. t = [sf |-> b, unfixable |-> a, prev |-> k.prev,
             pending |-> k.pending, noise |-> k.noise, ssg |-> k.ssg,
             iters |-> k.iters, best |-> k.best]
    <2> HIDE DEF s
    <2> QED  BY <1>1
  <1> HIDE DEF t
  <1> QED  BY <1>2, <1>3

\* The loop is left with a coding no worse than plain.
LEMMA Left ==
    ASSUME IInv, at = "loop", NEW c, OwnOf(fast, xr, lay, c),
           NoWorseOf(fast, xr, lay, budget, c), Leave(c), CacheOwn'
    PROVE  IInv'
  <1>1. /\ at' = "idle" /\ gr' = Append(gr, c) /\ gc' = c
        /\ fast' = fast /\ xr' = xr /\ lay' = lay /\ budget' = budget
    BY DEF Leave
  <1>2. gr \in Seq(Codings) /\ fast \in BOOLEAN /\ GranuleInv  BY DEF IInv
  <1>3. c \in Codings  BY DEF OwnOf, Coding, Codings
  <1>4. gr' \in Seq(Codings)  BY <1>1, <1>2, <1>3
  <1>5. ScalefactorsSurvive'  BY <1>1 DEF ScalefactorsSurvive
  <1>6. OwnOf(fast, xr, lay, gc)'  BY <1>1
  <1>7. NoWorseOf(fast, xr, lay, budget, gc)'  BY <1>1
  <1>8. GranuleInv'  BY <1>1, <1>2 DEF GranuleInv
  <1> QED  BY <1>1, <1>2, <1>4, <1>5, <1>6, <1>7, <1>8 DEF IInv

\* The loop goes on.
LEMMA Stayed ==
    ASSUME IInv, at = "loop", UNCHANGED <<fast, at, xr, lay, budget, gr>>,
           OwnOf(fast, xr, lay, gc'), LoopOf(fast, xr, lay, budget, o'), CacheOwn'
    PROVE  IInv'
  <1>1. gr \in Seq(Codings) /\ fast \in BOOLEAN /\ GranuleInv  BY DEF IInv
  <1>2. ScalefactorsSurvive'  BY DEF ScalefactorsSurvive
  <1>3. GranuleInv'  BY <1>1 DEF GranuleInv
  <1>4. gr' \in Seq(Codings)  BY <1>1
  <1>5. OwnOf(fast, xr, lay, gc)' /\ LoopOf(fast, xr, lay, budget, o)'  OBVIOUS
  <1> QED  BY <1>1, <1>2, <1>3, <1>4, <1>5 DEF IInv

\* A pass that was measured.
LEMMA MeasuredInv ==
    ASSUME IInv, at = "loop", NEW l \in LoopType(lay), NEW c, OwnOf(fast, xr, lay, c),
           \/ l.best = NoCoding /\ NoWorseOf(fast, xr, lay, budget, c)
           \/ /\ l.best # NoCoding /\ OwnOf(fast, xr, lay, l.best)
              /\ NoWorseOf(fast, xr, lay, budget, l.best),
           Measured(l, c), CacheOwn'
    PROVE  IInv'
  <1> DEFINE m == Metrics(c.ix)
             k == IF ~l.best.set \/ Better(m, Metrics(l.best.ix))
                    THEN [l EXCEPT !.best = c] ELSE l
             w == WorstViolator(c.ix, l.unfixable)
             a == Amplify(k, w, Noise(c.ix, w))
  <1>1. /\ fast \in BOOLEAN /\ xr \in DOMAIN Spectra /\ lay \in DOMAIN Layouts
        /\ budget \in Budgets
    BY DEF IInv, GranuleInv
  <1>2. c \in CodingType /\ c.ix \in LineSet(xr, lay)  BY DEF OwnOf, Coding
  <1>3. /\ k \in LoopType(lay) /\ k.best # NoCoding /\ k.best.set
        /\ k.unfixable = l.unfixable
        /\ OwnOf(fast, xr, lay, k.best) /\ NoWorseOf(fast, xr, lay, budget, k.best)
    <2>1. CASE ~l.best.set \/ Better(m, Metrics(l.best.ix))
      <3>1. k = [l EXCEPT !.best = c]  BY <2>1
      <3> HIDE DEF k
      <3>2. k = [sf |-> l.sf, unfixable |-> l.unfixable, prev |-> l.prev,
                 pending |-> l.pending, noise |-> l.noise, ssg |-> l.ssg,
                 iters |-> l.iters, best |-> c]
        BY <3>1, PassUpdates
      <3>3. k \in LoopType(lay) /\ k.best = c /\ k.unfixable = l.unfixable
        BY <1>2, <3>2, LoopFields DEF LoopType
      <3>4. NoWorseOf(fast, xr, lay, budget, c)
        <4>1. CASE l.best # NoCoding
          <5>1. /\ OwnOf(fast, xr, lay, l.best) /\ NoWorseOf(fast, xr, lay, budget, l.best)
                /\ l.best \in CodingType
            BY <4>1 DEF OwnOf, Coding
          <5>2. l.best.set  BY <5>1, CodingSet
          <5>3. Better(m, Metrics(l.best.ix))  BY <2>1, <5>2
          <5> QED  BY <1>1, <5>1, <5>3, NoWorseKept
        <4> QED  BY <4>1
      <3>5. c # NoCoding /\ c.set  BY <1>2, CodingSet
      <3> QED  BY <3>3, <3>4, <3>5
    <2>2. CASE ~(~l.best.set \/ Better(m, Metrics(l.best.ix)))
      <3>1. k = l  BY <2>2
      <3> HIDE DEF k
      <3>2. l.best # NoCoding /\ l.best.set  BY <2>2, NoCodingSet
      <3> QED  BY <3>1, <3>2
    <2> QED  BY <2>1, <2>2
  <1>4. CASE m.over = 0
    <2>1. Leave(c)  BY <1>4 DEF Measured
    <2>2. NoWorseOf(fast, xr, lay, budget, c)
      <3> HIDE DEF k
      <3> QED  BY <1>1, <1>4, NoWorseKept
    <2> QED  BY <2>1, <2>2, Left
  <1>5. CASE m.over # 0 /\ w = None
    <2>1. Leave(BestPass(k))  BY <1>5 DEF Measured
    <2> HIDE DEF k
    <2>2. BestPass(k) = k.best  BY <1>3 DEF BestPass
    <2> QED  BY <1>3, <2>1, <2>2, Left
  <1>6. CASE m.over # 0 /\ w # None
    <2>1. /\ o' = [a EXCEPT !.iters = @ + 1] /\ gc' = c
          /\ UNCHANGED <<fast, at, xr, lay, budget, gr>>
      BY <1>6 DEF Measured
    <2>2. w \in ScfBands(lay)  BY <1>1, <1>2, <1>6, WorstIs
    <2>3. Noise(c.ix, w) \in Nat
      <3>1. w \in Bands(lay)  BY <1>1, <2>2, LayoutFacts
      <3> QED  BY <1>1, <1>2, <3>1, HuffmanFacts
    <2> HIDE DEF k, w
    <2>4. a \in LoopType(lay) /\ a.best = k.best
      BY <1>1, <1>3, <2>2, <2>3, AmplifyType
    <2> HIDE DEF a
    <2> DEFINE n == a.iters + 1
    <2>5. n \in Nat
      <3>1. a.iters \in Nat  BY <2>4, LoopFields
      <3> QED  BY <3>1
    <2>6. o' = [a EXCEPT !.iters = n]  BY <2>1
    <2> HIDE DEF n
    <2>7. o' = [sf |-> a.sf, unfixable |-> a.unfixable, prev |-> a.prev,
                pending |-> a.pending, noise |-> a.noise, ssg |-> a.ssg,
                iters |-> n, best |-> a.best]
      BY <2>4, <2>6, PassUpdates
    <2>8. o' \in LoopType(lay) /\ o'.best = k.best
      BY <2>4, <2>5, <2>7, LoopFields DEF LoopType
    <2>9. LoopOf(fast, xr, lay, budget, o')  BY <1>3, <2>8 DEF LoopOf
    <2> QED  BY <2>1, <2>9, Stayed
  <1> QED  BY <1>4, <1>5, <1>6

\* One iteration of outerLoop.
LEMMA PassInv ==
    ASSUME IInv, Pass
    PROVE  IInv'
  <1> DEFINE extra == [b \in Bands(lay) |-> Extra(o.sf, lay, b)]
             i == Compress(o.sf, lay, {})
             part2 == FieldBits(i, lay, ScfBands(lay))
             eff == MinOf(budget, MaxPart23Length) - part2
             l == [o EXCEPT !.ssg = FALSE, !.prev = extra, !.pending = None]
             stop == \/ o.iters > MaxIters \/ (extra = o.prev /\ ~o.ssg)
                     \/ i = 0 \/ part2 >= budget
             g == CodeGranule(o.sf, eff)
             c == [set |-> TRUE, sf |-> o.sf, lay |-> lay, compress |-> i,
                   scfsi |-> {}, part2 |-> part2, part23 |-> part2 + HuffmanBits(g.ix),
                   eff |-> eff, gain |-> g.gain, ix |-> g.ix]
             futile == o.pending # None /\ Noise(g.ix, o.pending) >= o.noise
             work == Working(fast, xr, lay, budget, o.sf)
  <1>1. at = "loop"  BY DEF Pass
  <1>2. /\ fast \in BOOLEAN /\ xr \in DOMAIN Spectra /\ lay \in DOMAIN Layouts
        /\ budget \in Budgets /\ CacheOwn /\ LoopOf(fast, xr, lay, budget, o)
    BY <1>1 DEF IInv, GranuleInv
  <1>3. /\ o \in LoopType(lay) /\ o.sf \in Sf
        /\ o.best = NoCoding =>
              o.sf = NoScalefactors /\ o.prev = <<>> /\ o.pending = None /\ o.iters = 1
        /\ o.best # NoCoding =>
              OwnOf(fast, xr, lay, o.best) /\ NoWorseOf(fast, xr, lay, budget, o.best)
    BY <1>2, LoopFields DEF LoopOf
  <1>4. CASE stop
    <2>1. Leave(BestPass(o)) /\ UNCHANGED <<o, cache>>  BY <1>4 DEF Pass
    <2>2. o.best # NoCoding
      <3>1. SUFFICES ASSUME o.best = NoCoding PROVE FALSE  OBVIOUS
      <3>2. o.sf = NoScalefactors /\ o.prev = <<>> /\ o.iters = 1  BY <1>3, <3>1
      <3>3. ~(o.iters > MaxIters)
        <4> DEFINE n == o.iters
        <4>1. n = 1  BY <3>2
        <4> HIDE DEF n
        <4>2. ~(n > MaxIters)  BY <4>1, Numbers
        <4> QED  BY <4>2 DEF n
      <3>4. extra # o.prev
        <4>1. 1 \in DOMAIN extra  BY <1>2, LayoutFacts
        <4>2. 1 \notin DOMAIN <<>>  OBVIOUS
        <4> HIDE DEF extra
        <4> QED  BY <3>2, <4>1, <4>2
      <3>5. i # 0 /\ part2 = 0
        <4>1. i = Compress(NoScalefactors, lay, {})  BY <3>2
        <4> HIDE DEF i
        <4> QED  BY <1>2, <4>1, NothingSent
      <3>6. ~(part2 >= budget)
        <4>1. budget \in Nat \ {0}  BY <1>2, NumbersAssumption
        <4> HIDE DEF part2
        <4> QED  BY <3>5, <4>1
      <3> HIDE DEF i, part2, extra
      <3> QED  BY <1>4, <3>3, <3>4, <3>5, <3>6
    <2>3. OwnOf(fast, xr, lay, o.best) /\ NoWorseOf(fast, xr, lay, budget, o.best)
      BY <1>3, <2>2
    <2>4. BestPass(o) = o.best
      <3>1. o.best.set  BY <2>3, CodingSet DEF OwnOf, Coding
      <3> QED  BY <3>1 DEF BestPass
    <2>5. CacheOwn'  BY <1>2, <2>1 DEF Leave, CacheOwn
    <2> QED  BY <1>1, <2>1, <2>3, <2>4, <2>5, Left
  <1>5. CASE ~stop
    <2>1. /\ cache' = IF g.cached
                        THEN [k \in Filled(o.sf) |-> IF k \in DOMAIN cache THEN cache[k] ELSE xr]
                        ELSE cache
          /\ futile => /\ o' = [l EXCEPT !.unfixable = @ \cup {o.pending},
                                         !.sf = o.best.sf, !.iters = @ + 1]
                       /\ gc' = c
                       /\ UNCHANGED <<fast, at, xr, lay, budget, gr>>
          /\ ~futile => Measured(l, c)
      BY <1>5 DEF Pass
    <2>2. c = work
      <3>1. g.gain = GainOf(fast, xr, lay, o.sf, eff) /\ g.ix = LinesOf(fast, xr, lay, o.sf, eff)
        <4> HIDE DEF eff
        <4> QED  BY <1>2, GranuleIs
      <3> HIDE DEF g
      <3> QED  BY <3>1 DEF Working
    <2>3. OwnOf(fast, xr, lay, work)
      <3>1. Compress(o.sf, lay, {}) # 0
            /\ ~(FieldBits(Compress(o.sf, lay, {}), lay, ScfBands(lay)) >= budget)
        BY <1>5
      <3> QED  BY <1>2, <1>3, <3>1, WorkingOwn
    <2>4. CacheOwn'
      <3> HIDE DEF g
      <3>1. xr' = xr  BY <2>1 DEF Measured, Leave
      <3>2. \A k \in DOMAIN cache' : cache'[k] = xr
        <4>1. CASE g.cached
          <5> DEFINE F == Filled(o.sf)
                     d == [k \in F |-> IF k \in DOMAIN cache THEN cache[k] ELSE xr]
          <5>1. cache' = d  BY <2>1, <4>1
          <5> HIDE DEF F
          <5>2. \A k \in DOMAIN d : d[k] = xr  BY <1>2 DEF CacheOwn
          <5> HIDE DEF d
          <5> QED  BY <5>1, <5>2
        <4>2. CASE ~g.cached
          <5>1. cache' = cache  BY <2>1, <4>2
          <5> QED  BY <1>2, <5>1 DEF CacheOwn
        <4> QED  BY <4>1, <4>2
      <3> QED  BY <3>1, <3>2 DEF CacheOwn
    <2> HIDE DEF g, c, work
    <2>6. extra \in [Bands(lay) -> Nat]
      <3>1. ASSUME NEW b \in Bands(lay) PROVE Extra(o.sf, lay, b) \in Nat
        BY <1>2, <1>3, ExtraBounds, Numbers
      <3> QED  BY <3>1
    <2>7. l \in LoopType(lay) /\ l.best = o.best
      <3> HIDE DEF extra
      <3>1. l = [o EXCEPT !.ssg = FALSE, !.prev = extra, !.pending = None]  OBVIOUS
      <3>2. o \in LoopType(lay)  BY <1>3
      <3> HIDE DEF l
      <3> QED  BY <2>6, <3>1, <3>2, Begun, Zenon
    <2> HIDE DEF l, extra
    <2>8. CASE futile
      <3> DEFINE u == l.unfixable \cup {o.pending}
                 s == o.best.sf
                 n == l.iters + 1
      <3>1. o' = [l EXCEPT !.unfixable = u, !.sf = s, !.iters = n]  BY <2>1, <2>8
      <3>2. o.best # NoCoding  BY <1>3, <2>8
      <3>3. OwnOf(fast, xr, lay, o.best) /\ NoWorseOf(fast, xr, lay, budget, o.best)
            /\ o.best \in CodingType
        BY <1>3, <3>2 DEF OwnOf, Coding
      <3>4. s \in Sf  BY <3>3 DEF CodingType
      <3>5. u \in SUBSET Nat  BY <1>3, <2>7, LoopFields
      <3>6. n \in Nat
        <4>1. l.iters \in Nat  BY <2>7, LoopFields
        <4> QED  BY <4>1
      <3> HIDE DEF u, s, n
      <3>7. o' = [sf |-> s, unfixable |-> u, prev |-> l.prev,
                  pending |-> l.pending, noise |-> l.noise, ssg |-> l.ssg,
                  iters |-> n, best |-> l.best]
        BY <2>7, <3>1, RolledBack, Zenon
      <3>8. o' \in LoopType(lay) /\ o'.best = o.best
        BY <2>7, <3>4, <3>5, <3>6, <3>7, LoopFields DEF LoopType
      <3>9. LoopOf(fast, xr, lay, budget, o')  BY <3>2, <3>3, <3>8 DEF LoopOf
      <3>10. OwnOf(fast, xr, lay, gc') /\ UNCHANGED <<fast, at, xr, lay, budget, gr>>
        BY <2>1, <2>2, <2>3, <2>8
      <3> QED  BY <1>1, <2>4, <3>9, <3>10, Stayed
    <2>9. CASE ~futile
      <3>1. Measured(l, c) /\ OwnOf(fast, xr, lay, c)  BY <2>1, <2>2, <2>3, <2>9
      <3>2. \/ l.best = NoCoding /\ NoWorseOf(fast, xr, lay, budget, c)
            \/ /\ l.best # NoCoding /\ OwnOf(fast, xr, lay, l.best)
               /\ NoWorseOf(fast, xr, lay, budget, l.best)
        <4>1. CASE o.best = NoCoding
          <5>1. c = Working(fast, xr, lay, budget, NoScalefactors)
            BY <1>3, <2>2, <4>1 DEF work
          <5>2. NoWorseOf(fast, xr, lay, budget, c)  BY <1>2, <5>1, FirstPlain
          <5> QED  BY <2>7, <4>1, <5>2
        <4>2. CASE o.best # NoCoding  BY <1>3, <2>7, <4>2
        <4> QED  BY <4>1, <4>2
      <3> HIDE DEF futile
      <3> QED  BY <1>1, <2>4, <2>7, <3>1, <3>2, MeasuredInv
    <2> QED  BY <2>8, <2>9
  <1> QED  BY <1>4, <1>5

-----------------------------------------------------------------------------
(* The scalefactors of the two granules. *)

\* What ScalefactorsSurvive says of one coding, after a first one.
Survives(first, c) ==
    /\ \A b \in ScfBands(c.lay) :
          (IF b \in Sent(c.lay, c.scfsi) THEN c.sf.scf[b] % 2^Width(c.compress, c.lay, b)
           ELSE first.sf.scf[b]) = c.sf.scf[b]
    /\ c.part23 = FieldBits(c.compress, c.lay, Sent(c.lay, c.scfsi)) + HuffmanBits(c.ix)
    /\ c.part23 <= MaxPart23Length

\* A number below 2^w is what its w low bits say.
LEMMA FitsField ==
    ASSUME NEW x \in Nat, NEW w \in Nat, x < 2^w
    PROVE  x % 2^w = x
  OBVIOUS

LEMMA CodingFacts ==
    ASSUME NEW c, Coding(c)
    PROVE  /\ c \in CodingType /\ c.lay \in DOMAIN Layouts /\ c.sf \in Sf
           /\ c.compress \in DOMAIN SlenTab /\ c.scfsi = {}
           /\ c.part2 \in Nat /\ c.part23 \in Nat
           /\ HuffmanBits(c.ix) \in Nat
           /\ \A b \in ScfBands(c.lay) : c.sf.scf[b] \in Nat
  <1>1. c \in CodingType  BY DEF Coding
  <1>2. /\ c.lay \in DOMAIN Layouts /\ c.sf \in Sf
        /\ c.compress \in DOMAIN SlenTab /\ c.scfsi = {}
        /\ c.part2 \in Nat /\ c.part23 \in Nat /\ c.ix \in AnyLines
    BY <1>1 DEF CodingType
  <1>3. PICK s \in DOMAIN Spectra, l \in DOMAIN Layouts : c.ix \in LineSet(s, l)
    BY <1>2 DEF AnyLines
  <1>4. HuffmanBits(c.ix) \in Nat  BY <1>3, HuffmanFacts
  <1>5. ASSUME NEW b \in ScfBands(c.lay) PROVE c.sf.scf[b] \in Nat
    <2>1. b \in DOMAIN Pretab  BY <1>2, LayoutFacts
    <2>2. c.sf.scf[b] \in 0..SfMax  BY <1>2, <2>1, SfFields
    <2> QED  BY <2>2, Numbers
  <1> QED  BY <1>1, <1>2, <1>4, <1>5

LEMMA CodingSurvives ==
    ASSUME NEW first, NEW c, Coding(c)
    PROVE  Survives(first, c)
  <1>1. Sent(c.lay, c.scfsi) = ScfBands(c.lay)  BY CodingFacts DEF Sent
  <1>2. ASSUME NEW b \in ScfBands(c.lay)
        PROVE  c.sf.scf[b] % 2^Width(c.compress, c.lay, b) = c.sf.scf[b]
    <2> DEFINE x == c.sf.scf[b]
               w == Width(c.compress, c.lay, b)
    <2>1. x \in Nat  BY CodingFacts
    <2>2. w \in Nat  BY CodingFacts, FieldFacts
    <2>3. x < 2^w  BY DEF Coding
    <2> HIDE DEF x, w
    <2>4. x % 2^w = x  BY <2>1, <2>2, <2>3, FitsField
    <2> QED  BY <2>4 DEF x, w
  <1> QED  BY <1>1, <1>2 DEF Survives, Coding

LEMMA ScfsiSurvives ==
    ASSUME NEW first, NEW c, Coding(first), Coding(c)
    PROVE  Survives(first, ApplyScfsi(c, DetectScfsi(first, c)))
  <1> DEFINE mask == DetectScfsi(first, c)
             S == Sent(c.lay, mask)
             i == Compress(c.sf, c.lay, mask)
             part2 == FieldBits(i, c.lay, S)
             h == HuffmanBits(c.ix)
             d == ApplyScfsi(c, mask)
  <1>1. ASSUME NEW b \in ScfBands(c.lay), b \notin S
        PROVE  first.sf.scf[b] = c.sf.scf[b]
    <2>1. PICK k \in mask : b \in ScfsiGroups[k]  BY <1>1 DEF Sent
    <2>2. mask # {}  BY <2>1
    <2>3. k \in DOMAIN ScfsiGroups /\ \A a \in ScfsiGroups[k] : first.sf.scf[a] = c.sf.scf[a]
      BY <2>1, <2>2 DEF DetectScfsi
    <2> QED  BY <2>1, <2>3
  <1> HIDE DEF mask
  <1>2. CASE mask = {} \/ i = 0
    <2>1. d = c  BY <1>2 DEF ApplyScfsi
    <2> QED  BY <2>1, CodingSurvives DEF mask
  <1>3. CASE mask # {} /\ i # 0
    <2>1. Wide(c.sf, c.lay, mask) # {}  BY <1>3, CompressNone
    <2>2. /\ i \in Wide(c.sf, c.lay, mask)
          /\ \A j \in Wide(c.sf, c.lay, mask) : part2 <= FieldBits(j, c.lay, S)
      BY <2>1, CodingFacts, CompressFacts
    <2>3. S \in SUBSET ScfBands(c.lay)  BY DEF Sent
    <2>4. c.compress \in Wide(c.sf, c.lay, mask)
      BY <2>3, CodingFacts DEF Wide, Covers, Coding
    <2>5. i \in DOMAIN SlenTab  BY <2>2 DEF Wide
    <2>6. part2 \in Nat /\ part2 <= c.part2
      <3> DEFINE q == FieldBits(c.compress, c.lay, S)
                 r == FieldBits(c.compress, c.lay, ScfBands(c.lay))
      <3>1. part2 <= q  BY <2>2, <2>4
      <3>2. q \in Nat /\ q <= r  BY <2>3, CodingFacts, FieldFacts
      <3>3. r = c.part2  BY DEF Coding
      <3>4. part2 \in Nat  BY <2>3, <2>5, CodingFacts, FieldFacts
      <3> HIDE DEF part2, q, r
      <3>5. r \in Nat  BY <3>3, CodingFacts
      <3> QED  BY <3>1, <3>2, <3>3, <3>4, <3>5
    <2> DEFINE p == c.part23 - (c.part2 - part2)
    <2>7. p = part2 + h /\ p <= MaxPart23Length
      <3> DEFINE x == c.part23
                 y == c.part2
      <3>1. x \in Nat /\ y \in Nat /\ h \in Nat  BY CodingFacts
      <3>2. x = y + h /\ x <= MaxPart23Length  BY DEF Coding
      <3> HIDE DEF x, y, h, part2
      <3>3. x - (y - part2) = part2 + h /\ x - (y - part2) <= MaxPart23Length
        BY <2>6, <3>1, <3>2, Numbers DEF y
      <3> QED  BY <3>3 DEF x, y
    <2>8. d = [c EXCEPT !.scfsi = mask, !.compress = i, !.part2 = part2, !.part23 = p]
      BY <1>3 DEF ApplyScfsi
    <2> HIDE DEF i, part2, p, d, h
    <2>9. /\ d.lay = c.lay /\ d.sf = c.sf /\ d.ix = c.ix /\ d.scfsi = mask
          /\ d.compress = i /\ d.part23 = p
      <3>1. c \in CodingType  BY CodingFacts
      <3> QED  BY <2>8, <3>1 DEF CodingType
    <2>10. ASSUME NEW b \in S
           PROVE  c.sf.scf[b] % 2^Width(i, c.lay, b) = c.sf.scf[b]
      <3> DEFINE x == c.sf.scf[b]
                 w == Width(i, c.lay, b)
      <3>1. x \in Nat  BY <2>3, CodingFacts
      <3>2. w \in Nat  BY <2>3, <2>5, CodingFacts, FieldFacts
      <3>3. x < 2^w  BY <2>2 DEF Wide, Covers
      <3> HIDE DEF x, w
      <3>4. x % 2^w = x  BY <3>1, <3>2, <3>3, FitsField
      <3> QED  BY <3>4 DEF x, w
    <2>11. Survives(first, d)
      <3>1. Sent(d.lay, d.scfsi) = S  BY <2>9
      <3>2. ASSUME NEW b \in ScfBands(d.lay)
            PROVE  (IF b \in Sent(d.lay, d.scfsi)
                      THEN d.sf.scf[b] % 2^Width(d.compress, d.lay, b)
                      ELSE first.sf.scf[b]) = d.sf.scf[b]
        BY <1>1, <2>9, <2>10, <3>1
      <3>3. d.part23 = FieldBits(d.compress, d.lay, S) + HuffmanBits(d.ix)
        BY <2>7, <2>9 DEF part2, h
      <3> QED  BY <2>7, <2>9, <3>1, <3>2, <3>3 DEF Survives
    <2> QED  BY <2>11 DEF d, mask
  <1> QED  BY <1>2, <1>3

LEMMA ScfsiInv ==
    ASSUME IInv, Scfsi
    PROVE  IInv'
  <1> DEFINE d == ApplyScfsi(gr[2], DetectScfsi(gr[1], gr[2]))
  <1>1. /\ at = "idle" /\ at' = "coded" /\ Len(gr) = 2 /\ gr' = [gr EXCEPT ![2] = d]
        /\ UNCHANGED <<fast, xr, lay, budget, o, gc, cache>>
    BY DEF Scfsi
  <1>2. gr \in Seq(Codings)  BY <1>1 DEF IInv
  <1>3. DOMAIN gr = 1..2 /\ gr[1] \in Codings /\ gr[2] \in Codings  BY <1>1, <1>2
  <1>4. Coding(gr[1]) /\ Coding(gr[2])  BY <1>3 DEF Codings
  <1>5. Survives(gr[1], gr[1]) /\ Survives(gr[1], d)
    BY <1>4, CodingSurvives, ScfsiSurvives
  <1> HIDE DEF d
  <1>6. gr'[1] = gr[1] /\ gr'[2] = d  BY <1>1, <1>3
  <1>7. ScalefactorsSurvive'
    <2>1. ASSUME NEW k \in 1..2 PROVE Survives(gr'[1], gr'[k])
      <3>1. CASE k = 1  BY <1>5, <1>6, <3>1
      <3>2. CASE k = 2  BY <1>5, <1>6, <3>2
      <3> QED  BY <3>1, <3>2
    <2> QED  BY <2>1 DEF ScalefactorsSurvive, Survives, Decoded
  <1>8. CacheOwn'  BY <1>1 DEF IInv, CacheOwn
  <1>9. /\ gc' = NoCoding \/ OwnOf(fast, xr, lay, gc)'
        /\ gc' # NoCoding => NoWorseOf(fast, xr, lay, budget, gc)' /\ GranuleInv'
    BY <1>1 DEF IInv, GranuleInv
  <1> QED  BY <1>1, <1>7, <1>8, <1>9 DEF IInv

LEMMA NextFrameInv ==
    ASSUME IInv, NextFrame
    PROVE  IInv'
  <1>1. /\ at' = "idle" /\ gr' = <<>> /\ at = "coded"
        /\ UNCHANGED <<fast, xr, lay, budget, o, gc, cache>>
    BY DEF NextFrame
  <1>2. gr' \in Seq(Codings) /\ ScalefactorsSurvive'  BY <1>1 DEF ScalefactorsSurvive
  <1>3. CacheOwn'  BY <1>1 DEF IInv, CacheOwn
  <1>4. /\ gc' = NoCoding \/ OwnOf(fast, xr, lay, gc)'
        /\ gc' # NoCoding => NoWorseOf(fast, xr, lay, budget, gc)' /\ GranuleInv'
    BY <1>1 DEF IInv, GranuleInv
  <1>5. fast' \in BOOLEAN  BY <1>1 DEF IInv
  <1> QED  BY <1>1, <1>2, <1>3, <1>4, <1>5 DEF IInv

LEMMA StartInv ==
    ASSUME IInv, Start
    PROVE  IInv'
  <1>1. /\ at = "idle" /\ at' = "loop" /\ gr' = gr /\ fast' = fast
        /\ xr' \in DOMAIN Spectra /\ lay' \in DOMAIN Layouts /\ budget' \in Budgets
        /\ cache' = <<>> /\ o' = Loop0 /\ gc' = NoCoding
    BY DEF Start, ResetCache
  <1>2. gr' \in Seq(Codings) /\ fast' \in BOOLEAN  BY <1>1 DEF IInv
  <1>3. ScalefactorsSurvive'  BY <1>1 DEF ScalefactorsSurvive
  <1>4. CacheOwn'
    <2>1. DOMAIN cache' = {}  BY <1>1
    <2> QED  BY <2>1 DEF CacheOwn
  <1>5. GranuleInv'  BY <1>1 DEF GranuleInv
  <1>6. LoopOf(fast, xr, lay, budget, o)'
    <2>1. NoScalefactors \in Sf  BY NoScalefactorsType
    <2>2. Loop0 \in LoopType(lay')
      BY <2>1 DEF Loop0, LoopType, None
    <2>3. /\ Loop0.best = NoCoding /\ Loop0.sf = NoScalefactors /\ Loop0.prev = <<>>
          /\ Loop0.pending = None /\ Loop0.iters = 1
      BY DEF Loop0
    <2> QED  BY <1>1, <2>2, <2>3 DEF LoopOf
  <1> QED  BY <1>1, <1>2, <1>3, <1>4, <1>5, <1>6 DEF IInv

-----------------------------------------------------------------------------
LEMMA InitIInv == Init => IInv
  <1> SUFFICES ASSUME Init PROVE IInv  OBVIOUS
  <1>1. /\ fast \in BOOLEAN /\ at = "idle" /\ gr = <<>> /\ cache = <<>>
        /\ gc = NoCoding
    BY DEF Init
  <1>2. DOMAIN cache = {}  BY <1>1
  <1>3. gr \in Seq(Codings)  BY <1>1
  <1> QED  BY <1>1, <1>2, <1>3 DEF IInv, CacheOwn, ScalefactorsSurvive

\* IInv is inductive.
THEOREM Inductive == Spec => []IInv
  <1>1. IInv /\ [Next]_vars => IInv'
    <2> SUFFICES ASSUME IInv, [Next]_vars PROVE IInv'  OBVIOUS
    <2>1. CASE Start  BY <2>1, StartInv
    <2>2. CASE Pass  BY <2>2, PassInv
    <2>3. CASE Scfsi  BY <2>3, ScfsiInv
    <2>4. CASE NextFrame  BY <2>4, NextFrameInv
    <2>5. CASE UNCHANGED vars
      <3>1. UNCHANGED <<fast, at, xr, lay, budget, o, gc, cache, gr>>  BY <2>5 DEF vars
      <3>2. CacheOwn'  BY <3>1 DEF IInv, CacheOwn
      <3>3. ScalefactorsSurvive'  BY <3>1 DEF IInv, ScalefactorsSurvive, Decoded
      <3>4. (at = "loop" \/ gc # NoCoding => GranuleInv)'  BY <3>1 DEF IInv, GranuleInv
      <3> QED  BY <3>1, <3>2, <3>3, <3>4 DEF IInv
    <2> QED  BY <2>1, <2>2, <2>3, <2>4, <2>5 DEF Next
  <1> QED  BY InitIInv, <1>1, PTL DEF Spec

\* Every coding is of the granule's own spectrum and within its budget, at the finest gain
\* that fits in the exact mode, at one that fits in the fast mode, and with lines zeroed
\* only where no gain fits (codeGranule, chooseGlobalGain and its fast form, gaincache.go).
THEOREM FindsFittingGainHolds == Spec => []FindsFittingGain
  <1>1. IInv => FindsFittingGain
    <2> SUFFICES ASSUME IInv, gc.set PROVE FindsFittingGain  BY DEF FindsFittingGain
    <2>1. OwnOf(fast, xr, lay, gc)  BY NoCodingSet DEF IInv
    <2>2. Fits(fast, xr, lay, gc.sf, gc.eff, gc.gain, gc.ix)  BY <2>1 DEF OwnOf
    <2>3. /\ \A gg : Recode(gc.sf, gg) = RecodeOf(xr, lay, gc.sf, gg)
          /\ MinGlobalGain(gc.sf) = MinGainOf(xr, lay, gc.sf)
      BY DEF Recode, RecodeOf, MinGlobalGain, MinGainOf
    <2>4. {gg \in MinGlobalGain(gc.sf)..MaxGain : HuffmanBits(Recode(gc.sf, gg)) <= gc.eff}
            = Fitting(xr, lay, gc.sf, gc.eff)
      BY <2>3 DEF Fitting
    <2> QED  BY <2>2, <2>3, <2>4 DEF FindsFittingGain, Fits
  <1> QED  BY Inductive, <1>1, PTL

\* What outerLoop keeps is at least as well masked as what the plain rate loop would have
\* coded, whatever was amplified, re-expressed and rolled back (loop.go).
THEOREM NeverWorseThanPlainHolds == Spec => []NeverWorseThanPlain
  <1>1. IInv => NeverWorseThanPlain
    <2> SUFFICES ASSUME IInv, at # "loop", gc.set
                 PROVE  ~Better(Metrics(CodeGranule(NoScalefactors,
                                                    MinOf(budget, MaxPart23Length)).ix),
                                Metrics(gc.ix))
      BY DEF NeverWorseThanPlain
    <2>1. gc # NoCoding  BY NoCodingSet
    <2>2. NoWorseOf(fast, xr, lay, budget, gc) /\ CacheOwn  BY <2>1 DEF IInv
    <2>3. CodeGranule(NoScalefactors, MinOf(budget, MaxPart23Length)).ix
            = PlainOf(fast, xr, lay, budget)
      BY <2>2, GranuleIs DEF PlainOf
    <2> QED  BY <2>2, <2>3 DEF NoWorseOf
  <1> QED  BY Inductive, <1>1, PTL

\* The scalefactors the lines were quantized with are those a decoder reads, whether sent
\* or shared through scfsi, in the bits part2_3_length says (scalefac.go).
THEOREM ScalefactorsSurviveHolds == Spec => []ScalefactorsSurvive
  <1>1. IInv => ScalefactorsSurvive  BY DEF IInv
  <1> QED  BY Inductive, <1>1, PTL
=============================================================================
