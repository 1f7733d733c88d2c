--------------------------- MODULE DataInduction ---------------------------
(***************************************************************************)
(* Facts that need induction over data, and what is used in place of it:   *)
(* of the counterexamples to a claim, one is least.  First numbers and     *)
(* recursive functions on an interval of them; then sums over finite sets, *)
(* as MapThenSumSet of the community modules makes them: an element is     *)
(* chosen, its value added to the sum over the others.  The order of the   *)
(* choices turns out not to matter.  Everything is stated of functions and *)
(* sets, because a lemma about every operator could not be applied.        *)
(***************************************************************************)
EXTENDS Integers, Sequences, FiniteSetsExt, FiniteSetTheorems, WellFoundedInduction, TLAPS

-----------------------------------------------------------------------------
(* Numbers.                                                                *)

(* A nonempty set of naturals has a least element.                         *)
LEMMA MinimumExists ==
  ASSUME NEW D, D \subseteq Nat, D # {}
  PROVE  \E d \in D : \A e \in D : d <= e
<1> DEFINE less == OpToRel(<, Nat)
<1>1. \A x, y \in Nat : <<y, x>> \notin less => x <= y
  BY DEF OpToRel
<1>2. IsWellFoundedOn(less, Nat)
  BY NatLessThanWellFounded
<1> HIDE DEF less
<1>3. \E d \in D : \A e \in D : <<e, d>> \notin less
  BY <1>2, WFMin
<1> QED
  BY <1>1, <1>3

(* A set that has the first number of an interval, and with every number   *)
(* the next, has them all.                                                 *)
LEMMA Induction ==
  ASSUME NEW n \in Nat, NEW P, 0 \in P, \A i \in 1 .. n : i - 1 \in P => i \in P
  PROVE  \A i \in 0 .. n : i \in P
<1> DEFINE Bad == {i \in 0 .. n : i \notin P}
<1>1. SUFFICES ASSUME Bad # {}
               PROVE  FALSE
  OBVIOUS
<1>2. PICK i \in Bad : \A j \in Bad : i <= j
  <2>1. Bad \subseteq Nat
    OBVIOUS
  <2> HIDE DEF Bad
  <2> QED
    BY <1>1, <2>1, MinimumExists
<1>3. i \in 1 .. n /\ i - 1 \in 0 .. n /\ ~(i <= i - 1)
  BY <1>2
<1>4. i - 1 \notin Bad
  BY <1>2, <1>3
<1> QED
  BY <1>2, <1>3, <1>4

(* A step is a function of where one is and of the number reached.         *)
Iterates(f, base, step, n) ==
  f[0] = base /\ \A i \in 1 .. n : f[i] = step[<<f[i - 1], i>>]

(* Steps from a place that stay among the places can be iterated.          *)
LEMMA IterationExists ==
  ASSUME NEW S, NEW base \in S, NEW n \in Nat, NEW step \in [S \X (1 .. n) -> S]
  PROVE  \E f \in [0 .. n -> S] : Iterates(f, base, step, n)
<1> DEFINE Reached(k) == \E f \in [0 .. k -> S] : Iterates(f, base, step, k)
           P == {k \in 0 .. n : Reached(k)}
<1>1. 0 \in P
  <2> DEFINE f == [i \in 0 .. 0 |-> base]
  <2>1. f \in [0 .. 0 -> S] /\ Iterates(f, base, step, 0)
    BY DEF Iterates
  <2> QED
    BY <2>1
<1>2. ASSUME NEW k \in 1 .. n, k - 1 \in P
      PROVE  k \in P
  <2>1. PICK f \in [0 .. k - 1 -> S] : Iterates(f, base, step, k - 1)
    BY <1>2
  <2> DEFINE next == step[<<f[k - 1], k>>]
             g == [i \in 0 .. k |-> IF i = k THEN next ELSE f[i]]
  <2>2. k - 1 \in 0 .. k - 1
    OBVIOUS
  <2>3. next \in S
    BY <2>1, <2>2
  <2>4. g \in [0 .. k -> S]
    <3>1. \A i \in 0 .. k : i # k => i \in 0 .. k - 1
      OBVIOUS
    <3> HIDE DEF next
    <3> QED
      BY <2>1, <2>3, <3>1
  <2>5. ASSUME NEW i \in 1 .. k
        PROVE  g[i] = step[<<g[i - 1], i>>]
    <3>1. g[i - 1] = f[i - 1]
      OBVIOUS
    <3>2. CASE i = k
      <4>1. g[i] = next
        BY <3>2
      <4>2. next = step[<<g[i - 1], i>>]
        BY <3>1, <3>2
      <4> QED
        BY <4>1, <4>2
    <3>3. CASE i # k
      <4>1. i \in 1 .. k - 1 /\ g[i] = f[i]
        BY <3>3
      <4> QED
        BY <2>1, <3>1, <4>1 DEF Iterates
    <3> QED
      BY <3>2, <3>3
  <2>6. g[0] = base
    BY <2>1 DEF Iterates
  <2> HIDE DEF g
  <2> QED
    BY <2>4, <2>5, <2>6 DEF Iterates
<1> HIDE DEF P
<1>3. n \in P
  BY <1>1, <1>2, Induction
<1> QED
  BY <1>3 DEF P

(* Whatever steps from a place to a place, from the base on, stays there.  *)
LEMMA IterationType ==
  ASSUME NEW S, NEW base \in S, NEW n \in Nat, NEW step \in [S \X (1 .. n) -> S],
         NEW f, f[0] = base, \A i \in 1 .. n : f[i - 1] \in S => f[i] = step[<<f[i - 1], i>>]
  PROVE  \A i \in 0 .. n : f[i] \in S
<1> DEFINE P == {i \in 0 .. n : f[i] \in S}
<1>1. 0 \in P
  OBVIOUS
<1>2. ASSUME NEW i \in 1 .. n, i - 1 \in P
      PROVE  i \in P
  <2>1. f[i] = step[<<f[i - 1], i>>] /\ <<f[i - 1], i>> \in S \X (1 .. n)
    BY <1>2
  <2>2. step[<<f[i - 1], i>>] \in S
    BY <2>1
  <2> QED
    BY <2>1, <2>2
<1> HIDE DEF P
<1>3. \A i \in 0 .. n : i \in P
  BY <1>1, <1>2, Induction
<1> QED
  BY <1>3 DEF P

(* What every number has if the smaller ones have it, all have; the same   *)
(* from above.                                                             *)
Ascends(P, n) == \A i \in 0 .. n : (\A j \in 0 .. i - 1 : j \in P) => i \in P
Descends(P, n) == \A i \in 0 .. n : (\A j \in i + 1 .. n : j \in P) => i \in P

(* From below.                                                             *)
LEMMA InductionUp ==
  ASSUME NEW n \in Nat, NEW P, Ascends(P, n)
  PROVE  \A i \in 0 .. n : i \in P
<1> DEFINE Q == {i \in 0 .. n : \A j \in 0 .. i : j \in P}
<1>1. 0 \in Q
  BY DEF Ascends
<1>2. ASSUME NEW i \in 1 .. n, i - 1 \in Q
      PROVE  i \in Q
  <2>1. \A j \in 0 .. i - 1 : j \in P
    BY <1>2
  <2>2. i \in P
    BY <2>1 DEF Ascends
  <2>3. \A j \in 0 .. i : j \in 0 .. i - 1 \/ j = i
    OBVIOUS
  <2> QED
    BY <2>1, <2>2, <2>3
<1>3. \A i \in 0 .. n : i \in Q
  <2> HIDE DEF Q
  <2> QED
    BY <1>1, <1>2, Induction
<1> QED
  BY <1>3

(* From above.                                                             *)
LEMMA InductionDown ==
  ASSUME NEW n \in Nat, NEW P, Descends(P, n)
  PROVE  \A i \in 0 .. n : i \in P
<1> DEFINE Q == {k \in 0 .. n : n - k \in P}
<1>1. ASSUME NEW k \in 0 .. n, \A j \in 0 .. k - 1 : j \in Q
      PROVE  k \in Q
  <2>1. n - k \in 0 .. n
    OBVIOUS
  <2>2. ASSUME NEW j \in (n - k) + 1 .. n
        PROVE  j \in P
    <3>1. n - j \in 0 .. k - 1 /\ n - (n - j) = j
      OBVIOUS
    <3> QED
      BY <1>1, <3>1
  <2> QED
    BY <2>1, <2>2 DEF Descends
<1>2. \A k \in 0 .. n : k \in Q
  <2> HIDE DEF Q
  <2>1. Ascends(Q, n)
    BY <1>1 DEF Ascends
  <2> QED
    BY <2>1, InductionUp
<1>3. \A i \in 0 .. n : n - i \in 0 .. n /\ n - (n - i) = i
  OBVIOUS
<1> QED
  BY <1>2, <1>3

(* A recursion takes a function to the function whose values its body      *)
(* computes from it; the recursive function is one that it takes to        *)
(* itself.  The body at a number looks at smaller numbers only, one or     *)
(* many, however far down, or at larger ones.                              *)
LooksDown(step, S, n) ==
  \A f, g \in [0 .. n -> S] : \A i \in 0 .. n :
    (\A j \in 0 .. i - 1 : f[j] = g[j]) => step[f][i] = step[g][i]
LooksUp(step, S, n) ==
  \A f, g \in [0 .. n -> S] : \A i \in 0 .. n :
    (\A j \in i + 1 .. n : f[j] = g[j]) => step[f][i] = step[g][i]

(* There is such a function if the body looks at smaller numbers only.     *)
LEMMA RecursionUp ==
  ASSUME NEW S, S # {}, NEW n \in Nat, NEW step \in [[0 .. n -> S] -> [0 .. n -> S]],
         LooksDown(step, S, n)
  PROVE  \E f \in [0 .. n -> S] : f = step[f]
<1> DEFINE P == {k \in 0 .. n : \E f \in [0 .. n -> S] :
                   \A i \in 0 .. k : f[i] = step[f][i]}
<1>0. ASSUME NEW k \in 0 .. n, NEW f \in [0 .. n -> S],
             \A i \in 0 .. k - 1 : f[i] = step[f][i]
      PROVE  k \in P
  <2> DEFINE g == step[f]
  <2>1. g \in [0 .. n -> S] /\ step[g] \in [0 .. n -> S]
    OBVIOUS
  <2>2. \A i \in 0 .. k - 1 : g[i] = f[i]
    BY <1>0
  <2>3. ASSUME NEW i \in 0 .. k
        PROVE  g[i] = step[g][i]
    <3>1. \A j \in 0 .. i - 1 : f[j] = g[j]
      BY <2>2
    <3>2. i \in 0 .. n
      OBVIOUS
    <3> HIDE DEF g
    <3>3. step[f][i] = step[g][i]
      BY <2>1, <3>1, <3>2 DEF LooksDown
    <3> QED
      BY <3>3 DEF g
  <2> HIDE DEF g
  <2> QED
    BY <2>1, <2>3
<1>1. 0 \in P
  <2>1. PICK s \in S : TRUE
    OBVIOUS
  <2>2. [i \in 0 .. n |-> s] \in [0 .. n -> S]
    OBVIOUS
  <2> HIDE DEF P
  <2>3. 0 \in 0 .. n
    OBVIOUS
  <2>4. PICK f : f \in [0 .. n -> S]
    BY <2>2
  <2>5. \A i \in 0 .. 0 - 1 : f[i] = step[f][i]
    OBVIOUS
  <2> DEFINE z == 0
  <2>6. z \in 0 .. n /\ \A i \in 0 .. z - 1 : f[i] = step[f][i]
    BY <2>3, <2>5
  <2> HIDE DEF z
  <2>7. z \in P
    BY <1>0, <2>4, <2>6
  <2> QED
    BY <2>7 DEF z
<1>2. ASSUME NEW k \in 1 .. n, k - 1 \in P
      PROVE  k \in P
  <2>1. PICK f \in [0 .. n -> S] : \A i \in 0 .. k - 1 : f[i] = step[f][i]
    BY <1>2
  <2> HIDE DEF P
  <2> QED
    BY <1>0, <2>1
<1>3. n \in P
  <2> HIDE DEF P
  <2> QED
    BY <1>1, <1>2, Induction
<1>4. PICK f \in [0 .. n -> S] : \A i \in 0 .. n : f[i] = step[f][i]
  BY <1>3
<1>5. step[f] \in [0 .. n -> S]
  OBVIOUS
<1>6. f = step[f]
  BY <1>4, <1>5
<1> QED
  BY <1>6

(* And if it looks at larger numbers only.                                 *)
LEMMA RecursionDown ==
  ASSUME NEW S, S # {}, NEW n \in Nat, NEW step \in [[0 .. n -> S] -> [0 .. n -> S]],
         LooksUp(step, S, n)
  PROVE  \E f \in [0 .. n -> S] : f = step[f]
<1> DEFINE F == [0 .. n -> S]
           back == [f \in F |-> [i \in 0 .. n |-> f[n - i]]]
           down == [f \in F |-> back[step[back[f]]]]
<1>1. ASSUME NEW f \in F
      PROVE  back[f] \in F /\ \A i \in 0 .. n : back[f][i] = f[n - i]
  <2>1. \A i \in 0 .. n : n - i \in 0 .. n
    OBVIOUS
  <2> QED
    BY <2>1
<1>2. ASSUME NEW f \in F
      PROVE  step[back[f]] \in F
  <2> HIDE DEF back
  <2> QED
    BY <1>1
<1>3. ASSUME NEW f \in F
      PROVE  down[f] = back[step[back[f]]] /\ down[f] \in F
  <2> HIDE DEF back
  <2> QED
    BY <1>1, <1>2
<1>4. down \in [F -> F]
  BY <1>3
<1> HIDE DEF down, back
<1>5. ASSUME NEW f \in F, NEW g \in F, NEW i \in 0 .. n,
             \A j \in 0 .. i - 1 : f[j] = g[j]
      PROVE  down[f][i] = down[g][i]
  <2>1. n - i \in 0 .. n
    OBVIOUS
  <2>2. \A j \in (n - i) + 1 .. n : back[f][j] = back[g][j]
    <3>1. \A j \in (n - i) + 1 .. n : j \in 0 .. n /\ n - j \in 0 .. i - 1
      OBVIOUS
    <3>2. \A j \in 0 .. n : back[f][j] = f[n - j] /\ back[g][j] = g[n - j]
      BY <1>1
    <3> QED
      BY <1>5, <3>1, <3>2
  <2>3. back[f] \in F /\ back[g] \in F
    BY <1>1
  <2>4. step[back[f]][n - i] = step[back[g]][n - i]
    BY <2>1, <2>2, <2>3 DEF LooksUp
  <2>5. step[back[f]] \in F /\ step[back[g]] \in F
    BY <1>2
  <2>6. down[f] = back[step[back[f]]] /\ down[g] = back[step[back[g]]]
    BY <1>3
  <2>7. /\ back[step[back[f]]][i] = step[back[f]][n - i]
        /\ back[step[back[g]]][i] = step[back[g]][n - i]
    BY <1>1, <2>5
  <2> QED
    BY <2>4, <2>6, <2>7
<1>6. PICK h \in F : h = down[h]
  <2>1. LooksDown(down, S, n)
    BY <1>5 DEF LooksDown
  <2>2. down \in [[0 .. n -> S] -> [0 .. n -> S]]
    BY <1>4
  <2> QED
    BY <2>1, <2>2, RecursionUp
<1>7. back[h] = step[back[h]]
  <2> DEFINE f == step[back[h]]
  <2>1. f \in F /\ back[h] \in F
    BY <1>1, <1>2
  <2>2. h = back[f]
    BY <1>3, <1>6
  <2> HIDE DEF f
  <2>3. \A i \in 0 .. n : back[h][i] = f[i]
    <3>1. \A i \in 0 .. n : n - i \in 0 .. n /\ n - (n - i) = i
      OBVIOUS
    <3> QED
      BY <1>1, <2>1, <2>2, <3>1
  <2>4. back[h] = f
    BY <2>1, <2>3
  <2> QED
    BY <2>4 DEF f
<1> QED
  BY <1>1, <1>7

-----------------------------------------------------------------------------
(* Sums.                                                                   *)

SumOver(f, S) == MapThenSumSet(LAMBDA x : f[x], S)

(* The recursion that MapThenSumSet runs, on a family of sets.             *)
Chosen(s) == CHOOSE x \in s : TRUE
Follows(it, f, s) ==
  it[s] = IF s = {} THEN 0 ELSE f[Chosen(s)] + it[s \ {Chosen(s)}]
Solves(it, f, S) == \A s \in SUBSET S : Follows(it, f, s)
TakesAny(it, f, S) == \A s \in SUBSET S : \A a \in s : it[s] = f[a] + it[s \ {a}]

(* Of some finite sets, one is smallest.                                   *)
LEMMA SmallestSet ==
  ASSUME NEW D, D # {}, \A s \in D : IsFiniteSet(s)
  PROVE  \E s \in D : \A t \in D : Cardinality(s) <= Cardinality(t)
<1> DEFINE N == {Cardinality(s) : s \in D}
<1>1. N \subseteq Nat
  BY FS_CardinalityType
<1>2. N # {}
  OBVIOUS
<1>3. PICK n \in N : \A m \in N : n <= m
  <2> HIDE DEF N
  <2> QED
    BY <1>1, <1>2, MinimumExists
<1>4. PICK s \in D : n = Cardinality(s)
  OBVIOUS
<1>5. \A t \in D : Cardinality(t) \in N
  OBVIOUS
<1> QED
  BY <1>3, <1>4, <1>5

(* A finite set without one of its elements is smaller.                    *)
LEMMA Smaller ==
  ASSUME NEW s, IsFiniteSet(s), NEW x \in s
  PROVE  /\ IsFiniteSet(s \ {x})
         /\ Cardinality(s) \in Nat /\ Cardinality(s \ {x}) \in Nat
         /\ Cardinality(s \ {x}) = Cardinality(s) - 1
BY FS_RemoveElement, FS_CardinalityType

(* What is chosen of a set is in it.                                       *)
LEMMA ChosenIn ==
  ASSUME NEW s, s # {}
  PROVE  Chosen(s) \in s
BY DEF Chosen

-----------------------------------------------------------------------------
(* The recursion has a solution.                                           *)

(* It can be solved on the subsets up to each size.                        *)
LEMMA SolvedUpTo ==
  ASSUME NEW S, IsFiniteSet(S), NEW f, \A x \in S : f[x] \in Int, NEW n \in Nat
  PROVE  \E it \in [{s \in SUBSET S : Cardinality(s) <= n} -> Int] :
           \A s \in DOMAIN it : Follows(it, f, s)
<1> DEFINE Small(k) == {s \in SUBSET S : Cardinality(s) <= k}
           Solved(k) == \E it \in [Small(k) -> Int] : \A s \in Small(k) : Follows(it, f, s)
           Bad == {k \in Nat : ~Solved(k)}
<1>0. \A s \in SUBSET S : IsFiniteSet(s) /\ Cardinality(s) \in Nat
  BY FS_Subset, FS_CardinalityType
<1>1. SUFFICES ASSUME Bad # {}
               PROVE  FALSE
  <2>1. CASE Bad = {}
    BY <2>1
  <2> QED
    BY <2>1
<1>2. PICK k \in Bad : \A j \in Bad : k <= j
  <2> HIDE DEF Solved
  <2> QED
    BY <1>1, MinimumExists
<1>3. CASE k = 0
  <2>1. \A s \in Small(0) : s = {}
    BY <1>0, FS_EmptySet
  <2>2. \A s \in Small(0) : Follows([t \in Small(0) |-> 0], f, s)
    BY <2>1 DEF Follows
  <2>3. [t \in Small(0) |-> 0] \in [Small(0) -> Int]
    OBVIOUS
  <2>4. Solved(0)
    BY <2>2, <2>3
  <2> HIDE DEF Solved
  <2> QED
    BY <1>2, <1>3, <2>4
<1>4. CASE k # 0
  <2>1. k - 1 \in Nat /\ Solved(k - 1)
    <3> HIDE DEF Solved
    <3>1. k \in Nat /\ k - 1 \in Nat /\ ~(k <= k - 1)
      BY <1>2, <1>4
    <3>2. k - 1 \notin Bad
      BY <1>2, <3>1
    <3> QED
      BY <3>1, <3>2
  <2>2. PICK it \in [Small(k - 1) -> Int] : \A s \in Small(k - 1) : Follows(it, f, s)
    BY <2>1
  <2> DEFINE next == [s \in Small(k) |->
                        IF s = {} THEN 0 ELSE f[Chosen(s)] + it[s \ {Chosen(s)}]]
  <2>3. ASSUME NEW s \in Small(k), s # {}
        PROVE  /\ Chosen(s) \in S /\ s \ {Chosen(s)} \in Small(k - 1)
               /\ s \ {Chosen(s)} \in Small(k)
    <3>1. Chosen(s) \in s
      BY <2>3, ChosenIn
    <3>2. Cardinality(s \ {Chosen(s)}) = Cardinality(s) - 1
      BY <1>0, <3>1, Smaller
    <3>3. s \ {Chosen(s)} \in SUBSET S
      OBVIOUS
    <3> QED
      BY <1>0, <1>2, <2>1, <3>1, <3>2, <3>3
  <2>4. next \in [Small(k) -> Int]
    BY <2>3
  <2>5. ASSUME NEW s \in Small(k - 1)
        PROVE  s \in Small(k) /\ next[s] = it[s]
    <3>1. s \in Small(k)
      BY <1>0, <1>2, <2>1
    <3> QED
      BY <2>2, <3>1 DEF Follows
  <2>6. \A s \in Small(k) : Follows(next, f, s)
    BY <2>3, <2>5 DEF Follows
  <2> QED
    BY <1>2, <2>4, <2>6
<1> QED
  BY <1>3, <1>4

(* It has only one.                                                        *)
LEMMA OneSolution ==
  ASSUME NEW S, IsFiniteSet(S), NEW f, NEW it, NEW jt, Solves(it, f, S), Solves(jt, f, S)
  PROVE  \A s \in SUBSET S : it[s] = jt[s]
<1> DEFINE Bad == {s \in SUBSET S : it[s] # jt[s]}
<1>0. \A s \in SUBSET S : IsFiniteSet(s)
  BY FS_Subset
<1>1. SUFFICES ASSUME Bad # {}
               PROVE  FALSE
  OBVIOUS
<1>2. PICK s \in Bad : \A t \in Bad : Cardinality(s) <= Cardinality(t)
  <2> HIDE DEF Bad
  <2>1. \A t \in Bad : IsFiniteSet(t)
    BY <1>0 DEF Bad
  <2> QED
    BY <1>1, <2>1, SmallestSet
<1>3. s # {}
  BY <1>2 DEF Solves, Follows
<1> DEFINE t == s \ {Chosen(s)}
<1>4. Chosen(s) \in s
  BY <1>3, ChosenIn
<1>5. Cardinality(t) = Cardinality(s) - 1 /\ Cardinality(s) \in Nat
  BY <1>0, <1>2, <1>4, Smaller
<1>6. t \in SUBSET S /\ t \notin Bad
  BY <1>2, <1>5
<1>7. it[t] = jt[t]
  BY <1>6
<1> QED
  BY <1>2, <1>3, <1>7 DEF Solves, Follows

(* And the order in which it takes the elements does not matter.           *)
LEMMA AnyOrder ==
  ASSUME NEW S, IsFiniteSet(S), NEW f, \A x \in S : f[x] \in Int,
         NEW it \in [SUBSET S -> Int], Solves(it, f, S)
  PROVE  TakesAny(it, f, S)
<1> DEFINE Bad == {s \in SUBSET S : \E a \in s : it[s] # f[a] + it[s \ {a}]}
<1>0. \A s \in SUBSET S : IsFiniteSet(s)
  BY FS_Subset
<1>1. SUFFICES ASSUME Bad # {}
               PROVE  FALSE
  BY DEF TakesAny
<1>2. PICK s \in Bad : \A t \in Bad : Cardinality(s) <= Cardinality(t)
  <2> HIDE DEF Bad
  <2>1. \A t \in Bad : IsFiniteSet(t)
    BY <1>0 DEF Bad
  <2> QED
    BY <1>1, <2>1, SmallestSet
<1>3. PICK a \in s : it[s] # f[a] + it[s \ {a}]
  BY <1>2
<1> DEFINE c == Chosen(s)
<1>4. c \in s /\ it[s] = f[c] + it[s \ {c}]
  BY <1>2, <1>3, ChosenIn DEF Solves, Follows
<1>5. a # c
  BY <1>3, <1>4
<1> HIDE DEF c
<1>6. ASSUME NEW x \in s
      PROVE  s \ {x} \in SUBSET S /\ s \ {x} \notin Bad
  <2>1. Cardinality(s \ {x}) = Cardinality(s) - 1 /\ Cardinality(s) \in Nat
    BY <1>0, <1>2, Smaller
  <2> QED
    BY <1>2, <2>1
<1>7. it[s \ {c}] = f[a] + it[(s \ {c}) \ {a}]
  BY <1>4, <1>5, <1>6
<1>8. it[s \ {a}] = f[c] + it[(s \ {a}) \ {c}]
  BY <1>4, <1>5, <1>6
<1>9. (s \ {c}) \ {a} = (s \ {a}) \ {c}
  OBVIOUS
<1> DEFINE r == it[(s \ {a}) \ {c}]
<1>10. f[a] \in Int /\ f[c] \in Int /\ r \in Int
  BY <1>2, <1>4
<1>11. it[s] = f[c] + (f[a] + r) /\ it[s \ {a}] = f[c] + r
  BY <1>4, <1>7, <1>8, <1>9
<1> HIDE DEF r
<1> QED
  BY <1>3, <1>10, <1>11

(* Hence on all of them, and the sum is the value there.                   *)
LEMMA SumFollows ==
  ASSUME NEW S, IsFiniteSet(S), NEW f, \A x \in S : f[x] \in Int
  PROVE  \E it \in [SUBSET S -> Int] :
           /\ Solves(it, f, S)
           /\ SumOver(f, S) = it[S]
<1> DEFINE Rec(it) == [s \in SUBSET S |->
                         IF s = {} THEN 0
                         ELSE LET x == CHOOSE x \in s : TRUE IN f[x] + it[s \ {x}]]
           iter == CHOOSE it : it = Rec(it)
<1>1. Cardinality(S) \in Nat
  BY FS_CardinalityType
<1>2. {s \in SUBSET S : Cardinality(s) <= Cardinality(S)} = SUBSET S
  BY FS_Subset
<1>3. PICK it \in [SUBSET S -> Int] : Solves(it, f, S)
  <2> DEFINE D == {s \in SUBSET S : Cardinality(s) <= Cardinality(S)}
  <2>1. \E it \in [D -> Int] : \A s \in DOMAIN it : Follows(it, f, s)
    BY <1>1, SolvedUpTo
  <2> HIDE DEF D
  <2>2. \E it \in [D -> Int] : \A s \in D : Follows(it, f, s)
    BY <2>1
  <2>3. D = SUBSET S
    BY <1>2 DEF D
  <2> QED
    BY <2>2, <2>3 DEF Solves
<1>4. it = Rec(it)
  BY <1>3 DEF Solves, Follows, Chosen
<1>5. iter = Rec(iter)
  BY <1>4
<1>6. SumOver(f, S) = iter[S]
  BY DEF SumOver, MapThenSumSet, MapThenFoldSet
<1> HIDE DEF iter
<1>7. Solves(iter, f, S)
  BY <1>5 DEF Solves, Follows, Chosen
<1>8. \A s \in SUBSET S : iter[s] = it[s]
  BY <1>3, <1>7, OneSolution
<1>9. iter[S] = it[S]
  BY <1>8
<1> QED
  BY <1>3, <1>6, <1>9

-----------------------------------------------------------------------------
(* What sums do.                                                           *)

(* Nothing adds up to 0.                                                   *)
LEMMA SumEmpty ==
  ASSUME NEW f
  PROVE  SumOver(f, {}) = 0
<1> DEFINE E == {}
<1>1. IsFiniteSet(E) /\ \A x \in E : f[x] \in Int
  BY FS_EmptySet
<1>2. PICK it \in [SUBSET E -> Int] : Solves(it, f, E) /\ SumOver(f, E) = it[E]
  <2> HIDE DEF E
  <2> QED
    BY <1>1, SumFollows
<1> QED
  BY <1>2 DEF Solves, Follows

(* Whichever element is taken out, the sum is its value and the rest.      *)
LEMMA SumRemove ==
  ASSUME NEW S, IsFiniteSet(S), NEW f, \A x \in S : f[x] \in Int, NEW a \in S
  PROVE  /\ SumOver(f, S) \in Int /\ SumOver(f, S \ {a}) \in Int
         /\ SumOver(f, S) = f[a] + SumOver(f, S \ {a})
<1>1. PICK it \in [SUBSET S -> Int] :
        /\ Solves(it, f, S)
        /\ SumOver(f, S) = it[S]
  BY SumFollows
<1> DEFINE T == S \ {a}
<1>2. IsFiniteSet(T) /\ T \subseteq S
  BY FS_RemoveElement
<1>3. PICK jt \in [SUBSET T -> Int] :
        /\ Solves(jt, f, T)
        /\ SumOver(f, T) = jt[T]
  <2> HIDE DEF T
  <2> QED
    BY <1>2, SumFollows
<1>4. it[T] = jt[T]
  <2> HIDE DEF T
  <2>1. Solves(it, f, T)
    BY <1>1, <1>2 DEF Solves
  <2>2. \A s \in SUBSET T : it[s] = jt[s]
    BY <1>2, <1>3, <2>1, OneSolution
  <2> QED
    BY <2>2
<1>5. it[S] = f[a] + it[T]
  <2>1. it \in [SUBSET S -> Int] /\ Solves(it, f, S)
    BY <1>1
  <2>2. TakesAny(it, f, S)
    BY <2>1, AnyOrder
  <2> QED
    BY <2>2 DEF TakesAny
<1>6. it[S] \in Int /\ jt[T] \in Int
  BY <1>1, <1>3
<1> QED
  BY <1>1, <1>3, <1>4, <1>5, <1>6

(* A sum of integers is one.                                               *)
LEMMA SumType ==
  ASSUME NEW S, IsFiniteSet(S), NEW f, \A x \in S : f[x] \in Int
  PROVE  SumOver(f, S) \in Int
<1>1. PICK it \in [SUBSET S -> Int] : SumOver(f, S) = it[S]
  BY SumFollows
<1> QED
  BY <1>1

(* A sum depends on the values that it adds only.                          *)
LEMMA SumSame ==
  ASSUME NEW S, IsFiniteSet(S), NEW f, \A x \in S : f[x] \in Int,
         NEW g, \A x \in S : g[x] = f[x]
  PROVE  SumOver(g, S) = SumOver(f, S)
<1>1. PICK it \in [SUBSET S -> Int] :
        /\ Solves(it, f, S)
        /\ SumOver(f, S) = it[S]
  BY SumFollows
<1>2. PICK jt \in [SUBSET S -> Int] :
        /\ Solves(jt, g, S)
        /\ SumOver(g, S) = jt[S]
  BY SumFollows
<1>3. Solves(jt, f, S)
  BY <1>2, ChosenIn DEF Solves, Follows
<1>4. \A s \in SUBSET S : it[s] = jt[s]
  BY <1>1, <1>3, OneSolution
<1>5. it[S] = jt[S]
  BY <1>4
<1> QED
  BY <1>1, <1>2, <1>5

(* One element more adds its value.                                        *)
LEMMA SumAdd ==
  ASSUME NEW S, IsFiniteSet(S), NEW a, a \notin S,
         NEW f, \A x \in S \cup {a} : f[x] \in Int
  PROVE  SumOver(f, S \cup {a}) = f[a] + SumOver(f, S)
<1>1. IsFiniteSet(S \cup {a}) /\ (S \cup {a}) \ {a} = S
  BY FS_AddElement
<1> DEFINE T == S \cup {a}
<1>2. a \in T
  OBVIOUS
<1> HIDE DEF T
<1>3. SumOver(f, T) = f[a] + SumOver(f, T \ {a})
  BY <1>1, <1>2, SumRemove DEF T
<1> QED
  BY <1>1, <1>3 DEF T

(* A sum of numbers that are not negative.                                 *)
LEMMA SumNat ==
  ASSUME NEW S, IsFiniteSet(S), NEW f, \A x \in S : f[x] \in Nat
  PROVE  SumOver(f, S) \in Nat
<1> DEFINE Bad == {s \in SUBSET S : SumOver(f, s) \notin Nat}
<1>0. \A s \in SUBSET S : IsFiniteSet(s)
  BY FS_Subset
<1>1. SUFFICES ASSUME Bad # {}
               PROVE  FALSE
  OBVIOUS
<1>2. PICK s \in Bad : \A t \in Bad : Cardinality(s) <= Cardinality(t)
  <2> HIDE DEF Bad
  <2>1. \A t \in Bad : IsFiniteSet(t)
    BY <1>0 DEF Bad
  <2> QED
    BY <1>1, <2>1, SmallestSet
<1>3. PICK a \in s : TRUE
  BY <1>2, SumEmpty
<1>4. SumOver(f, s) = f[a] + SumOver(f, s \ {a})
  <2>1. IsFiniteSet(s) /\ \A x \in s : f[x] \in Int
    BY <1>0, <1>2
  <2> QED
    BY <2>1, SumRemove
<1>5. s \ {a} \in SUBSET S /\ s \ {a} \notin Bad
  BY <1>0, <1>2, Smaller
<1>6. SumOver(f, s \ {a}) \in Nat /\ f[a] \in Nat
  BY <1>2, <1>5
<1> QED
  BY <1>2, <1>4, <1>6

(* Values add up.                                                          *)
LEMMA SumOfSums ==
  ASSUME NEW S, IsFiniteSet(S), NEW f, NEW g, NEW h,
         \A x \in S : f[x] \in Int /\ g[x] \in Int /\ h[x] = f[x] + g[x]
  PROVE  SumOver(h, S) = SumOver(f, S) + SumOver(g, S)
<1> DEFINE Bad == {s \in SUBSET S : SumOver(h, s) # SumOver(f, s) + SumOver(g, s)}
<1>0. \A s \in SUBSET S : IsFiniteSet(s)
  BY FS_Subset
<1>1. SUFFICES ASSUME Bad # {}
               PROVE  FALSE
  OBVIOUS
<1>2. PICK s \in Bad : \A t \in Bad : Cardinality(s) <= Cardinality(t)
  <2> HIDE DEF Bad
  <2>1. \A t \in Bad : IsFiniteSet(t)
    BY <1>0 DEF Bad
  <2> QED
    BY <1>1, <2>1, SmallestSet
<1>3. PICK a \in s : TRUE
  <2>1. SumOver(f, {}) = 0 /\ SumOver(g, {}) = 0 /\ SumOver(h, {}) = 0
    BY SumEmpty
  <2> QED
    BY <1>2, <2>1
<1> DEFINE t == s \ {a}
<1>4. t \in SUBSET S /\ t \notin Bad
  BY <1>0, <1>2, Smaller
<1>5. SumOver(h, t) = SumOver(f, t) + SumOver(g, t)
  BY <1>4
<1>6. /\ f[a] \in Int /\ g[a] \in Int /\ h[a] = f[a] + g[a]
      /\ \A x \in s : f[x] \in Int /\ g[x] \in Int /\ h[x] \in Int
  BY <1>2
<1>7. /\ SumOver(f, s) = f[a] + SumOver(f, t) /\ SumOver(f, t) \in Int
      /\ SumOver(g, s) = g[a] + SumOver(g, t) /\ SumOver(g, t) \in Int
      /\ SumOver(h, s) = h[a] + SumOver(h, t)
  BY <1>0, <1>2, <1>6, SumRemove
<1>8. SumOver(h, s) # SumOver(f, s) + SumOver(g, s)
  BY <1>2
<1> HIDE DEF t
<1> QED
  BY <1>5, <1>6, <1>7, <1>8

(* Counting as a sum.                                                      *)
LEMMA SumCounts ==
  ASSUME NEW S, IsFiniteSet(S), NEW T, T \subseteq S,
         NEW f, \A x \in S : f[x] = IF x \in T THEN 1 ELSE 0
  PROVE  SumOver(f, S) = Cardinality(T)
<1> DEFINE Bad == {s \in SUBSET S : SumOver(f, s) # Cardinality(s \cap T)}
<1>0. \A s \in SUBSET S : IsFiniteSet(s)
  BY FS_Subset
<1>1. SUFFICES ASSUME Bad # {}
               PROVE  FALSE
  <2>1. SumOver(f, S) = Cardinality(S \cap T) /\ S \cap T = T
    BY <1>1
  <2> QED
    BY <2>1
<1>2. PICK s \in Bad : \A t \in Bad : Cardinality(s) <= Cardinality(t)
  <2> HIDE DEF Bad
  <2>1. \A t \in Bad : IsFiniteSet(t)
    BY <1>0 DEF Bad
  <2> QED
    BY <1>1, <2>1, SmallestSet
<1>3. PICK a \in s : TRUE
  <2>1. {} \cap T = {} /\ Cardinality({}) = 0
    BY FS_EmptySet
  <2> QED
    BY <1>2, <2>1, SumEmpty
<1> DEFINE t == s \ {a}
<1>4. t \in SUBSET S /\ t \notin Bad
  <2>1. Cardinality(t) = Cardinality(s) - 1 /\ Cardinality(s) \in Nat
    BY <1>0, <1>2, Smaller
  <2> QED
    BY <1>2, <2>1
<1>5. SumOver(f, t) = Cardinality(t \cap T)
  BY <1>4
<1>6. \A x \in s : f[x] \in Int
  BY <1>2
<1>7. SumOver(f, s) = f[a] + SumOver(f, t)
  BY <1>0, <1>2, <1>6, SumRemove
<1>8. SumOver(f, s) # Cardinality(s \cap T) /\ f[a] = IF a \in T THEN 1 ELSE 0
  BY <1>2
<1>9. IsFiniteSet(s \cap T) /\ IsFiniteSet(t \cap T)
  BY <1>0, <1>2
<1>10. CASE a \in T
  <2>1. t \cap T = (s \cap T) \ {a} /\ a \in s \cap T
    BY <1>10
  <2>2. Cardinality(t \cap T) = Cardinality(s \cap T) - 1 /\ Cardinality(s \cap T) \in Nat
    BY <1>9, <2>1, Smaller
  <2> QED
    BY <1>5, <1>7, <1>8, <1>10, <2>2
<1>11. CASE a \notin T
  <2>1. t \cap T = s \cap T /\ Cardinality(s \cap T) \in Nat
    BY <1>9, <1>11, FS_CardinalityType
  <2>2. f[a] = 0 /\ SumOver(f, t) = Cardinality(s \cap T)
    BY <1>5, <1>8, <1>11, <2>1
  <2> HIDE DEF t
  <2> QED
    BY <1>7, <1>8, <2>1, <2>2
<1> QED
  BY <1>10, <1>11

(* One value changes.                                                      *)
LEMMA SumUpdate ==
  ASSUME NEW S, IsFiniteSet(S), NEW f, \A x \in S : f[x] \in Int,
         NEW g, NEW a \in S, g[a] \in Int, \A x \in S \ {a} : g[x] = f[x]
  PROVE  SumOver(g, S) = SumOver(f, S) - f[a] + g[a]
<1>1. \A x \in S : g[x] \in Int
  OBVIOUS
<1> DEFINE T == S \ {a}
<1>2. IsFiniteSet(T) /\ \A x \in T : f[x] \in Int
  BY FS_RemoveElement
<1>3. SumOver(g, T) = SumOver(f, T)
  <2>1. \A x \in T : g[x] = f[x]
    OBVIOUS
  <2> HIDE DEF T
  <2> QED
    BY <1>2, <2>1, SumSame
<1>4. /\ SumOver(f, S) = f[a] + SumOver(f, T) /\ SumOver(f, T) \in Int
      /\ SumOver(g, S) = g[a] + SumOver(g, T)
  BY <1>1, SumRemove
<1>5. f[a] \in Int
  OBVIOUS
<1> HIDE DEF T
<1> QED
  BY <1>3, <1>4, <1>5

(* What counts for nothing can be left out of a sum.                       *)
LEMMA SumOutside ==
  ASSUME NEW S, IsFiniteSet(S), NEW f, \A x \in S : f[x] \in Int,
         NEW T, T \subseteq S, \A x \in S \ T : f[x] = 0
  PROVE  SumOver(f, S) = SumOver(f, T)
<1> DEFINE Bad == {s \in SUBSET (S \ T) : SumOver(f, T \cup s) # SumOver(f, T)}
<1>0. \A s \in SUBSET (S \ T) : IsFiniteSet(s) /\ IsFiniteSet(T \cup s) /\ T \cup s \subseteq S
  BY FS_Subset
<1>1. SUFFICES ASSUME Bad # {}
               PROVE  FALSE
  <2>1. S \ T \notin Bad => SumOver(f, T \cup (S \ T)) = SumOver(f, T)
    OBVIOUS
  <2>2. T \cup (S \ T) = S
    OBVIOUS
  <2> QED
    BY <1>1, <2>1, <2>2
<1>2. PICK s \in Bad : \A t \in Bad : Cardinality(s) <= Cardinality(t)
  <2>1. \A t \in Bad : IsFiniteSet(t)
    BY <1>0 DEF Bad
  <2> QED
    BY <1>1, <2>1, SmallestSet
<1>3. s # {}
  <2>1. T \cup {} = T
    OBVIOUS
  <2> QED
    BY <1>2, <2>1
<1>4. PICK a \in s : TRUE
  BY <1>3
<1>5. s \ {a} \in SUBSET (S \ T) /\ s \ {a} \notin Bad
  <2>1. s \in SUBSET (S \ T) /\ IsFiniteSet(s)
    BY <1>0, <1>2
  <2>2. /\ Cardinality(s) \in Nat /\ Cardinality(s \ {a}) \in Nat
        /\ Cardinality(s \ {a}) = Cardinality(s) - 1
    BY <1>4, <2>1, Smaller
  <2>3. s \ {a} \in SUBSET (S \ T)
    BY <2>1
  <2>4. s \ {a} \notin Bad
    <3> HIDE DEF Bad
    <3> QED
      BY <1>2, <2>2
  <2> QED
    BY <2>3, <2>4
<1>6. SumOver(f, T \cup (s \ {a})) = SumOver(f, T)
  BY <1>5
<1>7. a \in T \cup s /\ (T \cup s) \ {a} = T \cup (s \ {a}) /\ f[a] = 0
  BY <1>2, <1>4
<1>8. IsFiniteSet(T \cup s) /\ \A x \in T \cup s : f[x] \in Int
  BY <1>0, <1>2
<1>9. /\ SumOver(f, T \cup s) = f[a] + SumOver(f, (T \cup s) \ {a})
      /\ SumOver(f, (T \cup s) \ {a}) \in Int
  BY <1>7, <1>8, SumRemove
<1>10. SumOver(f, T \cup s) = SumOver(f, T)
  <2>1. SumOver(f, (T \cup s) \ {a}) = SumOver(f, T \cup (s \ {a}))
    BY <1>7
  <2> HIDE DEF Bad
  <2> QED
    BY <1>6, <1>7, <1>9, <2>1
<1> QED
  BY <1>2, <1>10

(* Greater values, greater sums.                                           *)
LEMMA SumAtMost ==
  ASSUME NEW S, IsFiniteSet(S), NEW f, NEW g,
         \A x \in S : f[x] \in Int /\ g[x] \in Int /\ f[x] <= g[x]
  PROVE  SumOver(f, S) <= SumOver(g, S)
<1> DEFINE d == [x \in S |-> g[x] - f[x]]
<1>1. \A x \in S : f[x] \in Int /\ d[x] \in Int /\ g[x] = f[x] + d[x] /\ d[x] \in Nat
  OBVIOUS
<1> HIDE DEF d
<1>2. SumOver(g, S) = SumOver(f, S) + SumOver(d, S)
  BY <1>1, SumOfSums
<1>3. SumOver(d, S) \in Nat /\ SumOver(f, S) \in Int
  BY <1>1, SumNat, SumType
<1> QED
  BY <1>2, <1>3

(* All values times a number.                                              *)
LEMMA SumScaled ==
  ASSUME NEW S, IsFiniteSet(S), NEW f, NEW k \in Int,
         NEW g, \A x \in S : f[x] \in Int /\ g[x] = k * f[x]
  PROVE  SumOver(g, S) = k * SumOver(f, S)
<1> DEFINE Bad == {s \in SUBSET S : SumOver(g, s) # k * SumOver(f, s)}
<1>0. \A s \in SUBSET S : IsFiniteSet(s)
  BY FS_Subset
<1>1. SUFFICES ASSUME Bad # {}
               PROVE  FALSE
  OBVIOUS
<1>2. PICK s \in Bad : \A t \in Bad : Cardinality(s) <= Cardinality(t)
  <2> HIDE DEF Bad
  <2>1. \A t \in Bad : IsFiniteSet(t)
    BY <1>0 DEF Bad
  <2> QED
    BY <1>1, <2>1, SmallestSet
<1>3. PICK a \in s : TRUE
  <2>1. SumOver(f, {}) = 0 /\ SumOver(g, {}) = 0
    BY SumEmpty
  <2>2. k * 0 = 0
    OBVIOUS
  <2> QED
    BY <1>2, <2>1, <2>2
<1> DEFINE t == s \ {a}
<1>4. t \in SUBSET S /\ t \notin Bad
  <2>1. Cardinality(t) = Cardinality(s) - 1 /\ Cardinality(s) \in Nat
    BY <1>0, <1>2, Smaller
  <2>2. t \in SUBSET S /\ ~(Cardinality(s) <= Cardinality(t))
    BY <1>2, <2>1
  <2> HIDE DEF Bad, t
  <2> QED
    BY <1>2, <2>2
<1>5. SumOver(g, t) = k * SumOver(f, t)
  BY <1>4
<1>6. /\ f[a] \in Int /\ g[a] = k * f[a]
      /\ \A x \in s : f[x] \in Int /\ g[x] \in Int
  BY <1>2
<1>7. /\ SumOver(f, s) = f[a] + SumOver(f, t) /\ SumOver(f, t) \in Int
      /\ SumOver(g, s) = g[a] + SumOver(g, t)
  BY <1>0, <1>2, <1>6, SumRemove
<1>8. SumOver(g, s) # k * SumOver(f, s)
  BY <1>2
<1> HIDE DEF t
<1>9. k * (f[a] + SumOver(f, t)) = k * f[a] + k * SumOver(f, t)
  BY <1>6, <1>7
<1> QED
  BY <1>5, <1>6, <1>7, <1>8, <1>9

(* What a function has for a finite set is finite, and as many if none     *)
(* comes twice.                                                            *)
LEMMA ImageFinite ==
  ASSUME NEW T, IsFiniteSet(T), NEW m
  PROVE  /\ IsFiniteSet({m[t] : t \in T})
         /\ (\A t, u \in T : m[t] = m[u] => t = u)
              => Cardinality({m[t] : t \in T}) = Cardinality(T)
<1> DEFINE I == {m[t] : t \in T}
           n == [t \in T |-> m[t]]
<1>1. n \in Surjection(T, I)
  BY DEF Surjection
<1>2. (\A t, u \in T : m[t] = m[u] => t = u) => n \in Injection(T, I)
  BY DEF Injection, IsInjective
<1> HIDE DEF n, I
<1>3. IsFiniteSet(I) /\ (Cardinality(I) = Cardinality(T) <=> n \in Injection(T, I))
  BY <1>1, FS_Surjection
<1> QED
  BY <1>2, <1>3 DEF I

(* Sums may be taken over other names for the same elements.               *)
LEMMA SumRenamed ==
  ASSUME NEW T, IsFiniteSet(T), NEW m, \A t, u \in T : m[t] = m[u] => t = u,
         NEW f, \A t \in T : f[m[t]] \in Int, NEW g, \A t \in T : g[t] = f[m[t]]
  PROVE  SumOver(f, {m[t] : t \in T}) = SumOver(g, T)
<1> DEFINE Of(s) == {m[t] : t \in s}
           Bad == {s \in SUBSET T : SumOver(f, Of(s)) # SumOver(g, s)}
<1>0. \A s \in SUBSET T : IsFiniteSet(s)
  BY FS_Subset
<1>1. SUFFICES ASSUME Bad # {}
               PROVE  FALSE
  OBVIOUS
<1>2. PICK s \in Bad : \A t \in Bad : Cardinality(s) <= Cardinality(t)
  <2> HIDE DEF Bad
  <2>1. \A t \in Bad : IsFiniteSet(t)
    BY <1>0 DEF Bad
  <2> QED
    BY <1>1, <2>1, SmallestSet
<1>3. PICK a \in s : TRUE
  <2>1. SumOver(f, {}) = 0 /\ SumOver(g, {}) = 0
    BY SumEmpty
  <2>2. Of({}) = {}
    OBVIOUS
  <2>3. s # {}
    BY <1>2, <2>1, <2>2
  <2> QED
    BY <2>3
<1> DEFINE t == s \ {a}
<1>4a. t \in SUBSET T /\ t \notin Bad
  <2>1. Cardinality(t) = Cardinality(s) - 1 /\ Cardinality(s) \in Nat
    BY <1>0, <1>2, Smaller
  <2>2. t \in SUBSET T /\ ~(Cardinality(s) <= Cardinality(t))
    BY <1>2, <2>1
  <2> HIDE DEF Bad, t
  <2> QED
    BY <1>2, <2>2
<1>4. t \in SUBSET T /\ t \notin Bad /\ s \in SUBSET T /\ a \in T
  <2>1. s \in SUBSET T /\ a \in T
    BY <1>2, <1>3
  <2> QED
    BY <1>4a, <2>1
<1>5. SumOver(f, Of(t)) = SumOver(g, t)
  BY <1>4
<1>6. Of(s) = Of(t) \cup {m[a]} /\ m[a] \notin Of(t)
  <2>1. m[a] \notin Of(t)
    BY <1>4
  <2>2. Of(s) = Of(t) \cup {m[a]}
    BY <1>3
  <2> QED
    BY <2>1, <2>2
<1>7. IsFiniteSet(Of(s)) /\ IsFiniteSet(Of(t))
  <2>1. IsFiniteSet(s) /\ IsFiniteSet(t)
    BY <1>0, <1>4
  <2> QED
    BY <2>1, ImageFinite
<1>8. \A x \in Of(s) : f[x] \in Int
  BY <1>4
<1>9. SumOver(f, Of(s)) = f[m[a]] + SumOver(f, Of(t))
  <2>1. \A x \in Of(t) \cup {m[a]} : f[x] \in Int
    BY <1>6, <1>8
  <2> HIDE DEF Of, t
  <2> QED
    BY <1>6, <1>7, <2>1, SumAdd
<1>10. SumOver(g, s) = g[a] + SumOver(g, t)
  <2>1. \A x \in s : g[x] \in Int
    BY <1>4
  <2> QED
    BY <1>0, <1>4, <2>1, SumRemove
<1>11. SumOver(f, Of(s)) # SumOver(g, s) /\ g[a] = f[m[a]]
  BY <1>2, <1>4
<1> HIDE DEF Of, t
<1> QED
  BY <1>5, <1>9, <1>10, <1>11

-----------------------------------------------------------------------------
(* Folds over a set, of which sums are one: FoldSet of the community       *)
(* modules takes an element at a time, in the order of CHOOSE.  A step is  *)
(* again a function, of an element and of what the fold has come to.       *)

FoldsAt(it, base, step, s) ==
  it[s] = IF s = {} THEN base ELSE step[<<Chosen(s), it[s \ {Chosen(s)}]>>]

(* The recursion has a solution on the subsets up to each size.            *)
LEMMA FoldUpTo ==
  ASSUME NEW S, IsFiniteSet(S), NEW base, NEW step, NEW n \in Nat
  PROVE  \E it : \A s \in SUBSET S : Cardinality(s) <= n => FoldsAt(it, base, step, s)
<1> DEFINE Small(k) == {s \in SUBSET S : Cardinality(s) <= k}
           Solved(k) == \E it : \A s \in Small(k) : FoldsAt(it, base, step, s)
           Bad == {k \in Nat : ~Solved(k)}
<1>0. \A s \in SUBSET S : IsFiniteSet(s) /\ Cardinality(s) \in Nat
  BY FS_Subset, FS_CardinalityType
<1>1. SUFFICES ASSUME Bad # {}
               PROVE  FALSE
  <2>1. CASE Bad = {}
    BY <2>1
  <2> QED
    BY <2>1
<1>2. PICK k \in Bad : \A j \in Bad : k <= j
  <2> HIDE DEF Solved
  <2> QED
    BY <1>1, MinimumExists
<1>3. CASE k = 0
  <2>1. \A s \in Small(0) : s = {}
    BY <1>0, FS_EmptySet
  <2>2. \A s \in Small(0) : FoldsAt([t \in Small(0) |-> base], base, step, s)
    BY <2>1 DEF FoldsAt
  <2>3. Solved(0)
    BY <2>2
  <2> HIDE DEF Solved
  <2> QED
    BY <1>2, <1>3, <2>3
<1>4. CASE k # 0
  <2>1. k - 1 \in Nat /\ Solved(k - 1)
    <3> HIDE DEF Solved
    <3>1. k \in Nat /\ k - 1 \in Nat /\ ~(k <= k - 1)
      BY <1>2, <1>4
    <3>2. k - 1 \notin Bad
      BY <1>2, <3>1
    <3> QED
      BY <3>1, <3>2
  <2>2. PICK it : \A s \in Small(k - 1) : FoldsAt(it, base, step, s)
    BY <2>1
  <2> DEFINE next == [s \in Small(k) |->
                        IF s = {} THEN base ELSE step[<<Chosen(s), it[s \ {Chosen(s)}]>>]]
  <2>3. ASSUME NEW s \in Small(k), s # {}
        PROVE  s \ {Chosen(s)} \in Small(k - 1) /\ s \ {Chosen(s)} \in Small(k)
    <3>1. Chosen(s) \in s
      BY <2>3, ChosenIn
    <3>2. Cardinality(s \ {Chosen(s)}) = Cardinality(s) - 1
      BY <1>0, <3>1, Smaller
    <3>3. s \ {Chosen(s)} \in SUBSET S
      OBVIOUS
    <3> QED
      BY <1>0, <1>2, <2>1, <3>1, <3>2, <3>3
  <2>4. ASSUME NEW s \in Small(k - 1)
        PROVE  s \in Small(k) /\ next[s] = it[s]
    <3>1. s \in Small(k)
      BY <1>0, <1>2, <2>1
    <3> QED
      BY <2>2, <3>1 DEF FoldsAt
  <2>5. \A s \in Small(k) : FoldsAt(next, base, step, s)
    BY <2>3, <2>4 DEF FoldsAt
  <2> QED
    BY <1>2, <2>5
<1> QED
  BY <1>3, <1>4

(* Hence on all of them.                                                   *)
LEMMA FoldExists ==
  ASSUME NEW S, IsFiniteSet(S), NEW base, NEW step
  PROVE  \E it : \A s \in SUBSET S : FoldsAt(it, base, step, s)
<1>1. Cardinality(S) \in Nat /\ \A s \in SUBSET S : Cardinality(s) <= Cardinality(S)
  BY FS_CardinalityType, FS_Subset
<1>2. PICK it : \A s \in SUBSET S : Cardinality(s) <= Cardinality(S) => FoldsAt(it, base, step, s)
  BY <1>1, FoldUpTo
<1> QED
  BY <1>1, <1>2

(* What holds before the first element and is kept by each one more holds  *)
(* of every subset.                                                        *)
LEMMA FoldStays ==
  ASSUME NEW S, IsFiniteSet(S), NEW J, NEW it, it[{}] \in J[{}],
         \A s \in SUBSET S :
           s # {} /\ it[s \ {Chosen(s)}] \in J[s \ {Chosen(s)}] => it[s] \in J[s]
  PROVE  \A s \in SUBSET S : it[s] \in J[s]
<1> DEFINE Bad == {s \in SUBSET S : it[s] \notin J[s]}
<1>0. \A s \in SUBSET S : IsFiniteSet(s)
  BY FS_Subset
<1>1. SUFFICES ASSUME Bad # {}
               PROVE  FALSE
  OBVIOUS
<1>2. PICK s \in Bad : \A t \in Bad : Cardinality(s) <= Cardinality(t)
  <2> HIDE DEF Bad
  <2>1. \A t \in Bad : IsFiniteSet(t)
    BY <1>0 DEF Bad
  <2> QED
    BY <1>1, <2>1, SmallestSet
<1>3. s # {}
  BY <1>2
<1>4. Chosen(s) \in s
  BY <1>3, ChosenIn
<1>5. s \ {Chosen(s)} \in SUBSET S /\ s \ {Chosen(s)} \notin Bad
  BY <1>0, <1>2, <1>4, Smaller
<1> QED
  BY <1>2, <1>3, <1>5

(* A fold of steps that each keep to what they should: there is one.       *)
StepKeeps(S, step, J) ==
  \A s \in SUBSET S : s # {} =>
    \A a \in J[s \ {Chosen(s)}] : step[<<Chosen(s), a>>] \in J[s]

Folded(it, base, step, S) ==
  it = [s \in SUBSET S |-> IF s = {} THEN base ELSE step[<<Chosen(s), it[s \ {Chosen(s)}]>>]]

(* What every step of a fold keeps holds of all its stages.                *)
LEMMA FoldKeeps ==
  ASSUME NEW S, IsFiniteSet(S), NEW J, NEW base \in J[{}], NEW step, StepKeeps(S, step, J),
         NEW it, Folded(it, base, step, S)
  PROVE  \A s \in SUBSET S : it[s] \in J[s]
<1>1. \A s \in SUBSET S :
        it[s] = IF s = {} THEN base ELSE step[<<Chosen(s), it[s \ {Chosen(s)}]>>]
  BY DEF Folded
<1>2. it[{}] \in J[{}]
  BY <1>1
<1>3. ASSUME NEW s \in SUBSET S, s # {}, it[s \ {Chosen(s)}] \in J[s \ {Chosen(s)}]
      PROVE  it[s] \in J[s]
  BY <1>1, <1>3 DEF StepKeeps
<1> QED
  BY <1>2, <1>3, FoldStays

(* A fold over a finite set has stages.                                    *)
LEMMA FoldFound ==
  ASSUME NEW S, IsFiniteSet(S), NEW base, NEW step
  PROVE  \E it : Folded(it, base, step, S)
<1>1. PICK jt : \A s \in SUBSET S : FoldsAt(jt, base, step, s)
  BY FoldExists
<1> DEFINE it == [s \in SUBSET S |-> jt[s]]
<1>2. ASSUME NEW s \in SUBSET S
      PROVE  it[s] = IF s = {} THEN base ELSE step[<<Chosen(s), it[s \ {Chosen(s)}]>>]
  <2>1. s \ {Chosen(s)} \in SUBSET S
    OBVIOUS
  <2> QED
    BY <1>1, <2>1 DEF FoldsAt
<1>3. it = [s \in SUBSET S |-> it[s]]
  OBVIOUS
<1> HIDE DEF it
<1>4. Folded(it, base, step, S)
  BY <1>2, <1>3 DEF Folded
<1> QED
  BY <1>4

=============================================================================
