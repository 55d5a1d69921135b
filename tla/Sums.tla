-------------------------------- MODULE Sums --------------------------------
(***************************************************************************)
(* Lemmas about numbers and sums that the proofs of several components     *)
(* need: division, the least of a set of numbers, and what MapThenSumSet   *)
(* computes.  Each says what its name says; induction is by the least      *)
(* counterexample (LeastExists), because an induction theorem cannot take  *)
(* a predicate as a parameter here.                                        *)
(*                                                                         *)
(* Total(f, S) is the sum of f[x] over a finite set S.                     *)
(***************************************************************************)
EXTENDS FiniteSetsExt, FiniteSetTheorems, WellFoundedInduction, TLAPS

LEMMA LeastExists ==
    ASSUME NEW S \in SUBSET Nat, S # {}
    PROVE  Min(S) \in S /\ \A y \in S : Min(S) <= y
  <1> DEFINE less == {ss \in Nat \X Nat : ss[1] < ss[2]}
  <1>1. OpToRel(<, Nat) = less
    BY DEF OpToRel
  <1>2. PICK x \in S : \A y \in S : ~ (<<y, x>> \in less)
    BY <1>1, NatLessThanWellFounded, WFMin
  <1>3. \A y \in S : <<y, x>> \in Nat \X Nat /\ (<<y, x>> \in less <=> y < x)
    OBVIOUS
  <1> HIDE DEF less
  <1>4. ASSUME NEW y \in S PROVE x <= y
    <2>1. x \in Nat /\ y \in Nat /\ ~ (y < x)
      BY <1>2, <1>3
    <2> QED
      BY <2>1
  <1> QED
    BY <1>4 DEF Min

LEMMA GreatestExists ==
    ASSUME NEW S \in SUBSET Int, IsFiniteSet(S), S # {}
    PROVE  Max(S) \in S /\ \A y \in S : y <= Max(S)
  <1> DEFINE Top(s, x) == x \in s /\ \A y \in s : y <= x
             Bad == {n \in Nat : \E s \in SUBSET S :
                        Cardinality(s) = n /\ s # {} /\ ~ \E x \in s : Top(s, x)}
  <1>1. \A s \in SUBSET S : IsFiniteSet(s) /\ Cardinality(s) \in Nat
    BY FS_Subset, FS_CardinalityType
  <1>2. Bad = {}
    <2> SUFFICES ASSUME Bad # {} PROVE FALSE
      OBVIOUS
    <2>1. PICK least \in Bad : \A n \in Bad : least <= n
      <3> Bad \in SUBSET Nat
        OBVIOUS
      <3> HIDE DEF Bad
      <3> QED
        BY LeastExists
    <2>2. PICK s \in SUBSET S : Cardinality(s) = least /\ s # {} /\ ~ \E x \in s : Top(s, x)
      BY <2>1
    <2>3. PICK c \in s : TRUE
      BY <2>2
    <2>4. CASE s \ {c} = {}
      <3>1. Top(s, c)
        BY <2>4
      <3> QED
        BY <2>2, <3>1
    <2>5. CASE s \ {c} # {}
      <3>1. Cardinality(s \ {c}) = least - 1 /\ least - 1 \in Nat
        <4>1. IsFiniteSet(s) /\ Cardinality(s) = least
          BY <1>1, <2>2
        <4>2. IsFiniteSet(s \ {c}) /\ Cardinality(s \ {c}) = least - 1
          BY <2>3, <4>1, FS_RemoveElement
        <4>3. Cardinality(s \ {c}) \in Nat
          BY <4>2, FS_CardinalityType
        <4> QED
          BY <4>2, <4>3
      <3>2. least - 1 \notin Bad
        BY <2>1, <3>1
      <3>3. PICK x \in s \ {c} : Top(s \ {c}, x)
        BY <2>5, <3>1, <3>2
      <3>4. Top(s, IF c <= x THEN x ELSE c)
        BY <3>3
      <3> QED
        BY <2>2, <3>4
    <2> QED
      BY <2>4, <2>5
  <1>3. \E x \in S : Top(S, x)
    BY <1>1, <1>2
  <1> QED
    BY <1>3 DEF Max

Total(f, S) == MapThenSumSet(LAMBDA x : f[x], S)

------------------------------------------------------------------------------
(* The recursion behind a sum.                                              *)

Pick(s) == CHOOSE x \in s : TRUE

\* `it' adds up f over every subset of S, one picked element at a time.
Adds(it, f, S) ==
    it = [s \in SUBSET S |-> IF s = {} THEN 0 ELSE f[Pick(s)] + it[s \ {Pick(s)}]]

LEMMA TotalIsRecursive ==
    ASSUME NEW f, NEW S
    PROVE  Total(f, S) = (CHOOSE it : Adds(it, f, S))[S]
  BY DEF Total, MapThenSumSet, MapThenFoldSet, Adds, Pick

LEMMA Smaller ==
    ASSUME NEW s, IsFiniteSet(s), s # {}
    PROVE  /\ Pick(s) \in s /\ s \ {Pick(s)} \in SUBSET s /\ IsFiniteSet(s \ {Pick(s)})
           /\ Cardinality(s) \in Nat /\ Cardinality(s \ {Pick(s)}) = Cardinality(s) - 1
           /\ Cardinality(s \ {Pick(s)}) \in Nat
  <1>1. Pick(s) \in s
    BY DEF Pick
  <1> QED
    BY <1>1, FS_RemoveElement, FS_CardinalityType

LEMMA AddsExists ==
    ASSUME NEW f, NEW S, IsFiniteSet(S), \A x \in S : f[x] \in Int
    PROVE  \E it \in [SUBSET S -> Int] : Adds(it, f, S)
  <1> DEFINE Body(h, s) == IF s = {} THEN 0 ELSE f[Pick(s)] + h[s \ {Pick(s)}]
             Upto(h, n) == \A s \in SUBSET S : Cardinality(s) <= n => h[s] = Body(h, s)
             Bad == {n \in Nat : ~ \E h \in [SUBSET S -> Int] : Upto(h, n)}
  <1>1. \A s \in SUBSET S : IsFiniteSet(s) /\ Cardinality(s) \in Nat /\ Cardinality(s) <= Cardinality(S)
    BY FS_Subset, FS_CardinalityType
  <1>2. \A s \in SUBSET S : s # {} => /\ Pick(s) \in S /\ s \ {Pick(s)} \in SUBSET S
                                      /\ Cardinality(s \ {Pick(s)}) = Cardinality(s) - 1
    BY <1>1, Smaller
  <1>3. ASSUME NEW h \in [SUBSET S -> Int], NEW s \in SUBSET S
        PROVE  Body(h, s) \in Int
    <2>1. CASE s = {}
      BY <2>1
    <2>2. CASE s # {}
      <3>1. f[Pick(s)] \in Int /\ h[s \ {Pick(s)}] \in Int
        BY <1>2, <2>2
      <3> QED
        BY <2>2, <3>1
    <2> QED
      BY <2>1, <2>2
  <1>4. \E h \in [SUBSET S -> Int] : Upto(h, 0)
    <2>1. [s \in SUBSET S |-> 0] \in [SUBSET S -> Int]
      OBVIOUS
    <2>2. \A s \in SUBSET S : Cardinality(s) <= 0 => s = {}
      BY <1>1, FS_EmptySet
    <2>3. Upto([s \in SUBSET S |-> 0], 0)
      BY <2>2
    <2> QED
      BY <2>1, <2>3
  <1>5. ASSUME NEW n \in Nat, NEW h \in [SUBSET S -> Int], Upto(h, n)
        PROVE  \E g \in [SUBSET S -> Int] : Upto(g, n + 1)
    <2> DEFINE g == [s \in SUBSET S |-> Body(h, s)]
    <2>1. g \in [SUBSET S -> Int]
      BY <1>3
    <2>2. ASSUME NEW s \in SUBSET S, Cardinality(s) <= n + 1
          PROVE  g[s] = Body(g, s)
      <3>1. CASE s = {}
        BY <3>1
      <3>2. CASE s # {}
        <4>1. s \ {Pick(s)} \in SUBSET S /\ Cardinality(s \ {Pick(s)}) <= n
          BY <1>1, <1>2, <2>2, <3>2
        <4>2. h[s \ {Pick(s)}] = g[s \ {Pick(s)}]
          BY <1>5, <4>1
        <4> QED
          BY <3>2, <4>2
      <3> QED
        BY <3>1, <3>2
    <2> QED
      BY <2>1, <2>2
  <1> HIDE DEF Upto
  <1>6. Bad = {}
    <2> SUFFICES ASSUME Bad # {} PROVE FALSE
      OBVIOUS
    <2>1. Min(Bad) \in Bad /\ \A n \in Bad : Min(Bad) <= n
      BY LeastExists
    <2>2. PICK least \in Bad : \A n \in Bad : least <= n
      BY <2>1
    <2>3. least \in Nat /\ least # 0
      BY <1>4
    <2>4. least - 1 \in Nat /\ (least - 1) + 1 = least /\ ~ (least <= least - 1)
      BY <2>3
    <2>5. least - 1 \notin Bad
      BY <2>2, <2>4
    <2> QED
      BY <1>5, <2>2, <2>4, <2>5
  <1>7. PICK h \in [SUBSET S -> Int] : Upto(h, Cardinality(S))
    BY <1>6, FS_CardinalityType
  <1>8. \A s \in SUBSET S : h[s] = Body(h, s)
    BY <1>1, <1>7 DEF Upto
  <1> QED
    BY <1>8 DEF Adds

\* Two such recursions agree on the subsets they share, where f and g do.
LEMMA AddsAgree ==
    ASSUME NEW f, NEW g, NEW S, NEW T, NEW it, NEW jt, Adds(it, f, S), Adds(jt, g, T),
           NEW r, IsFiniteSet(r), r \in SUBSET S, r \in SUBSET T, \A x \in r : f[x] = g[x]
    PROVE  it[r] = jt[r]
  <1> DEFINE Bad == {n \in Nat : \E s \in SUBSET r : Cardinality(s) = n /\ it[s] # jt[s]}
  <1>1. \A s \in SUBSET r : IsFiniteSet(s) /\ Cardinality(s) \in Nat
    BY FS_Subset, FS_CardinalityType
  <1>2. SUFFICES ASSUME Bad # {} PROVE FALSE
    BY <1>1
  <1>3. PICK least \in Bad : \A n \in Bad : least <= n
    <2> Bad \in SUBSET Nat
      OBVIOUS
    <2> HIDE DEF Bad
    <2> QED
      BY <1>2, LeastExists
  <1>4. PICK s \in SUBSET r : Cardinality(s) = least /\ it[s] # jt[s]
    BY <1>3
  <1>5. s \in SUBSET S /\ s \in SUBSET T
    OBVIOUS
  <1>6. /\ it[s] = IF s = {} THEN 0 ELSE f[Pick(s)] + it[s \ {Pick(s)}]
        /\ jt[s] = IF s = {} THEN 0 ELSE g[Pick(s)] + jt[s \ {Pick(s)}]
    BY <1>5 DEF Adds
  <1>7. s # {}
    BY <1>4, <1>6
  <1>8. /\ Pick(s) \in r /\ s \ {Pick(s)} \in SUBSET r
        /\ Cardinality(s \ {Pick(s)}) = least - 1 /\ least - 1 \in Nat
    <2>1. /\ Pick(s) \in s /\ Cardinality(s \ {Pick(s)}) = Cardinality(s) - 1
          /\ Cardinality(s \ {Pick(s)}) \in Nat
      BY <1>1, <1>7, Smaller
    <2> QED
      BY <1>4, <2>1
  <1>9. least - 1 \notin Bad
    BY <1>3, <1>8
  <1>10. it[s \ {Pick(s)}] = jt[s \ {Pick(s)}]
    BY <1>8, <1>9
  <1> QED
    BY <1>4, <1>6, <1>7, <1>8, <1>10

------------------------------------------------------------------------------
(* Sums.                                                                    *)

\* What any recursion of f over a set that holds S computes for S.
LEMMA TotalIs ==
    ASSUME NEW f, NEW g, NEW S, IsFiniteSet(S), \A x \in S : f[x] \in Int,
           NEW T, NEW it, Adds(it, g, T), S \in SUBSET T, \A x \in S : f[x] = g[x]
    PROVE  Total(f, S) = it[S]
  <1> DEFINE jt == CHOOSE jt : Adds(jt, f, S)
  <1>1. Adds(jt, f, S)
    BY AddsExists
  <1>2. Total(f, S) = jt[S]
    BY TotalIsRecursive
  <1> HIDE DEF jt
  <1> QED
    BY <1>1, <1>2, AddsAgree

LEMMA TotalIsOwn ==
    ASSUME NEW f, NEW S, IsFiniteSet(S), \A x \in S : f[x] \in Int, NEW it, Adds(it, f, S)
    PROVE  Total(f, S) = it[S]
  BY TotalIs

LEMMA TotalIsInt ==
    ASSUME NEW f, NEW S, IsFiniteSet(S), \A x \in S : f[x] \in Int
    PROVE  Total(f, S) \in Int
  <1>1. PICK it \in [SUBSET S -> Int] : Adds(it, f, S)
    BY AddsExists
  <1> QED
    BY <1>1, TotalIs

LEMMA TotalOfNone == ASSUME NEW f PROVE Total(f, {}) = 0
  <1>1. IsFiniteSet({})
    BY FS_EmptySet
  <1>2. PICK it \in [SUBSET {} -> Int] : Adds(it, f, {})
    BY <1>1, AddsExists
  <1>3. it[{}] = 0
    BY <1>2 DEF Adds
  <1> QED
    BY <1>1, <1>2, <1>3, TotalIs

LEMMA TotalOfSame ==
    ASSUME NEW f, NEW g, NEW S, IsFiniteSet(S), \A x \in S : f[x] \in Int, \A x \in S : f[x] = g[x]
    PROVE  Total(f, S) = Total(g, S)
  <1>1. PICK it \in [SUBSET S -> Int] : Adds(it, f, S)
    BY AddsExists
  <1> QED
    BY <1>1, TotalIs

LEMMA TotalPicks ==
    ASSUME NEW f, NEW S, IsFiniteSet(S), S # {}, \A x \in S : f[x] \in Int
    PROVE  Total(f, S) = f[Pick(S)] + Total(f, S \ {Pick(S)})
  <1>1. PICK it \in [SUBSET S -> Int] : Adds(it, f, S)
    BY AddsExists
  <1>2. Pick(S) \in S /\ IsFiniteSet(S \ {Pick(S)}) /\ S \ {Pick(S)} \in SUBSET S
    BY Smaller
  <1>3. it[S] = f[Pick(S)] + it[S \ {Pick(S)}]
    BY <1>1 DEF Adds
  <1>4. Total(f, S) = it[S]
    BY <1>1, TotalIs
  <1>5. Total(f, S \ {Pick(S)}) = it[S \ {Pick(S)}]
    BY <1>1, <1>2, TotalIs
  <1> QED
    BY <1>3, <1>4, <1>5

\* The order in which a sum is taken does not matter.
LEMMA TotalWithout ==
    ASSUME NEW f, NEW S, IsFiniteSet(S), \A x \in S : f[x] \in Int, NEW y \in S
    PROVE  Total(f, S) = f[y] + Total(f, S \ {y})
  <1> DEFINE Bad == {n \in Nat : \E s \in SUBSET S : \E x \in s :
                        Cardinality(s) = n /\ Total(f, s) # f[x] + Total(f, s \ {x})}
  <1>1. \A s \in SUBSET S : /\ IsFiniteSet(s) /\ Cardinality(s) \in Nat
                            /\ Total(f, s) \in Int /\ \A x \in s : f[x] \in Int
    BY FS_Subset, FS_CardinalityType, TotalIsInt
  <1>2. SUFFICES ASSUME Bad # {} PROVE FALSE
    BY <1>1
  <1>3. PICK least \in Bad : \A n \in Bad : least <= n
    <2> Bad \in SUBSET Nat
      OBVIOUS
    <2> HIDE DEF Bad
    <2> QED
      BY <1>2, LeastExists
  <1>31. PICK s \in SUBSET S : \E x \in s :
            Cardinality(s) = least /\ Total(f, s) # f[x] + Total(f, s \ {x})
    BY <1>3
  <1>4. PICK x \in s : Cardinality(s) = least /\ Total(f, s) # f[x] + Total(f, s \ {x})
    BY <1>31
  <1> DEFINE c == Pick(s)
             both == (s \ {c}) \ {x}
  <1>5. Total(f, s) = f[c] + Total(f, s \ {c})
    BY <1>1, <1>4, TotalPicks
  <1>6. c \in s
    BY <1>4 DEF Pick
  <1> HIDE DEF c
  <1>7. c # x
    BY <1>4, <1>5
  <1>8. \A z \in s : Cardinality(s \ {z}) = least - 1 /\ least - 1 \in Nat
    <2> SUFFICES ASSUME NEW z \in s
                 PROVE  Cardinality(s \ {z}) = least - 1 /\ least - 1 \in Nat
      OBVIOUS
    <2>1. IsFiniteSet(s) /\ Cardinality(s) = least
      BY <1>1, <1>4
    <2>2. Cardinality(s \ {z}) = Cardinality(s) - 1 /\ IsFiniteSet(s \ {z})
      BY <2>1, FS_RemoveElement
    <2> QED
      BY <2>1, <2>2, FS_CardinalityType
  <1>9. least - 1 \notin Bad
    <2>1. least \in Nat /\ ~ (least <= least - 1)
      BY <1>1, <1>4, FS_CardinalityType
    <2> HIDE DEF Bad
    <2> QED
      BY <1>3, <2>1
  <1>10. \A z \in s : \A w \in s \ {z} :
             Total(f, s \ {z}) = f[w] + Total(f, (s \ {z}) \ {w})
    BY <1>4, <1>8, <1>9
  <1>11. Total(f, s \ {c}) = f[x] + Total(f, both)
    BY <1>4, <1>6, <1>7, <1>10
  <1>12. Total(f, s \ {x}) = f[c] + Total(f, both)
    <2>1. (s \ {x}) \ {c} = both
      OBVIOUS
    <2> QED
      BY <1>4, <1>6, <1>7, <1>10, <2>1
  <1>13. Total(f, both) \in Int /\ f[c] \in Int /\ f[x] \in Int
    BY <1>1, <1>4, <1>6
  <1> HIDE DEF both
  <1> QED
    BY <1>4, <1>5, <1>11, <1>12, <1>13

LEMMA TotalWith ==
    ASSUME NEW f, NEW S, IsFiniteSet(S), NEW y, y \notin S, \A x \in S \cup {y} : f[x] \in Int
    PROVE  Total(f, S \cup {y}) = Total(f, S) + f[y]
  <1> DEFINE all == S \cup {y}
  <1>1. IsFiniteSet(all) /\ all \ {y} = S /\ y \in all /\ \A x \in all : f[x] \in Int
    BY FS_AddElement
  <1>2. Total(f, S) \in Int /\ f[y] \in Int
    BY TotalIsInt
  <1> HIDE DEF all
  <1>3. Total(f, all) = f[y] + Total(f, S)
    BY <1>1, TotalWithout
  <1> QED
    BY <1>2, <1>3 DEF all

LEMMA TotalIsNat ==
    ASSUME NEW f, NEW S, IsFiniteSet(S), \A x \in S : f[x] \in Nat
    PROVE  Total(f, S) \in Nat
  <1> DEFINE Bad == {n \in Nat : \E s \in SUBSET S : Cardinality(s) = n /\ Total(f, s) \notin Nat}
  <1>1. \A s \in SUBSET S : IsFiniteSet(s) /\ Cardinality(s) \in Nat
    BY FS_Subset, FS_CardinalityType
  <1>2. SUFFICES ASSUME Bad # {} PROVE FALSE
    BY <1>1
  <1>3. PICK least \in Bad : \A n \in Bad : least <= n
    <2> Bad \in SUBSET Nat
      OBVIOUS
    <2> HIDE DEF Bad
    <2> QED
      BY <1>2, LeastExists
  <1>4. PICK s \in SUBSET S : Cardinality(s) = least /\ Total(f, s) \notin Nat
    BY <1>3
  <1>5. s # {}
    BY <1>4, TotalOfNone
  <1>6. /\ Pick(s) \in s /\ s \ {Pick(s)} \in SUBSET S
        /\ Cardinality(s \ {Pick(s)}) = least - 1 /\ least - 1 \in Nat
    <2>1. /\ Pick(s) \in s /\ Cardinality(s \ {Pick(s)}) = Cardinality(s) - 1
          /\ Cardinality(s \ {Pick(s)}) \in Nat
      BY <1>1, <1>5, Smaller
    <2> QED
      BY <1>4, <2>1
  <1>7. Total(f, s \ {Pick(s)}) \in Nat
    BY <1>3, <1>6
  <1>8. Total(f, s) = f[Pick(s)] + Total(f, s \ {Pick(s)})
    BY <1>1, <1>5, TotalPicks
  <1> QED
    BY <1>4, <1>6, <1>7, <1>8

------------------------------------------------------------------------------
(* Sums over 1 .. n.                                                        *)

LEMMA Initial ==
    ASSUME NEW n \in Nat
    PROVE  /\ 1 .. 0 = {} /\ IsFiniteSet(1 .. n)
           /\ 1 .. (n + 1) = (1 .. n) \cup {n + 1} /\ n + 1 \notin 1 .. n
  BY FS_Interval

LEMMA TotalUpto ==
    ASSUME NEW f, NEW n \in Nat, \A i \in 1 .. (n + 1) : f[i] \in Int
    PROVE  Total(f, 1 .. (n + 1)) = Total(f, 1 .. n) + f[n + 1]
  <1>1. /\ IsFiniteSet(1 .. n) /\ n + 1 \notin 1 .. n
        /\ 1 .. (n + 1) = (1 .. n) \cup {n + 1}
    BY Initial
  <1> DEFINE S == 1 .. n
             y == n + 1
  <1>2. \A i \in S \cup {y} : f[i] \in Int
    BY <1>1
  <1>3. IsFiniteSet(S) /\ y \notin S /\ 1 .. (n + 1) = S \cup {y}
    BY <1>1
  <1> HIDE DEF S, y
  <1>4. Total(f, S \cup {y}) = Total(f, S) + f[y]
    BY <1>2, <1>3, TotalWith
  <1>5. Total(f, 1 .. (n + 1)) = Total(f, S) + f[y]
    BY <1>3, <1>4
  <1> QED
    BY <1>5 DEF S, y

LEMMA TotalGrows ==
    ASSUME NEW f, NEW g, NEW n \in Nat, g[n + 1] \in Int,
           \A i \in 1 .. n : f[i] \in Int /\ g[i] = f[i]
    PROVE  Total(g, 1 .. (n + 1)) = Total(f, 1 .. n) + g[n + 1]
  <1>1. \A i \in 1 .. (n + 1) : g[i] \in Int
    OBVIOUS
  <1>2. Total(g, 1 .. (n + 1)) = Total(g, 1 .. n) + g[n + 1]
    BY <1>1, TotalUpto
  <1>3. IsFiniteSet(1 .. n) /\ \A i \in 1 .. n : f[i] \in Int /\ f[i] = g[i]
    BY Initial
  <1>4. Total(f, 1 .. n) = Total(g, 1 .. n)
    BY <1>3, TotalOfSame
  <1> QED
    BY <1>2, <1>4

\* Dropping the first of n + 1 summands.
LEMMA TotalOfTail ==
    ASSUME NEW f, NEW g, NEW n \in Nat, \A i \in 1 .. (n + 1) : f[i] \in Int,
           \A i \in 1 .. n : g[i] = f[i + 1]
    PROVE  Total(f, 1 .. (n + 1)) = f[1] + Total(g, 1 .. n)
  <1> DEFINE Bad == {m \in Nat : m <= n /\ Total(f, 1 .. (m + 1)) # f[1] + Total(g, 1 .. m)}
  <1>1. SUFFICES ASSUME Bad # {} PROVE FALSE
    OBVIOUS
  <1>2. PICK least \in Bad : \A m \in Bad : least <= m
    <2> Bad \in SUBSET Nat
      OBVIOUS
    <2> HIDE DEF Bad
    <2> QED
      BY <1>1, LeastExists
  <1>3. least \in Nat /\ least <= n
    OBVIOUS
  <1>4. least # 0
    <2>1. Total(f, 1 .. 1) = Total(f, 1 .. 0) + f[1]
      <3>1. \A i \in 1 .. (0 + 1) : f[i] \in Int
        OBVIOUS
      <3>2. Total(f, 1 .. (0 + 1)) = Total(f, 1 .. 0) + f[0 + 1]
        BY <3>1, TotalUpto
      <3> QED
        BY <3>2
    <2>2. 1 .. 0 = {} /\ f[1] \in Int
      BY Initial
    <2>3. Total(f, 1 .. 0) = 0 /\ Total(g, 1 .. 0) = 0
      BY <2>2, TotalOfNone
    <2>4. Total(f, 1 .. (0 + 1)) = f[1] + Total(g, 1 .. 0)
      BY <2>1, <2>2, <2>3
    <2>5. ASSUME least = 0 PROVE FALSE
      <3>1. Total(f, 1 .. (least + 1)) # f[1] + Total(g, 1 .. least)
        OBVIOUS
      <3> HIDE DEF Bad
      <3> QED
        BY <2>4, <2>5, <3>1
    <2> QED
      BY <2>5
  <1> DEFINE m == least - 1
  <1>5. m \in Nat /\ m + 1 = least /\ ~ (least <= m) /\ m <= n
    BY <1>3, <1>4
  <1> HIDE DEF m
  <1>6. Total(f, 1 .. (m + 1)) = f[1] + Total(g, 1 .. m)
    BY <1>2, <1>5
  <1>7. \A i \in 1 .. ((m + 1) + 1) : f[i] \in Int
    BY <1>3, <1>5
  <1>8. \A i \in 1 .. (m + 1) : g[i] = f[i + 1] /\ g[i] \in Int
    BY <1>3, <1>5
  <1>9. Total(f, 1 .. ((m + 1) + 1)) = Total(f, 1 .. (m + 1)) + f[(m + 1) + 1]
    BY <1>5, <1>7, TotalUpto
  <1>10. Total(g, 1 .. (m + 1)) = Total(g, 1 .. m) + g[m + 1]
    BY <1>5, <1>8, TotalUpto
  <1>11. Total(g, 1 .. m) \in Int /\ f[1] \in Int /\ g[m + 1] \in Int /\ g[m + 1] = f[(m + 1) + 1]
    <2>1. IsFiniteSet(1 .. m) /\ \A i \in 1 .. m : g[i] \in Int
      BY <1>5, <1>8, Initial
    <2>2. Total(g, 1 .. m) \in Int
      BY <2>1, TotalIsInt
    <2>3. 1 \in 1 .. (n + 1) /\ m + 1 \in 1 .. (m + 1)
      BY <1>5
    <2> QED
      BY <1>8, <2>2, <2>3
  <1>12. Total(f, 1 .. (least + 1)) = f[1] + Total(g, 1 .. least)
    BY <1>5, <1>6, <1>9, <1>10, <1>11
  <1> QED
    BY <1>12
=============================================================================
