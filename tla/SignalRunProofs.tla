--------------------------- MODULE SignalRunProofs ---------------------------
(***************************************************************************)
(* Theorems about SignalRun and Momentum, for every period, universe and   *)
(* set of series, whatever order their bars were loaded in, and every      *)
(* lookback, skip, filter and top_n.                                       *)
(*                                                                         *)
(* The invariant RunInv says of every step of the loop what its records    *)
(* are about; that these records are right is a matter of the operators.   *)
(* A sorted list, the strategy's bars and its ranking alike, holds at each *)
(* place the element with that many before it.  So the bar indexed from    *)
(* the end of a sorted slice is the one with that many bars after it, a    *)
(* symbol is eligible exactly when it keeps the promise, and the symbols   *)
(* selected are those that fewer than top_n beat.                          *)
(***************************************************************************)
EXTENDS SignalRun, FunctionTheorems, SequenceTheorems, Sums

------------------------------------------------------------------------------
(* A finite set in a strict order.  The order is a set R of pairs here,    *)
(* because a lemma cannot take it as an operator.                          *)

Below(R, S, x) == {y \in S : <<y, x>> \in R}
Above(R, S, x) == {y \in S : <<x, y>> \in R}
Rank(R, S, x) == Cardinality(Below(R, S, x))

StrictOrder(R, S) ==
    /\ \A x \in S : <<x, x>> \notin R
    /\ \A x, y, z \in S : <<x, y>> \in R /\ <<y, z>> \in R => <<x, z>> \in R
    /\ \A x, y \in S : x # y => <<x, y>> \in R \/ <<y, x>> \in R

Listed(R, S) == [i \in 1 .. Cardinality(S) |-> CHOOSE x \in S : Rank(R, S, x) = i - 1]

\* Whatever is not before an element, nor it, comes after it.
LEMMA RankBounds ==
    ASSUME NEW S, IsFiniteSet(S), NEW R, StrictOrder(R, S), NEW x \in S
    PROVE  /\ Cardinality(S) \in Nat /\ Rank(R, S, x) \in 0 .. Cardinality(S) - 1
           /\ Cardinality(Above(R, S, x)) = Cardinality(S) - 1 - Rank(R, S, x)
  <1> DEFINE B == Below(R, S, x)
             A == Above(R, S, x)
  <1>1. S = B \cup (A \cup {x}) /\ B \cap (A \cup {x}) = {} /\ x \notin A
    BY DEF StrictOrder, Below, Above
  <1>2. IsFiniteSet(A) /\ IsFiniteSet(B)
    BY FS_Subset DEF Below, Above
  <1>3. /\ Cardinality(A) \in Nat /\ Cardinality(B) \in Nat /\ Cardinality(S) \in Nat
    BY <1>2, FS_CardinalityType
  <1>4. IsFiniteSet(A \cup {x}) /\ Cardinality(A \cup {x}) = Cardinality(A) + 1
    BY <1>1, <1>2, FS_AddElement
  <1>5. Cardinality(B \cup (A \cup {x})) = Cardinality(B) + Cardinality(A \cup {x}) - Cardinality({})
    BY <1>1, <1>2, <1>4, FS_Union
  <1>6. Cardinality(S) = Cardinality(B) + Cardinality(A) + 1
    <2>1. Cardinality({}) = 0
      BY FS_EmptySet
    <2>2. Cardinality(B \cup (A \cup {x})) = Cardinality(S)
      BY <1>1
    <2> HIDE DEF A, B
    <2> QED
      BY <1>3, <1>4, <1>5, <2>1, <2>2
  <1>7. Rank(R, S, x) = Cardinality(B) /\ Above(R, S, x) = A
    BY DEF Rank
  <1> HIDE DEF A, B
  <1> QED
    BY <1>3, <1>6, <1>7

LEMMA RankGrows ==
    ASSUME NEW S, IsFiniteSet(S), NEW R, StrictOrder(R, S), NEW x \in S, NEW y \in S, <<x, y>> \in R
    PROVE  Rank(R, S, x) < Rank(R, S, y)
  <1>1. Below(R, S, x) \subseteq Below(R, S, y) /\ Below(R, S, x) # Below(R, S, y)
    BY DEF StrictOrder, Below
  <1>2. IsFiniteSet(Below(R, S, y))
    BY FS_Subset DEF Below
  <1>3. /\ Cardinality(Below(R, S, x)) <= Cardinality(Below(R, S, y))
        /\ Cardinality(Below(R, S, x)) # Cardinality(Below(R, S, y))
    BY <1>1, <1>2, FS_Subset
  <1>4. Rank(R, S, x) \in Int /\ Rank(R, S, y) \in Int
    BY RankBounds
  <1> QED
    BY <1>3, <1>4 DEF Rank

\* Ranks are different, and in the order.
LEMMA RankOrders ==
    ASSUME NEW S, IsFiniteSet(S), NEW R, StrictOrder(R, S), NEW x \in S, NEW y \in S
    PROVE  /\ Rank(R, S, x) = Rank(R, S, y) => x = y
           /\ Rank(R, S, x) < Rank(R, S, y) <=> <<x, y>> \in R
  <1>1. Rank(R, S, x) \in Int /\ Rank(R, S, y) \in Int
    BY RankBounds
  <1>2. <<x, y>> \in R => Rank(R, S, x) < Rank(R, S, y)
    BY RankGrows
  <1>3. <<y, x>> \in R => Rank(R, S, y) < Rank(R, S, x)
    BY RankGrows
  <1>4. x = y \/ <<x, y>> \in R \/ <<y, x>> \in R
    BY DEF StrictOrder
  <1> QED
    BY <1>1, <1>2, <1>3, <1>4

\* Every rank is taken.
LEMMA RankIsOnto ==
    ASSUME NEW S, IsFiniteSet(S), NEW R, StrictOrder(R, S), NEW i \in 1 .. Cardinality(S)
    PROVE  \E x \in S : Rank(R, S, x) = i - 1
  <1> DEFINE n == Cardinality(S)
             f == [x \in S |-> Rank(R, S, x) + 1]
  <1>1. n \in Nat
    BY FS_CardinalityType
  <1>2. f \in [S -> 1 .. n]
    <2> SUFFICES ASSUME NEW x \in S PROVE Rank(R, S, x) + 1 \in 1 .. n
      OBVIOUS
    <2> QED
      BY RankBounds
  <1>3. f \in Injection(S, 1 .. n)
    <2> SUFFICES ASSUME NEW x \in S, NEW y \in S, f[x] = f[y] PROVE x = y
      BY <1>2 DEF Injection, IsInjective
    <2>1. Rank(R, S, x) \in Int /\ Rank(R, S, y) \in Int /\ Rank(R, S, x) + 1 = Rank(R, S, y) + 1
      BY RankBounds
    <2>2. Rank(R, S, x) = Rank(R, S, y)
      BY <2>1
    <2> HIDE DEF f
    <2> QED
      BY <2>2, RankOrders
  <1>4. IsFiniteSet(1 .. n) /\ Cardinality(1 .. n) = n
    BY <1>1, FS_Interval
  <1>5. f \in Surjection(S, 1 .. n)
    <2> HIDE DEF f
    <2> QED
      BY <1>3, <1>4, FS_Injection
  <1>6. PICK x \in S : f[x] = i
    <2> HIDE DEF f
    <2> QED
      BY <1>5 DEF Surjection
  <1>7. Rank(R, S, x) + 1 = i /\ Rank(R, S, x) \in Int
    BY <1>6, RankBounds
  <1> QED
    BY <1>7

\* The list holds the element of each rank at its place, and nothing else.
LEMMA ListedIsOrder ==
    ASSUME NEW S, IsFiniteSet(S), NEW R, StrictOrder(R, S)
    PROVE  /\ Listed(R, S) \in [1 .. Cardinality(S) -> S]
           /\ \A i \in 1 .. Cardinality(S) : Rank(R, S, Listed(R, S)[i]) = i - 1
           /\ \A x \in S : Rank(R, S, x) + 1 \in 1 .. Cardinality(S) /\ Listed(R, S)[Rank(R, S, x) + 1] = x
  <1>1. \A i \in 1 .. Cardinality(S) : /\ Listed(R, S)[i] \in S
                                       /\ Rank(R, S, Listed(R, S)[i]) = i - 1
    BY RankIsOnto DEF Listed
  <1>2. Listed(R, S) \in [1 .. Cardinality(S) -> S]
    BY <1>1 DEF Listed
  <1>3. ASSUME NEW x \in S
        PROVE  Rank(R, S, x) + 1 \in 1 .. Cardinality(S) /\ Listed(R, S)[Rank(R, S, x) + 1] = x
    <2>1. PICK i \in 1 .. Cardinality(S) : i = Rank(R, S, x) + 1
      BY RankBounds
    <2>2. PICK y \in S : y = Listed(R, S)[i]
      BY <1>1
    <2>3. Rank(R, S, y) = i - 1
      BY <1>1, <2>2
    <2>4. Rank(R, S, y) = Rank(R, S, x)
      <3>1. Rank(R, S, x) \in Int
        BY RankBounds
      <3> QED
        BY <2>1, <2>3, <3>1
    <2>5. y = x
      BY <2>2, <2>4, RankOrders
    <2> QED
      BY <2>1, <2>2, <2>5
  <1> QED
    BY <1>1, <1>2, <1>3

------------------------------------------------------------------------------
(* Lists of numbers, and the entries kept of a sequence.                   *)

Less(S) == {p \in S \X S : p[1] < p[2]}

LEMMA LessIsStrict ==
    ASSUME NEW S, S \subseteq Int
    PROVE  StrictOrder(Less(S), S)
  <1>1. \A x, y \in S : x \in Int /\ y \in Int /\ (<<x, y>> \in Less(S) <=> x < y)
    BY DEF Less
  <1> QED
    BY <1>1 DEF StrictOrder

LEMMA AscendingIsListed ==
    ASSUME NEW S, S \subseteq Int
    PROVE  Ascending(S) = Listed(Less(S), S)
  <1>1. \A x \in S : {y \in S : y < x} = Below(Less(S), S, x)
    BY DEF Below, Less
  <1>2. \A i \in 1 .. Cardinality(S) :
            (CHOOSE x \in S : Cardinality({y \in S : y < x}) = i - 1)
              = (CHOOSE x \in S : Rank(Less(S), S, x) = i - 1)
    BY <1>1 DEF Rank
  <1> DEFINE c(i) == CHOOSE x \in S : Cardinality({y \in S : y < x}) = i - 1
             d(i) == CHOOSE x \in S : Rank(Less(S), S, x) = i - 1
             n == Cardinality(S)
  <1>3. Ascending(S) = [i \in 1 .. n |-> c(i)]
    BY DEF Ascending, InOrder
  <1>4. Listed(Less(S), S) = [i \in 1 .. n |-> d(i)]
    BY DEF Listed
  <1>5. \A i \in 1 .. n : c(i) = d(i)
    BY <1>2
  <1> HIDE DEF c, d, n
  <1> QED
    BY <1>3, <1>4, <1>5

\* Ascending lists a set of numbers, the smaller first and each of them once.
LEMMA AscendingOrder ==
    ASSUME NEW S, S \subseteq Int, IsFiniteSet(S)
    PROVE  /\ Cardinality(S) \in Nat
           /\ Ascending(S) \in [1 .. Cardinality(S) -> S]
           /\ \A x \in S : \E i \in 1 .. Cardinality(S) : Ascending(S)[i] = x
           /\ \A i, j \in 1 .. Cardinality(S) : i < j <=> Ascending(S)[i] < Ascending(S)[j]
           /\ \A i \in 1 .. Cardinality(S) : Cardinality({x \in S : x < Ascending(S)[i]}) = i - 1
  <1> DEFINE R == Less(S)
             l == Ascending(S)
             n == Cardinality(S)
  <1>1. l = Listed(R, S) /\ StrictOrder(R, S)
    BY AscendingIsListed, LessIsStrict
  <1>2. n \in Nat
    BY FS_CardinalityType
  <1>3. /\ Listed(R, S) \in [1 .. n -> S]
        /\ \A i \in 1 .. n : Rank(R, S, Listed(R, S)[i]) = i - 1
        /\ \A x \in S : Rank(R, S, x) + 1 \in 1 .. n /\ Listed(R, S)[Rank(R, S, x) + 1] = x
    BY <1>1, ListedIsOrder
  <1>4. ASSUME NEW i \in 1 .. n, NEW j \in 1 .. n
        PROVE  i < j <=> l[i] < l[j]
    <2>1. PICK x \in S : x = l[i]
      BY <1>1, <1>3
    <2>2. PICK y \in S : y = l[j]
      BY <1>1, <1>3
    <2>3. Rank(R, S, x) = i - 1 /\ Rank(R, S, y) = j - 1
      BY <1>1, <1>3, <2>1, <2>2
    <2>4. Rank(R, S, x) < Rank(R, S, y) <=> <<x, y>> \in R
      BY <1>1, <2>1, <2>2, RankOrders
    <2>5. <<x, y>> \in R <=> x < y
      BY <2>1, <2>2 DEF Less
    <2> HIDE DEF R, l, n
    <2> QED
      BY <2>1, <2>2, <2>3, <2>4, <2>5
  <1>5. ASSUME NEW i \in 1 .. n
        PROVE  Cardinality({x \in S : x < l[i]}) = i - 1
    <2>1. PICK y \in S : y = l[i]
      BY <1>1, <1>3
    <2>2. {x \in S : x < y} = Below(R, S, y)
      BY <2>1 DEF Below, Less
    <2>3. Rank(R, S, y) = i - 1
      BY <1>1, <1>3, <2>1
    <2> HIDE DEF R, l, n
    <2> QED
      BY <2>1, <2>2, <2>3 DEF Rank
  <1>6. \A x \in S : \E i \in 1 .. n : l[i] = x
    BY <1>1, <1>3
  <1> HIDE DEF R, l
  <1>7. l \in [1 .. n -> S]
    BY <1>1, <1>3
  <1> QED
    BY <1>2, <1>4, <1>5, <1>6, <1>7 DEF l

\* k lists the places of P in order, and B holds the entries of D there.
Embeds(k, B, D, P) ==
    /\ k \in [DOMAIN B -> P]
    /\ \A i \in P : \E n \in DOMAIN B : k[n] = i
    /\ \A n, m \in DOMAIN B : n < m <=> k[n] < k[m]
    /\ \A n \in DOMAIN B : B[n] = D[k[n]]

LEMMA KeptEmbeds ==
    ASSUME NEW D, NEW P, P \subseteq Int, IsFiniteSet(P)
    PROVE  /\ Cardinality(P) \in Nat /\ DOMAIN Kept(D, P) = 1 .. Cardinality(P)
           /\ \E k : Embeds(k, Kept(D, P), D, P)
  <1> DEFINE l == Ascending(P)
             n == Cardinality(P)
  <1>1. /\ n \in Nat /\ l \in [1 .. n -> P]
        /\ \A x \in P : \E i \in 1 .. n : l[i] = x
        /\ \A i, j \in 1 .. n : i < j <=> l[i] < l[j]
    BY AscendingOrder
  <1>2. Kept(D, P) = [i \in 1 .. n |-> D[l[i]]]
    BY DEF Kept
  <1> HIDE DEF l, n
  <1>3. DOMAIN Kept(D, P) = 1 .. n /\ Embeds(l, Kept(D, P), D, P)
    BY <1>1, <1>2 DEF Embeds
  <1> QED
    BY <1>1, <1>3 DEF n

LEMMA EmbedsCompose ==
    ASSUME NEW B, NEW C, NEW D, NEW P, NEW Q, NEW k, NEW l,
           Embeds(k, B, C, Q), Embeds(l, C, D, P), Q \subseteq DOMAIN C
    PROVE  Embeds([n \in DOMAIN B |-> l[k[n]]], B, D, {l[q] : q \in Q})
  BY DEF Embeds

LEMMA UpToCount ==
    ASSUME NEW n \in Nat
    PROVE  IsFiniteSet(1 .. n) /\ Cardinality(1 .. n) = n
  BY FS_Interval

\* Keeping everything changes nothing.
LEMMA KeptAll ==
    ASSUME NEW n \in Nat, NEW D, D = [i \in 1 .. n |-> D[i]]
    PROVE  Kept(D, 1 .. n) = D
  <1> DEFINE l == Ascending(1 .. n)
  <1>1. IsFiniteSet(1 .. n) /\ Cardinality(1 .. n) = n
    BY UpToCount
  <1>2. /\ l \in [1 .. n -> 1 .. n]
        /\ \A i \in 1 .. n : Cardinality({x \in 1 .. n : x < l[i]}) = i - 1
    <2>1. 1 .. n \subseteq Int
      OBVIOUS
    <2> QED
      BY <1>1, <2>1, AscendingOrder
  <1> HIDE DEF l
  <1>3. ASSUME NEW i \in 1 .. n
        PROVE  l[i] = i
    <2>1. PICK j \in 1 .. n : j = l[i]
      BY <1>2
    <2>2. {x \in 1 .. n : x < j} = 1 .. j - 1
      BY <2>1
    <2>3. Cardinality(1 .. j - 1) = j - 1
      <3>1. j - 1 \in Nat
        BY <2>1
      <3> QED
        BY <3>1, UpToCount
    <2>4. j - 1 = i - 1
      BY <1>2, <2>1, <2>2, <2>3
    <2> QED
      BY <2>1, <2>4
  <1>4. Kept(D, 1 .. n) = [i \in 1 .. n |-> D[l[i]]]
    BY <1>1 DEF Kept, l
  <1>5. [i \in 1 .. n |-> D[l[i]]] = [i \in 1 .. n |-> D[i]]
    BY <1>3
  <1> QED
    BY <1>4, <1>5

------------------------------------------------------------------------------
(* Sorting a series, and the bar that has n bars after it.                 *)

Later(D, P, i) == {j \in P : \/ D[j].day > D[i].day
                             \/ D[j].day = D[i].day /\ j > i}

\* As many entries follow one in what was kept as follow it among the places kept.
KeepsLater(k, B, D, P) ==
    \A n \in DOMAIN B :
        Cardinality(Later(D, P, k[n])) = Cardinality(Later(B, DOMAIN B, n))

LEMMA EmbedsLater ==
    ASSUME NEW D, NEW P \in SUBSET Int, NEW m \in Nat, NEW B, DOMAIN B = 1 .. m,
           NEW k, Embeds(k, B, D, P)
    PROVE  KeepsLater(k, B, D, P)
  <1> SUFFICES ASSUME NEW n \in 1 .. m
               PROVE  Cardinality(Later(D, P, k[n])) = Cardinality(Later(B, 1 .. m, n))
    BY DEF KeepsLater
  <1>0. DOMAIN B \subseteq Int /\ IsFiniteSet(DOMAIN B)
    BY UpToCount
  <1> DEFINE S == Later(B, 1 .. m, n)
             T == Later(D, P, k[n])
             f == [j \in S |-> k[j]]
  <1>1. k[n] \in P /\ S \subseteq DOMAIN B
    BY DEF Embeds, Later
  <1>2. \A j \in DOMAIN B : j \in S <=> k[j] \in T
    <2> SUFFICES ASSUME NEW j \in DOMAIN B PROVE j \in S <=> k[j] \in T
      OBVIOUS
    <2>1. k[j] \in P /\ B[j] = D[k[j]] /\ B[n] = D[k[n]] /\ (n < j <=> k[n] < k[j])
      BY DEF Embeds
    <2>2. n \in Int /\ j \in Int /\ k[n] \in Int /\ k[j] \in Int
      BY <1>0, <1>1, <2>1
    <2>3. j > n <=> k[j] > k[n]
      BY <2>1, <2>2
    <2> QED
      BY <2>1, <2>3 DEF Later
  <1>3. f \in [S -> T]
    BY <1>1, <1>2
  <1>4. \A a, b \in S : f[a] = f[b] => a = b
    <2> SUFFICES ASSUME NEW a \in S, NEW b \in S, f[a] = f[b] PROVE a = b
      OBVIOUS
    <2>1. a \in DOMAIN B /\ b \in DOMAIN B /\ k[a] = k[b]
      BY <1>1
    <2>2. (a < b <=> k[a] < k[b]) /\ (b < a <=> k[b] < k[a]) /\ k[a] \in P
      BY <2>1 DEF Embeds
    <2>3. a \in Int /\ b \in Int /\ k[a] \in Int
      BY <1>0, <2>1, <2>2
    <2> HIDE DEF f, S
    <2> QED
      BY <2>1, <2>2, <2>3
  <1>5. \A t \in T : \E j \in S : f[j] = t
    <2> SUFFICES ASSUME NEW t \in T PROVE \E j \in S : f[j] = t
      OBVIOUS
    <2>1. t \in P
      BY DEF Later
    <2>2. PICK j \in DOMAIN B : k[j] = t
      BY <2>1 DEF Embeds
    <2> QED
      BY <1>2, <2>2
  <1>6. IsFiniteSet(S)
    BY <1>0, <1>1, FS_Subset
  <1> HIDE DEF f, S, T
  <1>7. f \in Bijection(S, T)
    BY <1>3, <1>4, <1>5 DEF Bijection, Injection, Surjection, IsInjective
  <1>8. Cardinality(T) = Cardinality(S)
    BY <1>6, <1>7, FS_Bijection DEF ExistsBijection
  <1> QED
    BY <1>1, <1>8 DEF S, T

\* Sorting puts a bar where as many bars come after it as did among the unsorted:
\* those of later days, and those of its own day that were loaded after it.
PlacedByLater(B, m) ==
    /\ Sorted(B) = [q \in 1 .. m |-> Sorted(B)[q]]
    /\ \A q \in 1 .. m : \E i \in 1 .. m :
           Sorted(B)[q] = B[i] /\ Cardinality(Later(B, 1 .. m, i)) = m - q
    /\ \A i \in 1 .. m : \E q \in 1 .. m :
           Sorted(B)[q] = B[i] /\ Cardinality(Later(B, 1 .. m, i)) = m - q

LEMMA SortedByLater ==
    ASSUME NEW m \in Nat, NEW B, DOMAIN B = 1 .. m, \A i \in 1 .. m : B[i].day \in Int
    PROVE  PlacedByLater(B, m)
  <1> DEFINE I == 1 .. m
             R == {p \in I \X I : \/ B[p[1]].day < B[p[2]].day
                                  \/ B[p[1]].day = B[p[2]].day /\ p[1] < p[2]}
             l == Listed(R, I)
  <1>1. IsFiniteSet(I) /\ Cardinality(I) = m
    BY UpToCount
  <1>2. \A i, j \in I : /\ i \in Int /\ j \in Int /\ B[i].day \in Int /\ B[j].day \in Int
                        /\ <<i, j>> \in R <=> \/ B[i].day < B[j].day
                                              \/ B[i].day = B[j].day /\ i < j
    OBVIOUS
  <1>3. StrictOrder(R, I)
    <2> HIDE DEF R, I
    <2>1. \A x \in I : <<x, x>> \notin R
      BY <1>2
    <2>2. \A x, y \in I : x # y => <<x, y>> \in R \/ <<y, x>> \in R
      BY <1>2
    <2>3. ASSUME NEW x \in I, NEW y \in I, NEW z \in I, <<x, y>> \in R, <<y, z>> \in R
          PROVE  <<x, z>> \in R
      <3>1. /\ B[x].day \in Int /\ B[y].day \in Int /\ B[z].day \in Int
            /\ x \in Int /\ y \in Int /\ z \in Int
        BY <1>2
      <3>2. /\ B[x].day < B[y].day \/ (B[x].day = B[y].day /\ x < y)
            /\ B[y].day < B[z].day \/ (B[y].day = B[z].day /\ y < z)
        BY <1>2, <2>3
      <3>3. B[x].day < B[z].day \/ (B[x].day = B[z].day /\ x < z)
        BY <3>1, <3>2
      <3> QED
        BY <1>2, <3>3
    <2> QED
      BY <2>1, <2>2, <2>3 DEF StrictOrder
  <1>4. Sorted(B) = [q \in I |-> B[l[q]]]
    <2> DEFINE c(i) == CHOOSE x \in I :
                          Cardinality({y \in I : \/ B[y].day < B[x].day
                                                 \/ B[y].day = B[x].day /\ y < x}) = i - 1
    <2>1. Sorted(B) = [q \in I |-> B[[i \in 1 .. Cardinality(I) |-> c(i)][q]]]
      BY DEF Sorted, InOrder
    <2>2. \A x \in I : Below(R, I, x) = {y \in I : \/ B[y].day < B[x].day
                                                   \/ B[y].day = B[x].day /\ y < x}
      BY DEF Below
    <2>3. \A i : c(i) = CHOOSE x \in I : Rank(R, I, x) = i - 1
      BY <2>2 DEF Rank
    <2>4. l = [i \in 1 .. Cardinality(I) |-> CHOOSE x \in I : Rank(R, I, x) = i - 1]
      BY DEF Listed
    <2> HIDE DEF c, R, l
    <2>5. [i \in 1 .. Cardinality(I) |-> c(i)] = l
      BY <2>3, <2>4
    <2> QED
      BY <2>1, <2>5
  <1>5. \A i \in I : Above(R, I, i) = Later(B, I, i)
    <2> SUFFICES ASSUME NEW i \in I PROVE Above(R, I, i) = Later(B, I, i)
      OBVIOUS
    <2>1. \A j \in I : <<i, j>> \in R <=> (B[j].day > B[i].day \/ (B[j].day = B[i].day /\ j > i))
      <3> SUFFICES ASSUME NEW j \in I
                   PROVE  <<i, j>> \in R <=> (B[j].day > B[i].day \/ (B[j].day = B[i].day /\ j > i))
        OBVIOUS
      <3> HIDE DEF R, I
      <3> QED
        BY <1>2
    <2> HIDE DEF R
    <2> QED
      BY <2>1 DEF Above, Later
  <1> HIDE DEF R, l
  <1>6. /\ l \in [I -> I]
        /\ \A q \in I : Rank(R, I, l[q]) = q - 1
        /\ \A i \in I : Rank(R, I, i) + 1 \in I /\ l[Rank(R, I, i) + 1] = i
    <2>1. 1 .. Cardinality(I) = I
      BY <1>1
    <2>2. /\ l \in [1 .. Cardinality(I) -> I]
          /\ \A q \in 1 .. Cardinality(I) : Rank(R, I, l[q]) = q - 1
          /\ \A i \in I : /\ Rank(R, I, i) + 1 \in 1 .. Cardinality(I)
                          /\ l[Rank(R, I, i) + 1] = i
      <3> HIDE DEF I
      <3> QED
        BY <1>1, <1>3, ListedIsOrder DEF l
    <2> QED
      BY <2>1, <2>2
  <1>7. \A i \in I : /\ Rank(R, I, i) \in Int
                     /\ Cardinality(Later(B, I, i)) = m - 1 - Rank(R, I, i)
    BY <1>1, <1>3, <1>5, RankBounds
  <1>8. ASSUME NEW q \in I
        PROVE  \E i \in I : Sorted(B)[q] = B[i] /\ Cardinality(Later(B, I, i)) = m - q
    <2>1. PICK i \in I : i = l[q]
      BY <1>6
    <2>2. Cardinality(Later(B, I, i)) = m - 1 - (q - 1)
      BY <1>6, <1>7, <2>1
    <2> QED
      BY <1>4, <2>1, <2>2
  <1>9. ASSUME NEW i \in I
        PROVE  \E q \in I : Sorted(B)[q] = B[i] /\ Cardinality(Later(B, I, i)) = m - q
    <2>1. PICK q \in I : q = Rank(R, I, i) + 1 /\ l[q] = i
      BY <1>6
    <2>2. Cardinality(Later(B, I, i)) = m - 1 - Rank(R, I, i) /\ Rank(R, I, i) \in Int
      BY <1>7
    <2>3. m - 1 - Rank(R, I, i) = m - q
      BY <2>1, <2>2
    <2> QED
      BY <1>4, <2>1, <2>2, <2>3
  <1>10. Sorted(B) = [q \in I |-> Sorted(B)[q]]
    BY <1>4
  <1> QED
    BY <1>8, <1>9, <1>10 DEF PlacedByLater

------------------------------------------------------------------------------
(* Series of bars: what is loaded, known on a day, and sorted.             *)

LEMMA KeptSeries ==
    ASSUME NEW n \in Nat, NEW D \in [1 .. n -> Bars], NEW P, P \subseteq 1 .. n
    PROVE  /\ IsFiniteSet(P) /\ Cardinality(P) \in Nat
           /\ Kept(D, P) \in [1 .. Cardinality(P) -> Bars]
           /\ \A j \in 1 .. Cardinality(P) : \E i \in P : Kept(D, P)[j] = D[i]
           /\ \A i \in P : \E j \in 1 .. Cardinality(P) : Kept(D, P)[j] = D[i]
           /\ \E k : Embeds(k, Kept(D, P), D, P)
  <1>1. IsFiniteSet(P) /\ P \subseteq Int
    <2>1. IsFiniteSet(1 .. n)
      BY UpToCount
    <2>2. \A S : IsFiniteSet(S) /\ P \in SUBSET S => IsFiniteSet(P)
      BY FS_Subset
    <2> QED
      BY <2>1, <2>2
  <1>2. /\ Cardinality(P) \in Nat /\ DOMAIN Kept(D, P) = 1 .. Cardinality(P)
        /\ \E k : Embeds(k, Kept(D, P), D, P)
    BY <1>1, KeptEmbeds
  <1>3. PICK k : Embeds(k, Kept(D, P), D, P)
    BY <1>2
  <1>4. \A j \in 1 .. Cardinality(P) : k[j] \in P /\ Kept(D, P)[j] = D[k[j]]
    BY <1>2, <1>3 DEF Embeds
  <1>5. \A i \in P : \E j \in 1 .. Cardinality(P) : k[j] = i
    BY <1>2, <1>3 DEF Embeds
  <1>6. Kept(D, P) = [j \in 1 .. Cardinality(P) |-> Kept(D, P)[j]]
    BY <1>2 DEF Kept
  <1>7. \A j \in 1 .. Cardinality(P) : Kept(D, P)[j] \in Bars
    BY <1>4
  <1>8. Kept(D, P) \in [1 .. Cardinality(P) -> Bars]
    BY <1>6, <1>7
  <1> QED
    BY <1>1, <1>2, <1>4, <1>5, <1>8

LEMMA SeriesLength ==
    ASSUME NEW n \in Nat, NEW D \in [1 .. n -> Bars]
    PROVE  D \in Seq(Bars) /\ Len(D) = n
  OBVIOUS

LEMMA SeqSeries ==
    ASSUME NEW D \in Seq(Bars)
    PROVE  Len(D) \in Nat /\ D \in [1 .. Len(D) -> Bars]
  OBVIOUS

InputsOK ==
    /\ data \in SeriesSets /\ universe \in Universes /\ unusable \in UnusableSets
    /\ signalStart \in SignalStarts

LEMMA BoundsType ==
    ASSUME InputsOK
    PROVE  /\ Bounds.warmup \in Int /\ Bounds.performance \in Nat /\ Bounds.sessions \in Nat
           /\ signalStart = None => Bounds.performance = Start /\ Bounds.sessions = Lookback + 1
           /\ signalStart # None => Bounds.performance = signalStart
  BY RunAssumption, ConfigAssumption DEF InputsOK, Bounds

Known(s, day) == {i \in DOMAIN data[s] : Bounds.warmup <= data[s][i].day /\ data[s][i].day <= day}

LEMMA LoadedSeries ==
    ASSUME InputsOK, NEW s \in Symbols
    PROVE  /\ Len(data[s]) \in Nat /\ data[s] \in [1 .. Len(data[s]) -> Bars]
           /\ Len(Loaded(s)) \in Nat /\ Loaded(s) \in [1 .. Len(Loaded(s)) -> Bars]
           /\ IsFiniteSet(Known(s, End)) /\ Len(Loaded(s)) = Cardinality(Known(s, End))
           /\ \A i \in 1 .. Len(Loaded(s)) :
                  Bounds.warmup <= Loaded(s)[i].day /\ Loaded(s)[i].day <= End
           /\ \E k : Embeds(k, Loaded(s), data[s], Known(s, End))
  <1>1. data[s] \in Seq(Bars)
    BY RunAssumption DEF InputsOK
  <1>2. Len(data[s]) \in Nat /\ data[s] \in [1 .. Len(data[s]) -> Bars]
    BY <1>1, SeqSeries
  <1>3. \A i \in DOMAIN data[s] : data[s][i] \in Bars
    BY <1>2
  <1>4. \A i \in DOMAIN data[s] : data[s][i].day \in Nat
    BY <1>3 DEF Bars
  <1>5. Loaded(s) = Kept(data[s], Known(s, End))
    <2>1. {i \in DOMAIN data[s] : data[s][i].day \in Bounds.warmup .. End} = Known(s, End)
      BY <1>4, BoundsType, RunAssumption DEF Known
    <2> QED
      BY <2>1 DEF Loaded
  <1>6. Known(s, End) \subseteq 1 .. Len(data[s])
    BY <1>2 DEF Known
  <1> DEFINE P == Known(s, End)
             c == Cardinality(P)
  <1>7. /\ IsFiniteSet(P) /\ c \in Nat
        /\ Loaded(s) \in [1 .. c -> Bars]
        /\ \A j \in 1 .. c : \E i \in P : Loaded(s)[j] = data[s][i]
        /\ \E k : Embeds(k, Loaded(s), data[s], P)
    BY <1>2, <1>5, <1>6, KeptSeries
  <1>8. Len(Loaded(s)) = c
    BY <1>7, SeriesLength
  <1>9. \A i \in P : Bounds.warmup <= data[s][i].day /\ data[s][i].day <= End
    BY DEF Known
  <1> QED
    BY <1>2, <1>7, <1>8, <1>9

LEMMA BarsAsOfSeries ==
    ASSUME InputsOK, NEW s \in Symbols, NEW day \in Int, day <= End
    PROVE  /\ Len(BarsAsOf(s, day)) \in Nat
           /\ BarsAsOf(s, day) \in [1 .. Len(BarsAsOf(s, day)) -> Bars]
           /\ \A i \in 1 .. Len(BarsAsOf(s, day)) : BarsAsOf(s, day)[i].day <= day
           /\ LET asOf == {i \in 1 .. Len(Loaded(s)) : Loaded(s)[i].day <= day}
              IN IsFiniteSet(asOf) /\ Len(BarsAsOf(s, day)) = Cardinality(asOf)
           /\ \E k : Embeds(k, BarsAsOf(s, day), data[s], Known(s, day))
  <1> DEFINE L == Loaded(s)
             B == BarsAsOf(s, day)
             P == Known(s, End)
             Q == {i \in 1 .. Len(L) : L[i].day <= day}
             c == Cardinality(Q)
  <1>1. /\ Len(L) \in Nat /\ L \in [1 .. Len(L) -> Bars]
        /\ \E k : Embeds(k, L, data[s], P)
    BY LoadedSeries
  <1>2. B = Kept(L, Q)
    BY <1>1 DEF BarsAsOf, AsOf
  <1>3. /\ IsFiniteSet(Q) /\ c \in Nat /\ B \in [1 .. c -> Bars]
        /\ \A j \in 1 .. c : \E i \in Q : B[j] = L[i]
        /\ \E k : Embeds(k, B, L, Q)
    <2>1. Q \subseteq 1 .. Len(L)
      OBVIOUS
    <2> HIDE DEF L, B, Q
    <2>2. IsFiniteSet(Q) /\ c \in Nat /\ B \in [1 .. c -> Bars]
      BY <1>1, <1>2, <2>1, KeptSeries
    <2>4. \E k : Embeds(k, B, L, Q)
      BY <1>1, <1>2, <2>1, KeptSeries
    <2>3. \A j \in 1 .. c : \E i \in Q : B[j] = L[i]
      <3> HIDE DEF c
      <3> QED
        BY <2>2, <2>4 DEF Embeds
    <2> QED
      BY <2>2, <2>3, <2>4
  <1>4. Len(B) = c
    BY <1>3, SeriesLength
  <1>5. \A i \in 1 .. c : B[i].day <= day
    BY <1>3
  <1>6. PICK l : Embeds(l, L, data[s], P)
    BY <1>1
  <1>7. PICK k : Embeds(k, B, L, Q)
    BY <1>3
  <1>8. {l[q] : q \in Q} = Known(s, day)
    <2>1. \A q \in 1 .. Len(L) : l[q] \in P /\ L[q] = data[s][l[q]]
      BY <1>1, <1>6 DEF Embeds
    <2>2. \A i \in P : \E q \in 1 .. Len(L) : l[q] = i
      BY <1>1, <1>6 DEF Embeds
    <2>3. \A i \in DOMAIN data[s] : data[s][i].day \in Nat
      BY LoadedSeries DEF Bars
    <2>4. \A i : i \in Known(s, day) <=> i \in P /\ data[s][i].day <= day
      BY <2>3, BoundsType, RunAssumption DEF Known
    <2> HIDE DEF L, B, P
    <2> QED
      BY <2>1, <2>2, <2>4
  <1>9. Embeds([n \in DOMAIN B |-> l[k[n]]], B, data[s], Known(s, day))
    <2>1. Q \subseteq DOMAIN L
      BY <1>1
    <2> HIDE DEF L, B, P, Q
    <2> QED
      BY <1>6, <1>7, <1>8, <2>1, EmbedsCompose
  <1> QED
    BY <1>3, <1>4, <1>5, <1>9

\* Sorting what is known on a day keeps its length, and no bar is cut off.
LEMMA SliceIsSorted ==
    ASSUME NEW m \in Nat, NEW B \in [1 .. m -> Bars], NEW day \in Int,
           \A i \in 1 .. m : B[i].day <= day
    PROVE  /\ SliceAsOf(B, day) = Sorted(B) /\ Sorted(B) \in [1 .. m -> Bars]
           /\ Len(Sorted(B)) = m
  <1>1. \A i \in 1 .. m : B[i].day \in Int
    BY DEF Bars
  <1>2. /\ Sorted(B) = [q \in 1 .. m |-> Sorted(B)[q]]
        /\ \A q \in 1 .. m : \E i \in 1 .. m : Sorted(B)[q] = B[i]
    <2>1. PlacedByLater(B, m)
      BY <1>1, SortedByLater
    <2> QED
      BY <2>1 DEF PlacedByLater
  <1>3. Sorted(B) \in [1 .. m -> Bars] /\ \A q \in 1 .. m : Sorted(B)[q].day <= day
    BY <1>2
  <1>4. {q \in DOMAIN Sorted(B) : Sorted(B)[q].day <= day} = 1 .. m
    BY <1>3
  <1>5. SliceAsOf(B, day) = Kept(Sorted(B), 1 .. m)
    BY <1>4 DEF SliceAsOf, AsOf
  <1>6. Kept(Sorted(B), 1 .. m) = Sorted(B)
    BY <1>2, KeptAll
  <1> QED
    BY <1>3, <1>5, <1>6, SeriesLength

\* The bars the strategy looks at.
Slice(s, day) == SliceAsOf(BarsAsOf(s, day), day)

LEMMA SliceSeries ==
    ASSUME InputsOK, NEW s \in Symbols, NEW day \in Int, day <= End
    PROVE  /\ Slice(s, day) = Sorted(BarsAsOf(s, day))
           /\ Len(Slice(s, day)) = Len(BarsAsOf(s, day)) /\ Len(Slice(s, day)) \in Nat
           /\ Slice(s, day) \in [1 .. Len(Slice(s, day)) -> Bars]
  <1> DEFINE B == BarsAsOf(s, day)
             m == Len(B)
  <1>1. /\ m \in Nat /\ B \in [1 .. m -> Bars]
        /\ \A i \in 1 .. m : B[i].day <= day
    BY BarsAsOfSeries
  <1> HIDE DEF B, m
  <1>2. SliceAsOf(B, day) = Sorted(B) /\ Sorted(B) \in [1 .. m -> Bars] /\ Len(Sorted(B)) = m
    BY <1>1, SliceIsSorted
  <1> QED
    BY <1>1, <1>2 DEF Slice, B, m

\* The bar the strategy indexes from the end of the sorted series is the one with
\* that many bars after it among those known on the day, in whatever order they came.
LEMMA BackIsNthBack ==
    ASSUME InputsOK, NEW s \in Symbols, NEW day \in Int, day <= End, NEW n \in Nat
    PROVE  NthBack(s, day, n) =
               IF n < Len(Slice(s, day)) THEN {Back(Slice(s, day), n)} ELSE {}
  <1> DEFINE B == BarsAsOf(s, day)
             m == Len(B)
             D == data[s]
             K == Known(s, day)
  <1>1. /\ m \in Nat /\ B \in [1 .. m -> Bars]
        /\ \E k : Embeds(k, B, D, K)
    BY BarsAsOfSeries
  <1>2. Slice(s, day) = Sorted(B) /\ Len(Slice(s, day)) = m
    BY SliceSeries
  <1>3. K \subseteq Int
    <2>1. Len(data[s]) \in Nat /\ DOMAIN data[s] = 1 .. Len(data[s])
      BY LoadedSeries
    <2> QED
      BY <2>1 DEF Known
  <1>4. NthBack(s, day, n) = {D[i] : i \in {j \in K : Cardinality(Later(D, K, j)) = n}}
    BY DEF NthBack, Known, Later
  <1> HIDE DEF B, m, D, K
  <1>5. PICK k : Embeds(k, B, D, K)
    BY <1>1
  <1>6. DOMAIN B = 1 .. m /\ IsFiniteSet(DOMAIN B) /\ DOMAIN B \subseteq Int
    BY <1>1, UpToCount
  <1>7. \A i \in 1 .. m : /\ k[i] \in K /\ D[k[i]] = B[i]
                          /\ Cardinality(Later(D, K, k[i])) = Cardinality(Later(B, 1 .. m, i))
    <2> SUFFICES ASSUME NEW i \in 1 .. m
                 PROVE  /\ k[i] \in K /\ D[k[i]] = B[i]
                        /\ Cardinality(Later(D, K, k[i])) = Cardinality(Later(B, 1 .. m, i))
      OBVIOUS
    <2>1. k[i] \in K /\ D[k[i]] = B[i]
      BY <1>5, <1>6 DEF Embeds
    <2>2. Cardinality(Later(D, K, k[i])) = Cardinality(Later(B, 1 .. m, i))
      <3>1. KeepsLater(k, B, D, K)
        BY <1>1, <1>3, <1>5, <1>6, EmbedsLater
      <3> QED
        BY <1>6, <3>1 DEF KeepsLater
    <2> QED
      BY <2>1, <2>2
  <1>8. \A j \in K : \E i \in 1 .. m : k[i] = j
    BY <1>5, <1>6 DEF Embeds
  <1>9. \A i \in 1 .. m : B[i].day \in Int
    BY <1>1 DEF Bars
  <1>10. /\ \A q \in 1 .. m : \E i \in 1 .. m :
               Sorted(B)[q] = B[i] /\ Cardinality(Later(B, 1 .. m, i)) = m - q
         /\ \A i \in 1 .. m : \E q \in 1 .. m :
               Sorted(B)[q] = B[i] /\ Cardinality(Later(B, 1 .. m, i)) = m - q
    <2>1. PlacedByLater(B, m)
      BY <1>1, <1>6, <1>9, SortedByLater
    <2> QED
      BY <2>1 DEF PlacedByLater
  <1>11. ASSUME NEW b \in NthBack(s, day, n)
         PROVE  n < m /\ b = Sorted(B)[m - n]
    <2>1. PICK j \in K : Cardinality(Later(D, K, j)) = n /\ b = D[j]
      BY <1>4
    <2>2. PICK i \in 1 .. m : k[i] = j
      BY <1>8, <2>1
    <2>3. b = B[i] /\ Cardinality(Later(B, 1 .. m, i)) = n
      BY <1>7, <2>1, <2>2
    <2>4. PICK q \in 1 .. m : Sorted(B)[q] = B[i] /\ Cardinality(Later(B, 1 .. m, i)) = m - q
      BY <1>10, <2>2
    <2>5. q \in Int /\ 1 <= q /\ q <= m /\ m - q = n
      BY <2>3, <2>4
    <2>6. n < m /\ q = m - n
      BY <1>1, <2>5
    <2> QED
      BY <2>3, <2>4, <2>6
  <1>12. ASSUME n < m
         PROVE  Sorted(B)[m - n] \in NthBack(s, day, n)
    <2>1. PICK q \in 1 .. m : q = m - n
      BY <1>1, <1>12
    <2>2. PICK i \in 1 .. m : Sorted(B)[q] = B[i] /\ Cardinality(Later(B, 1 .. m, i)) = m - q
      BY <1>10, <2>1
    <2>3. m - q = n
      BY <1>1, <2>1
    <2>4. k[i] \in K /\ D[k[i]] = B[i] /\ Cardinality(Later(D, K, k[i])) = n
      BY <1>7, <2>2, <2>3
    <2> QED
      BY <1>4, <2>1, <2>2, <2>4
  <1>13. Back(Slice(s, day), n) = Sorted(B)[m - n]
    BY <1>2 DEF Back
  <1>14. CASE n < m
    <2>1. NthBack(s, day, n) = {Sorted(B)[m - n]}
      BY <1>11, <1>12, <1>14
    <2> QED
      BY <1>2, <1>13, <1>14, <2>1
  <1>15. CASE ~ (n < m)
    <2>1. NthBack(s, day, n) = {}
      BY <1>11, <1>15
    <2> QED
      BY <1>2, <1>15, <2>1
  <1> QED
    BY <1>14, <1>15

\* A symbol is eligible exactly when it keeps the promise.
LEMMA EligibleQualifies ==
    ASSUME InputsOK, NEW s \in Symbols, NEW day \in Int, day <= End
    PROVE  /\ Disposition(BarsAsOf(s, day), day) = "eligible" <=> Qualifies(s, day)
           /\ Qualifies(s, day) =>
                 /\ NthBack(s, day, Skip) = {Back(Slice(s, day), Skip)}
                 /\ NthBack(s, day, Lookback) = {Back(Slice(s, day), Lookback)}
                 /\ SkipPrice(Slice(s, day)) \in Nat
                 /\ LookbackPrice(Slice(s, day)) \in Nat \ {0}
  <1> DEFINE b == Slice(s, day)
             m == Len(b)
  <1>1. m \in Nat /\ b \in [1 .. m -> Bars]
    BY SliceSeries
  <1>2. \A n \in Nat : NthBack(s, day, n) = IF n < m THEN {Back(b, n)} ELSE {}
    BY BackIsNthBack
  <1>3. Skip \in Nat /\ Lookback \in Nat /\ Skip < Lookback /\ 0 \in Nat
    BY ConfigAssumption
  <1>4. Disposition(BarsAsOf(s, day), day) = "eligible" <=>
            /\ ~ Insufficient(b) /\ PricePasses(b) /\ LiquidityPasses(b) /\ MomentumPasses(b)
    BY DEF Disposition, Slice
  <1>5. Qualifies(s, day) <=>
            /\ \E bar \in NthBack(s, day, 0) : bar.close >= MinPrice
            /\ \E now \in NthBack(s, day, Skip), past \in NthBack(s, day, Lookback) :
                  /\ Missing \notin {now.adjusted, past.adjusted}
                  /\ 0 < past.adjusted /\ past.adjusted < now.adjusted
            /\ LiquidityPasses(b)
    BY DEF Qualifies, Slice
  <1> HIDE DEF b, m
  <1>6. Insufficient(b) <=> ~ (Lookback < m)
    BY <1>1, <1>3 DEF Insufficient, m
  <1>7. CASE ~ (Lookback < m)
    BY <1>2, <1>3, <1>4, <1>5, <1>6, <1>7
  <1>8. CASE Lookback < m
    <2>1. /\ NthBack(s, day, 0) = {Back(b, 0)}
          /\ NthBack(s, day, Skip) = {Back(b, Skip)}
          /\ NthBack(s, day, Lookback) = {Back(b, Lookback)}
      <3>1. 0 < m /\ Skip < m
        BY <1>1, <1>3, <1>8
      <3> QED
        BY <1>2, <1>3, <1>8, <3>1
    <2>2. Back(b, Skip) \in Bars /\ Back(b, Lookback) \in Bars
      <3>1. m - Skip \in 1 .. m /\ m - Lookback \in 1 .. m
        BY <1>1, <1>3, <1>8
      <3> QED
        BY <1>1, <3>1 DEF Back, m
    <2>3. SkipPrice(b) \in Nat \cup {Missing} /\ LookbackPrice(b) \in Nat \cup {Missing}
      BY <2>2 DEF SkipPrice, LookbackPrice, Bars
    <2>4. Qualifies(s, day) <=>
            /\ PricePasses(b)
            /\ Missing \notin {SkipPrice(b), LookbackPrice(b)}
            /\ 0 < LookbackPrice(b) /\ LookbackPrice(b) < SkipPrice(b)
            /\ LiquidityPasses(b)
      BY <1>5, <2>1 DEF PricePasses, SkipPrice, LookbackPrice
    <2>5. Missing \notin Nat
      BY ConfigAssumption
    <2>6. MomentumPasses(b) <=>
            /\ Missing \notin {SkipPrice(b), LookbackPrice(b)}
            /\ 0 < LookbackPrice(b) /\ LookbackPrice(b) < SkipPrice(b)
      BY <2>3, <2>5 DEF MomentumPasses
    <2>7. Qualifies(s, day) => SkipPrice(b) \in Nat /\ LookbackPrice(b) \in Nat \ {0}
      BY <2>3, <2>4, <2>5
    <2> QED
      BY <1>4, <1>6, <1>8, <2>1, <2>4, <2>6, <2>7 DEF b
  <1> QED
    BY <1>7, <1>8

------------------------------------------------------------------------------
(* Ranking by the ratio of two prices, compared by cross multiplication.   *)

LEMMA TimesCompares ==
    ASSUME NEW a \in Int, NEW b \in Int, NEW c \in Nat \ {0}
    PROVE  (a * c > b * c <=> a > b) /\ (a * c = b * c <=> a = b)
  OBVIOUS

LEMMA CrossTransitive ==
    ASSUME NEW x \in Nat, NEW y \in Nat, NEW z \in Nat,
           NEW p \in Nat \ {0}, NEW q \in Nat \ {0}, NEW r \in Nat \ {0},
           x * q >= y * p, y * r >= z * q
    PROVE  /\ x * r >= z * p
           /\ x * r = z * p <=> x * q = y * p /\ y * r = z * q
  <1>1. /\ x * q \in Int /\ y * p \in Int /\ y * r \in Int /\ z * q \in Int
        /\ x * r \in Int /\ z * p \in Int
    OBVIOUS
  <1>2. /\ (x * q) * r > (y * p) * r <=> x * q > y * p
        /\ (x * q) * r = (y * p) * r <=> x * q = y * p
    BY <1>1, TimesCompares
  <1>3. /\ (y * r) * p > (z * q) * p <=> y * r > z * q
        /\ (y * r) * p = (z * q) * p <=> y * r = z * q
    BY <1>1, TimesCompares
  <1>4. /\ (x * r) * q > (z * p) * q <=> x * r > z * p
        /\ (x * r) * q = (z * p) * q <=> x * r = z * p
    BY <1>1, TimesCompares
  <1>5. (y * p) * r = (y * r) * p /\ (x * q) * r = (x * r) * q /\ (z * q) * p = (z * p) * q
    OBVIOUS
  <1>6. PICK A \in Int : A = (x * r) * q
    BY <1>1
  <1>7. PICK M \in Int : M = (y * p) * r
    BY <1>1
  <1>8. PICK Z \in Int : Z = (z * p) * q
    BY <1>1
  <1>9. /\ A > M <=> x * q > y * p
        /\ A = M <=> x * q = y * p
        /\ M > Z <=> y * r > z * q
        /\ M = Z <=> y * r = z * q
        /\ A > Z <=> x * r > z * p
        /\ A = Z <=> x * r = z * p
    BY <1>2, <1>3, <1>4, <1>5, <1>6, <1>7, <1>8
  <1>10. A >= M /\ M >= Z
    BY <1>1, <1>6, <1>7, <1>8, <1>9
  <1> QED
    BY <1>1, <1>6, <1>7, <1>8, <1>9, <1>10

Candidates == [symbol : Nat, skip : Nat, lookback : Nat \ {0}]

\* Better momentum first and ties by name: a strict order of the candidates, for
\* the ratios are compared without dividing.
LEMMA AheadOrders ==
    ASSUME NEW a \in Candidates, NEW b \in Candidates, NEW c \in Candidates
    PROVE  /\ ~ Ahead(a, a)
           /\ Ahead(a, b) /\ Ahead(b, c) => Ahead(a, c)
           /\ a.symbol # b.symbol => Ahead(a, b) \/ Ahead(b, a)
  <1>1. /\ a.symbol \in Nat /\ a.skip \in Nat /\ a.lookback \in Nat \ {0}
        /\ b.symbol \in Nat /\ b.skip \in Nat /\ b.lookback \in Nat \ {0}
        /\ c.symbol \in Nat /\ c.skip \in Nat /\ c.lookback \in Nat \ {0}
    BY DEF Candidates
  <1>2. PICK ab \in Int : ab = a.skip * b.lookback
    BY <1>1
  <1>3. PICK ba \in Int : ba = b.skip * a.lookback
    BY <1>1
  <1>4. PICK bc \in Int : bc = b.skip * c.lookback
    BY <1>1
  <1>5. PICK cb \in Int : cb = c.skip * b.lookback
    BY <1>1
  <1>6. PICK ac \in Int : ac = a.skip * c.lookback
    BY <1>1
  <1>7. PICK ca \in Int : ca = c.skip * a.lookback
    BY <1>1
  <1>8. ab >= ba /\ bc >= cb => ac >= ca /\ (ac = ca <=> ab = ba /\ bc = cb)
    BY <1>1, <1>2, <1>3, <1>4, <1>5, <1>6, <1>7, CrossTransitive
  <1>9. /\ Ahead(a, b) <=> ab > ba \/ (ab = ba /\ a.symbol < b.symbol)
        /\ Ahead(b, a) <=> ba > ab \/ (ba = ab /\ b.symbol < a.symbol)
        /\ Ahead(b, c) <=> bc > cb \/ (bc = cb /\ b.symbol < c.symbol)
        /\ Ahead(a, c) <=> ac > ca \/ (ac = ca /\ a.symbol < c.symbol)
    BY <1>2, <1>3, <1>4, <1>5, <1>6, <1>7 DEF Ahead
  <1>10. ~ Ahead(a, a)
    <2>1. PICK aa \in Int : aa = a.skip * a.lookback
      BY <1>1
    <2> QED
      BY <1>1, <2>1 DEF Ahead
  <1>11. Ahead(a, b) /\ Ahead(b, c) => Ahead(a, c)
    BY <1>1, <1>2, <1>3, <1>4, <1>5, <1>6, <1>7, <1>8, <1>9
  <1>12. a.symbol # b.symbol => Ahead(a, b) \/ Ahead(b, a)
    BY <1>1, <1>2, <1>3, <1>9
  <1> QED
    BY <1>10, <1>11, <1>12

\* Ranking the candidates of a set E of symbols and taking the first top_n: each
\* symbol with few enough better ones is there, at its place, and nothing else is.
Placed(E, cand) == [s \in E |-> 1 + Cardinality({o \in E : Ahead(cand[o], cand[s])})]

BestFirst(E, cand) ==
    LET best == {s \in E : Placed(E, cand)[s] <= TopN}
        selected == SelectTopN(RankCandidates({cand[s] : s \in E}))
    IN /\ Len(selected) = Cardinality(best)
       /\ \A s \in best : selected[Placed(E, cand)[s]].symbol = s

LEMMA RankedSelection ==
    ASSUME NEW E, IsFiniteSet(E), NEW cand \in [E -> Candidates], \A s \in E : cand[s].symbol = s
    PROVE  BestFirst(E, cand)
  <1>a. PICK place : place = Placed(E, cand)
    OBVIOUS
  <1>b. PICK best : best = {s \in E : place[s] <= TopN}
    OBVIOUS
  <1>c. PICK selected : selected = SelectTopN(RankCandidates({cand[s] : s \in E}))
    OBVIOUS
  <1> SUFFICES /\ Len(selected) = Cardinality(best)
               /\ \A s \in best : selected[place[s]].symbol = s
    BY <1>a, <1>b, <1>c DEF BestFirst
  <1> USE <1>b
  <1> DEFINE C == {cand[s] : s \in E}
             R == {p \in C \X C : Ahead(p[1], p[2])}
             ranked == Listed(R, C)
             n == Cardinality(C)
  <1>1. C \subseteq Candidates /\ \A s, t \in E : cand[s] = cand[t] => s = t
    OBVIOUS
  <1>2. cand \in Bijection(E, C)
    <2> HIDE DEF C
    <2>1. cand \in [E -> C] /\ \A c \in C : \E s \in E : cand[s] = c
      BY DEF C
    <2> QED
      BY <1>1, <2>1 DEF Bijection, Injection, Surjection, IsInjective
  <1>3. IsFiniteSet(C) /\ n = Cardinality(E) /\ n \in Nat
    <2>1. IsFiniteSet(C) /\ Cardinality(C) = Cardinality(E)
      <3> HIDE DEF C
      <3> QED
        BY <1>2, FS_Bijection DEF ExistsBijection
    <2> QED
      BY <2>1, FS_CardinalityType
  <1>4. \A a, b \in C : <<a, b>> \in R <=> Ahead(a, b)
    OBVIOUS
  <1>5. \A a, b \in C : a # b => a.symbol # b.symbol
    OBVIOUS
  <1>6. StrictOrder(R, C)
    <2> HIDE DEF R, C
    <2>1. \A a, b, c \in C : /\ ~ Ahead(a, a)
                             /\ Ahead(a, b) /\ Ahead(b, c) => Ahead(a, c)
                             /\ a.symbol # b.symbol => Ahead(a, b) \/ Ahead(b, a)
      BY <1>1, AheadOrders
    <2> QED
      BY <1>4, <1>5, <2>1 DEF StrictOrder
  <1>7. RankCandidates(C) = ranked
    <2> DEFINE c(i) == CHOOSE x \in C : Cardinality({y \in C : Ahead(y, x)}) = i - 1
               d(i) == CHOOSE x \in C : Rank(R, C, x) = i - 1
    <2>1. \A x \in C : {y \in C : Ahead(y, x)} = Below(R, C, x)
      <3> HIDE DEF R, C
      <3> QED
        BY <1>4 DEF Below
    <2>2. \A i \in 1 .. n : c(i) = d(i)
      <3> HIDE DEF R, C, n
      <3> QED
        BY <2>1 DEF Rank
    <2>3. RankCandidates(C) = [i \in 1 .. n |-> c(i)]
      BY DEF RankCandidates, InOrder
    <2>4. ranked = [i \in 1 .. n |-> d(i)]
      BY DEF Listed
    <2> HIDE DEF c, d, R, C, n, ranked
    <2> QED
      BY <2>2, <2>3, <2>4
  <1>8. /\ ranked \in [1 .. n -> C]
        /\ \A x \in C : Rank(R, C, x) + 1 \in 1 .. n /\ ranked[Rank(R, C, x) + 1] = x
    <2> HIDE DEF R, C
    <2> QED
      BY <1>3, <1>6, ListedIsOrder
  <1>9. \A s \in E : place[s] = Rank(R, C, cand[s]) + 1
    <2> SUFFICES ASSUME NEW s \in E PROVE place[s] = Rank(R, C, cand[s]) + 1
      OBVIOUS
    <2> DEFINE A == {o \in E : Ahead(cand[o], cand[s])}
               B == Below(R, C, cand[s])
               f == [o \in A |-> cand[o]]
    <2>1. cand[s] \in C
      OBVIOUS
    <2>2. \A o \in E : o \in A <=> cand[o] \in B
      BY <1>4, <2>1 DEF Below
    <2>3. \A b \in B : \E o \in E : cand[o] = b
      BY DEF Below
    <2>4. IsFiniteSet(A)
      BY FS_Subset
    <2>5. A \subseteq E
      OBVIOUS
    <2>6. f \in Bijection(A, B)
      <3> HIDE DEF A, B, C, R
      <3>1. f \in [A -> B]
        BY <2>2, <2>5
      <3>2. \A x, y \in A : f[x] = f[y] => x = y
        BY <1>1, <2>5
      <3>3. \A b \in B : \E x \in A : f[x] = b
        BY <2>2, <2>3
      <3> HIDE DEF f
      <3> QED
        BY <3>1, <3>2, <3>3 DEF Bijection, Injection, Surjection, IsInjective
    <2>7. Cardinality(B) = Cardinality(A)
      <3> HIDE DEF A, B, f
      <3> QED
        BY <2>4, <2>6, FS_Bijection DEF ExistsBijection
    <2>8. Cardinality(A) \in Nat
      <3> HIDE DEF A
      <3> QED
        BY <2>4, FS_CardinalityType
    <2>9. place[s] = 1 + Cardinality(A) /\ Rank(R, C, cand[s]) = Cardinality(B)
      BY <1>a DEF Rank, Placed
    <2> HIDE DEF A, B
    <2> QED
      BY <2>7, <2>8, <2>9
  <1> HIDE DEF R, ranked, n
  <1>10. /\ place \in [E -> 1 .. n]
         /\ \A s \in E : ranked[place[s]] = cand[s]
    <2>1. \A s \in E : place[s] \in 1 .. n /\ ranked[place[s]] = cand[s]
      BY <1>8, <1>9
    <2> QED
      BY <1>a, <2>1 DEF Placed
  <1>11. \A i \in 1 .. n : \E s \in E : place[s] = i
    <2>1. place \in Injection(E, 1 .. n)
      <3>1. \A x, y \in E : place[x] = place[y] => x = y
        BY <1>1, <1>10
      <3>2. place \in [E -> 1 .. n]
        BY <1>10
      <3> QED
        BY <3>1, <3>2 DEF Injection, IsInjective
    <2>2. IsFiniteSet(1 .. n) /\ Cardinality(1 .. n) = n
      BY <1>3, UpToCount
    <2>3. place \in Surjection(E, 1 .. n)
      BY <1>3, <2>1, <2>2, FS_Injection
    <2> QED
      BY <2>3 DEF Surjection
  <1> DEFINE k == IF n < TopN THEN n ELSE TopN
  <1>12. k \in Nat /\ k <= n /\ \A i \in 1 .. n : i <= TopN <=> i <= k
    BY <1>3, ConfigAssumption
  <1>13. selected = SubSeq(ranked, 1, k)
    <2>1. ranked \in Seq(C) /\ Len(ranked) = n
      BY <1>3, <1>8
    <2> QED
      BY <1>7, <1>c, <2>1 DEF SelectTopN
  <1> HIDE DEF k
  <1>14. Len(selected) = k /\ \A i \in 1 .. k : selected[i] = ranked[i]
    <2>1. \A i \in 1 .. k : ranked[i] \in C
      BY <1>3, <1>8, <1>12
    <2>2. k \in Int /\ 1 \in Int
      BY <1>12
    <2>3. /\ Len(selected) = IF 1 <= k THEN k - 1 + 1 ELSE 0
          /\ \A i \in 1 .. k - 1 + 1 : selected[i] = ranked[1 + i - 1]
      BY <1>13, <2>1, <2>2, SubSeqProperties
    <2> QED
      BY <1>12, <2>3
  <1>15. Cardinality(best) = k
    <2> DEFINE f == [s \in best |-> place[s]]
    <2>1. \A s \in E : s \in best <=> place[s] \in 1 .. k
      BY <1>3, <1>10, <1>12
    <2>2. f \in Bijection(best, 1 .. k)
      <3>1. f \in [best -> 1 .. k]
        BY <2>1
      <3>2. \A x, y \in best : f[x] = f[y] => x = y
        BY <1>1, <1>10
      <3>3. \A i \in 1 .. k : \E x \in best : f[x] = i
        <4> SUFFICES ASSUME NEW i \in 1 .. k PROVE \E x \in best : f[x] = i
          OBVIOUS
        <4>1. i \in 1 .. n
          BY <1>3, <1>12
        <4>2. PICK x \in E : place[x] = i
          BY <1>11, <4>1
        <4>3. x \in best
          BY <2>1, <4>2
        <4> QED
          BY <4>2, <4>3
      <3> HIDE DEF f
      <3> QED
        BY <3>1, <3>2, <3>3 DEF Bijection, Injection, Surjection, IsInjective
    <2>3. IsFiniteSet(best)
      BY FS_Subset
    <2>4. Cardinality(1 .. k) = Cardinality(best)
      <3> HIDE DEF f
      <3> QED
        BY <2>2, <2>3, FS_Bijection DEF ExistsBijection
    <2> QED
      BY <1>12, <2>4, UpToCount
  <1>16. ASSUME NEW s \in best
         PROVE  selected[place[s]].symbol = s
    <2>1. s \in E /\ place[s] \in 1 .. k
      BY <1>3, <1>10, <1>12
    <2>2. selected[place[s]] = cand[s]
      BY <1>10, <1>14, <2>1
    <2> QED
      BY <2>1, <2>2
  <1> QED
    BY <1>14, <1>15, <1>16

------------------------------------------------------------------------------
(* The calendar.                                                           *)

Sessions == {day \in TradingDays : day >= Bounds.performance}

\* Trading days are days of the run, and the performance dates list sessions, each once.
LEMMA Calendar ==
    ASSUME InputsOK
    PROVE  /\ TradingDays \subseteq Start .. End /\ TradingDays \subseteq Int
           /\ IsFiniteSet(TradingDays)
           /\ Len(PerformanceDates) \in Nat
           /\ PerformanceDates \in [1 .. Len(PerformanceDates) -> Sessions]
           /\ \A i, j \in 1 .. Len(PerformanceDates) :
                  PerformanceDates[i] = PerformanceDates[j] => i = j
  <1>1. TradingDays \subseteq Start .. End
    <2> SUFFICES ASSUME NEW day \in TradingDays PROVE day \in Start .. End
      OBVIOUS
    <2>1. PICK s \in Symbols : day \in Days(Loaded(s)) /\ Start <= day
      BY DEF TradingDays
    <2>2. PICK i \in DOMAIN Loaded(s) : day = Loaded(s)[i].day
      BY <2>1 DEF Days
    <2>3. /\ Loaded(s) \in [1 .. Len(Loaded(s)) -> Bars]
          /\ \A j \in 1 .. Len(Loaded(s)) : Loaded(s)[j].day <= End
      BY LoadedSeries
    <2>4. Loaded(s)[i] \in Bars /\ Loaded(s)[i].day <= End
      BY <2>2, <2>3
    <2>5. Loaded(s)[i].day \in Nat
      BY <2>4 DEF Bars
    <2> QED
      BY <2>1, <2>2, <2>4, <2>5, RunAssumption
  <1>2. TradingDays \subseteq Int /\ IsFiniteSet(TradingDays)
    <2>1. IsFiniteSet(Start .. End)
      BY FS_Interval, RunAssumption
    <2>2. \A S : IsFiniteSet(S) /\ TradingDays \in SUBSET S => IsFiniteSet(TradingDays)
      BY FS_Subset
    <2>3. IsFiniteSet(TradingDays)
      BY <1>1, <2>1, <2>2
    <2>4. Start .. End \subseteq Int
      OBVIOUS
    <2> QED
      BY <1>1, <2>3, <2>4
  <1>3. Sessions \subseteq Int /\ IsFiniteSet(Sessions)
    BY <1>2, FS_Subset DEF Sessions
  <1> DEFINE c == Cardinality(Sessions)
             l == Ascending(Sessions)
  <1>4. PerformanceDates = l
    BY DEF PerformanceDates, Sessions
  <1>5. /\ c \in Nat /\ l \in [1 .. c -> Sessions]
        /\ \A i, j \in 1 .. c : i < j <=> l[i] < l[j]
    BY <1>3, AscendingOrder
  <1> HIDE DEF l, c
  <1>6. l \in Seq(Sessions) /\ Len(l) = c
    BY <1>5
  <1>7. \A i, j \in 1 .. c : l[i] = l[j] => i = j
    <2> SUFFICES ASSUME NEW i \in 1 .. c, NEW j \in 1 .. c, l[i] = l[j] PROVE i = j
      OBVIOUS
    <2>1. l[i] \in Sessions /\ i \in Int /\ j \in Int
      BY <1>5
    <2>2. l[i] \in Int
      BY <1>3, <2>1
    <2> QED
      BY <1>5, <2>1, <2>2
  <1> QED
    BY <1>1, <1>2, <1>4, <1>5, <1>6, <1>7

\* A rebalance has its sessions of warm-up behind it.
LEMMA RebalanceCalendar ==
    ASSUME InputsOK, NEW day \in RebalanceDates
    PROVE  /\ day \in TradingDays /\ day \in Start .. End
           /\ LET upTo == {d \in TradingDays : d <= day}
              IN IsFiniteSet(upTo) /\ Cardinality(upTo) \in Nat /\ Cardinality(upTo) >= Bounds.sessions
  <1> DEFINE l == Ascending(TradingDays)
             c == Cardinality(TradingDays)
             before == {d \in TradingDays : d < day}
             upTo == {d \in TradingDays : d <= day}
  <1>1. TradingDays \subseteq Start .. End /\ TradingDays \subseteq Int /\ IsFiniteSet(TradingDays)
    BY Calendar
  <1>2. /\ c \in Nat /\ l \in [1 .. c -> TradingDays]
        /\ \A i \in 1 .. c : Cardinality({x \in TradingDays : x < l[i]}) = i - 1
    BY <1>1, AscendingOrder
  <1>3. TradingDates = l
    BY DEF TradingDates
  <1> HIDE DEF l, c
  <1>4. PICK i \in 1 .. c : l[i] = day /\ i >= Bounds.sessions
    BY <1>2, <1>3 DEF RebalanceDates
  <1>5. day \in TradingDays
    BY <1>2, <1>4
  <1>6. Cardinality(before) = i - 1
    BY <1>2, <1>4
  <1>7. upTo = before \cup {day} /\ day \notin before
    <2>1. day \in Int /\ \A d \in TradingDays : d \in Int
      BY <1>1, <1>5
    <2>2. \A d \in TradingDays : d <= day <=> d < day \/ d = day
      BY <2>1
    <2>3. \A d : d \in upTo <=> d \in before \/ d = day
      BY <1>5, <2>2
    <2>4. day \notin before
      BY <2>1
    <2> HIDE DEF upTo, before
    <2> QED
      BY <2>3, <2>4
  <1>8. IsFiniteSet(before)
    BY <1>1, FS_Subset
  <1> HIDE DEF before, upTo
  <1>9. IsFiniteSet(upTo) /\ Cardinality(upTo) = Cardinality(before) + 1
    BY <1>7, <1>8, FS_AddElement
  <1>10. i \in Nat /\ Bounds.sessions \in Nat
    BY <1>2, <1>4, BoundsType
  <1>11. Cardinality(upTo) = i
    BY <1>6, <1>9, <1>10
  <1> QED
    BY <1>1, <1>4, <1>5, <1>9, <1>10, <1>11 DEF upTo

LEMMA MembersAreSymbols ==
    ASSUME InputsOK, NEW day \in Start .. End
    PROVE  Members(day) \subseteq Symbols /\ Evaluated(day) \subseteq Symbols
  BY RunAssumption DEF InputsOK, Members, Evaluated

Selected(day) ==
    SelectTopN(RankCandidates(
        {Candidate(s, BarsAsOf(s, day), day) :
            s \in {t \in Evaluated(day) : Disposition(BarsAsOf(t, day), day) = "eligible"}}))

\* The inputs are fixed, and everything computed from them.
LEMMA InputsFixed ==
    ASSUME UNCHANGED inputs
    PROVE  /\ InputsOK' = InputsOK /\ Bounds' = Bounds
           /\ \A s : Loaded(s)' = Loaded(s)
           /\ \A s, day : BarsAsOf(s, day)' = BarsAsOf(s, day)
           /\ PerformanceDates' = PerformanceDates /\ RebalanceDates' = RebalanceDates
           /\ \A day : /\ Members(day)' = Members(day) /\ Unpriced(day)' = Unpriced(day)
                       /\ Evaluated(day)' = Evaluated(day) /\ Selected(day)' = Selected(day)
  <1>1. /\ data' = data /\ universe' = universe /\ unusable' = unusable
        /\ signalStart' = signalStart
    BY DEF inputs
  <1>2. Bounds' = Bounds
    BY <1>1 DEF Bounds
  <1>3. \A s : Loaded(s)' = Loaded(s)
    BY <1>1, <1>2 DEF Loaded
  <1>4. \A s, day : BarsAsOf(s, day)' = BarsAsOf(s, day)
    BY <1>3 DEF BarsAsOf
  <1>5. TradingDays' = TradingDays
    BY <1>3 DEF TradingDays
  <1>6. PerformanceDates' = PerformanceDates
    BY <1>2, <1>5 DEF PerformanceDates
  <1>7. TradingDates' = TradingDates
    BY <1>5 DEF TradingDates
  <1>8. RebalanceDates' = RebalanceDates
    BY <1>1, <1>2, <1>7 DEF RebalanceDates
  <1>9. \A day : Members(day)' = Members(day)
    BY <1>1 DEF Members
  <1>10. \A day : Unpriced(day)' = Unpriced(day)
    BY <1>3, <1>9 DEF Unpriced
  <1>11. \A day : Evaluated(day)' = Evaluated(day)
    BY <1>1, <1>9, <1>10 DEF Evaluated
  <1>12. \A day : Selected(day)' = Selected(day)
    BY <1>4, <1>11 DEF Selected
  <1> QED
    BY <1>1, <1>2, <1>3, <1>4, <1>6, <1>8, <1>9, <1>10, <1>11, <1>12 DEF InputsOK

------------------------------------------------------------------------------
(* The inductive invariant.                                                *)

\* A rebalance that was started is one of the sessions up to the current one, and
\* its diagnostics are about its members.
DiagnosticsInv ==
    \A day \in DOMAIN diagnostics :
        /\ day \in RebalanceDates
        /\ \E i \in 1 .. Len(PerformanceDates) : i <= session /\ PerformanceDates[i] = day
        /\ diagnostics[day].members = Members(day)
        /\ diagnostics[day].missing = Unpriced(day)

\* During a rebalance every usable member is evaluated, rightly, or still to be.
FoundInv ==
    Running /\ Today \in DOMAIN diagnostics =>
        /\ DOMAIN found \cup todo = Evaluated(Today) /\ DOMAIN found \cap todo = {}
        /\ \A s \in DOMAIN found : found[s] = Disposition(BarsAsOf(s, Today), Today)

\* Recorded signals are the ranked selection for their day.
SignalsInv ==
    \A day \in DOMAIN signals : day \in DOMAIN diagnostics /\ signals[day] = Selected(day)

\* A symbol short of history was a usable member of some rebalance.
ShortInv ==
    \A s \in short : \E day \in DOMAIN diagnostics :
        s \in Evaluated(day) /\ Insufficient(BarsAsOf(s, day))

Status == IF Ever("missing") = {} /\ Unfit = {} THEN "COMPLETE" ELSE "DATA_QUALITY_INCOMPLETE"

\* The report is about the diagnostics as they are: nothing follows it.
ReportInv ==
    report # None =>
        /\ report.members = Cardinality(UniverseMembers) /\ report.available = AvailableCount
        /\ report.missing = Cardinality(Ever("missing")) /\ report.unusable = Cardinality(Unfit)
        /\ report.insufficient = Cardinality(short) /\ report.status = Status

RunInv ==
    /\ InputsOK
    /\ session \in 1 .. Len(PerformanceDates) + 1
    /\ DiagnosticsInv /\ FoundInv /\ SignalsInv /\ ShortInv /\ ReportInv

LEMMA RunInvInit ==
    ASSUME Init
    PROVE  RunInv
  <1>1. InputsOK
    BY DEF Init, InputsOK
  <1>2. Len(PerformanceDates) \in Nat
    BY <1>1, Calendar
  <1>3. session \in 1 .. Len(PerformanceDates) + 1
    BY <1>2 DEF Init
  <1>4. DOMAIN diagnostics = {} /\ DOMAIN signals = {} /\ short = {} /\ report = None
    BY DEF Init, Empty
  <1> QED
    BY <1>1, <1>3, <1>4 DEF RunInv, DiagnosticsInv, FoundInv, SignalsInv, ShortInv, ReportInv

\* What no step but StartRebalance and FinishRebalance can disturb.
LEMMA RecordsKept ==
    ASSUME RunInv, UNCHANGED <<inputs, signals, diagnostics, short>>,
           session' \in Int, session <= session'
    PROVE  DiagnosticsInv' /\ SignalsInv' /\ ShortInv'
  <1>1. \A d \in DOMAIN diagnostics :
            /\ Members(d)' = Members(d) /\ Unpriced(d)' = Unpriced(d)
            /\ Evaluated(d)' = Evaluated(d) /\ Selected(d)' = Selected(d)
    BY InputsFixed
  <1>2. PerformanceDates' = PerformanceDates /\ RebalanceDates' = RebalanceDates
    BY InputsFixed
  <1>3. \A s, d : BarsAsOf(s, d)' = BarsAsOf(s, d)
    BY InputsFixed
  <1>4. session \in Int /\ Len(PerformanceDates) \in Nat
    BY Calendar DEF RunInv
  <1>5. DiagnosticsInv'
    <2> SUFFICES ASSUME NEW day \in DOMAIN diagnostics
                 PROVE  /\ day \in RebalanceDates
                        /\ \E i \in 1 .. Len(PerformanceDates) :
                              i <= session' /\ PerformanceDates[i] = day
                        /\ diagnostics[day].members = Members(day)
                        /\ diagnostics[day].missing = Unpriced(day)
      BY <1>1, <1>2 DEF DiagnosticsInv
    <2>1. /\ day \in RebalanceDates
          /\ diagnostics[day].members = Members(day)
          /\ diagnostics[day].missing = Unpriced(day)
      BY DEF RunInv, DiagnosticsInv
    <2>2. PICK i \in 1 .. Len(PerformanceDates) : i <= session /\ PerformanceDates[i] = day
      BY DEF RunInv, DiagnosticsInv
    <2>3. i <= session'
      BY <1>4, <2>2
    <2> QED
      BY <2>1, <2>2, <2>3
  <1>6. SignalsInv'
    BY <1>1 DEF RunInv, SignalsInv
  <1>7. ShortInv'
    BY <1>1, <1>3 DEF RunInv, ShortInv
  <1> QED
    BY <1>5, <1>6, <1>7

\* The loop has moved on: no rebalance of the new session has started.
LEMMA NextSession ==
    ASSUME RunInv, Running, UNCHANGED inputs, session' = session + 1,
           DOMAIN diagnostics' = DOMAIN diagnostics
    PROVE  session' \in 1 .. Len(PerformanceDates)' + 1 /\ FoundInv'
  <1>1. PerformanceDates' = PerformanceDates
    BY InputsFixed
  <1>2. /\ Len(PerformanceDates) \in Nat /\ session \in 1 .. Len(PerformanceDates)
        /\ \A i, j \in 1 .. Len(PerformanceDates) :
               PerformanceDates[i] = PerformanceDates[j] => i = j
    BY Calendar DEF RunInv, Running
  <1>3. session' \in 1 .. Len(PerformanceDates)' + 1
    BY <1>1, <1>2
  <1>4. ASSUME Running', Today' \in DOMAIN diagnostics
        PROVE  FALSE
    <2>1. session + 1 <= Len(PerformanceDates) /\ Today' = PerformanceDates[session + 1]
      BY <1>1, <1>4 DEF Running, Today
    <2>2. PICK i \in 1 .. Len(PerformanceDates) :
             i <= session /\ PerformanceDates[i] = PerformanceDates[session + 1]
      BY <1>4, <2>1 DEF RunInv, DiagnosticsInv
    <2>3. i = session + 1
      BY <1>2, <2>1, <2>2
    <2> QED
      BY <1>2, <2>2, <2>3
  <1> QED
    BY <1>3, <1>4 DEF FoundInv

LEMMA TodayInPeriod ==
    ASSUME InputsOK, session \in 1 .. Len(PerformanceDates) + 1, Running
    PROVE  /\ session \in 1 .. Len(PerformanceDates)
           /\ Today \in Sessions /\ Today \in Start .. End /\ Evaluated(Today) \subseteq Symbols
  <1>1. Len(PerformanceDates) \in Nat /\ PerformanceDates \in [1 .. Len(PerformanceDates) -> Sessions]
    BY Calendar
  <1>2. session \in 1 .. Len(PerformanceDates)
    BY <1>1 DEF Running
  <1>3. Today \in Sessions
    BY <1>1, <1>2 DEF Today
  <1>4. Today \in Start .. End
    BY <1>3, Calendar DEF Sessions
  <1> QED
    BY <1>2, <1>3, <1>4, MembersAreSymbols

LEMMA StartRebalanceKeeps ==
    ASSUME RunInv, StartRebalance
    PROVE  RunInv'
  <1> DEFINE entry == [members |-> Members(Today), missing |-> Unpriced(Today),
                       unusable |-> UnusableMembers(Today),
                       insufficient |-> 0, price |-> 0, liquidity |-> 0, eligible |-> 0]
  <1>1. /\ Running /\ Today \in RebalanceDates /\ Today \notin DOMAIN diagnostics
        /\ todo' = Evaluated(Today) /\ found' = Empty
        /\ diagnostics' = Recorded(diagnostics, Today, entry)
        /\ UNCHANGED inputs /\ session' = session /\ signals' = signals /\ short' = short
        /\ report' = report
    BY DEF StartRebalance
  <1>2. /\ InputsOK' = InputsOK /\ PerformanceDates' = PerformanceDates
        /\ RebalanceDates' = RebalanceDates
        /\ \A s, d : BarsAsOf(s, d)' = BarsAsOf(s, d)
        /\ \A day : /\ Members(day)' = Members(day) /\ Unpriced(day)' = Unpriced(day)
                    /\ Evaluated(day)' = Evaluated(day) /\ Selected(day)' = Selected(day)
    BY <1>1, InputsFixed
  <1>3. Today' = Today
    BY <1>1, <1>2 DEF Today
  <1>4. session \in 1 .. Len(PerformanceDates)
    BY <1>1, TodayInPeriod DEF RunInv
  <1>5. /\ DOMAIN diagnostics' = DOMAIN diagnostics \cup {Today}
        /\ diagnostics'[Today] = entry
        /\ \A day \in DOMAIN diagnostics : diagnostics'[day] = diagnostics[day]
    BY <1>1 DEF Recorded
  <1> HIDE DEF entry
  <1>6. entry.members = Members(Today) /\ entry.missing = Unpriced(Today)
    BY DEF entry
  <1>7. DiagnosticsInv'
    <2> SUFFICES ASSUME NEW day \in DOMAIN diagnostics'
                 PROVE  /\ day \in RebalanceDates
                        /\ \E i \in 1 .. Len(PerformanceDates) :
                              i <= session /\ PerformanceDates[i] = day
                        /\ diagnostics'[day].members = Members(day)
                        /\ diagnostics'[day].missing = Unpriced(day)
      BY <1>1, <1>2 DEF DiagnosticsInv
    <2>1. CASE day = Today
      BY <1>1, <1>4, <1>5, <1>6, <2>1 DEF Today
    <2>2. CASE day \in DOMAIN diagnostics
      BY <1>5, <2>2 DEF RunInv, DiagnosticsInv
    <2> QED
      BY <1>5, <2>1, <2>2
  <1>8. FoundInv'
    <2>1. DOMAIN found' = {} /\ todo' = Evaluated(Today)
      BY <1>1 DEF Empty
    <2> QED
      BY <1>2, <1>3, <2>1 DEF FoundInv
  <1>9. SignalsInv'
    BY <1>1, <1>2, <1>5 DEF RunInv, SignalsInv
  <1>10. ShortInv'
    BY <1>1, <1>2, <1>5 DEF RunInv, ShortInv
  <1>11. ReportInv'
    BY <1>1 DEF ReportInv, Running
  <1> QED
    BY <1>1, <1>2, <1>7, <1>8, <1>9, <1>10, <1>11 DEF RunInv

LEMMA SnapshotFixed ==
    ASSUME UNCHANGED <<inputs, diagnostics, short>>
    PROVE  /\ Ever("missing")' = Ever("missing") /\ UniverseMembers' = UniverseMembers
           /\ Unfit' = Unfit /\ AvailableCount' = AvailableCount /\ Status' = Status
  <1>1. \A s : Loaded(s)' = Loaded(s)
    BY InputsFixed
  <1>2. unusable' = unusable /\ diagnostics' = diagnostics /\ short' = short
    BY DEF inputs
  <1>3. Ever("missing")' = Ever("missing") /\ Ever("members")' = Ever("members")
    BY <1>2 DEF Ever
  <1>4. UniverseMembers' = UniverseMembers
    BY <1>3 DEF UniverseMembers
  <1>5. Unfit' = Unfit /\ Available' = Available
    BY <1>1, <1>2, <1>4 DEF Unfit, Available
  <1>6. AvailableCount' = AvailableCount
    BY <1>2, <1>5 DEF AvailableCount
  <1>7. Status' = Status
    BY <1>3, <1>5 DEF Status
  <1> QED
    BY <1>3, <1>4, <1>5, <1>6, <1>7

LEMMA PassSessionKeeps ==
    ASSUME RunInv, PassSession
    PROVE  RunInv'
  <1>1. /\ Running /\ session' = session + 1 /\ UNCHANGED inputs /\ report' = report
        /\ UNCHANGED <<inputs, signals, diagnostics, short>>
    BY DEF PassSession
  <1>2. session \in Int
    BY Calendar DEF RunInv
  <1>3. DiagnosticsInv' /\ SignalsInv' /\ ShortInv'
    BY <1>1, <1>2, RecordsKept
  <1>4. session' \in 1 .. Len(PerformanceDates)' + 1 /\ FoundInv'
    BY <1>1, NextSession
  <1>5. ReportInv'
    BY <1>1 DEF ReportInv, Running
  <1> QED
    BY <1>1, <1>3, <1>4, <1>5, InputsFixed DEF RunInv

LEMMA EvaluateSymbolKeeps ==
    ASSUME RunInv, EvaluateSymbol
    PROVE  RunInv'
  <1>1. /\ UNCHANGED <<inputs, signals, diagnostics, short>> /\ UNCHANGED inputs
        /\ session' = session /\ report' = report
        /\ todo # {} /\ todo' = todo \ {Min(todo)}
        /\ found' = Recorded(found, Min(todo), Disposition(BarsAsOf(Min(todo), Today), Today))
    BY DEF EvaluateSymbol
  <1>2. session \in Int
    BY Calendar DEF RunInv
  <1>3. DiagnosticsInv' /\ SignalsInv' /\ ShortInv'
    BY <1>1, <1>2, RecordsKept
  <1>4. /\ PerformanceDates' = PerformanceDates /\ InputsOK' = InputsOK
        /\ \A day : Evaluated(day)' = Evaluated(day)
        /\ \A s, day : BarsAsOf(s, day)' = BarsAsOf(s, day)
    BY <1>1, InputsFixed
  <1>5. Today' = Today /\ Running' = Running
    BY <1>1, <1>4 DEF Today, Running
  <1>6. FoundInv'
    <2> SUFFICES ASSUME Running, Today \in DOMAIN diagnostics
                 PROVE  /\ DOMAIN found' \cup todo' = Evaluated(Today) /\ DOMAIN found' \cap todo' = {}
                        /\ \A s \in DOMAIN found' :
                               found'[s] = Disposition(BarsAsOf(s, Today), Today)
      BY <1>1, <1>4, <1>5 DEF FoundInv
    <2>1. /\ DOMAIN found \cup todo = Evaluated(Today) /\ DOMAIN found \cap todo = {}
          /\ \A s \in DOMAIN found : found[s] = Disposition(BarsAsOf(s, Today), Today)
      BY DEF RunInv, FoundInv
    <2>2. Evaluated(Today) \subseteq Symbols
      BY TodayInPeriod DEF RunInv
    <2>3. todo \in SUBSET Nat
      BY <2>1, <2>2, RunAssumption
    <2>4. PICK x \in todo : x = Min(todo)
      BY <1>1, <2>3, LeastExists
    <2>5. /\ DOMAIN found' = DOMAIN found \cup {x}
          /\ \A s \in DOMAIN found' : found'[s] =
                IF s = x THEN Disposition(BarsAsOf(x, Today), Today) ELSE found[s]
      BY <1>1, <2>4 DEF Recorded
    <2> QED
      BY <1>1, <2>1, <2>4, <2>5
  <1>7. ReportInv'
    <2>1. UNCHANGED <<inputs, diagnostics, short>>
      BY <1>1
    <2> QED
      BY <1>1, <2>1, SnapshotFixed DEF RunInv, ReportInv
  <1>8. session' \in 1 .. Len(PerformanceDates)' + 1
    BY <1>1, <1>4 DEF RunInv
  <1> QED
    BY <1>3, <1>4, <1>6, <1>7, <1>8 DEF RunInv

LEMMA FinishRebalanceKeeps ==
    ASSUME RunInv, FinishRebalance
    PROVE  RunInv'
  <1> DEFINE chosen == {s \in DOMAIN found : found[s] = "eligible"}
  <1>1. /\ Running /\ Today \in RebalanceDates /\ Today \in DOMAIN diagnostics /\ todo = {}
        /\ UNCHANGED inputs /\ session' = session + 1 /\ report' = report
        /\ signals' = Recorded(signals, Today, SelectTopN(RankCandidates(
                          {Candidate(s, BarsAsOf(s, Today), Today) : s \in chosen})))
        /\ short' = short \cup {s \in Evaluated(Today) : Insufficient(BarsAsOf(s, Today))}
    BY DEF FinishRebalance, Having
  <1>2. /\ DOMAIN diagnostics' = DOMAIN diagnostics
        /\ \A day \in DOMAIN diagnostics : /\ diagnostics'[day].members = diagnostics[day].members
                                           /\ diagnostics'[day].missing = diagnostics[day].missing
    BY DEF FinishRebalance
  <1>3. /\ InputsOK' = InputsOK /\ PerformanceDates' = PerformanceDates
        /\ RebalanceDates' = RebalanceDates
        /\ \A s, day : BarsAsOf(s, day)' = BarsAsOf(s, day)
        /\ \A day : /\ Members(day)' = Members(day) /\ Unpriced(day)' = Unpriced(day)
                    /\ Evaluated(day)' = Evaluated(day) /\ Selected(day)' = Selected(day)
    BY <1>1, InputsFixed
  <1>4. session' \in 1 .. Len(PerformanceDates)' + 1 /\ FoundInv'
    BY <1>1, <1>2, NextSession
  <1>5. DiagnosticsInv'
    <2> SUFFICES ASSUME NEW day \in DOMAIN diagnostics
                 PROVE  /\ day \in RebalanceDates
                        /\ \E i \in 1 .. Len(PerformanceDates) :
                              i <= session + 1 /\ PerformanceDates[i] = day
                        /\ diagnostics'[day].members = Members(day)
                        /\ diagnostics'[day].missing = Unpriced(day)
      BY <1>1, <1>2, <1>3 DEF DiagnosticsInv
    <2>1. /\ day \in RebalanceDates
          /\ diagnostics[day].members = Members(day)
          /\ diagnostics[day].missing = Unpriced(day)
      BY DEF RunInv, DiagnosticsInv
    <2>2. PICK i \in 1 .. Len(PerformanceDates) : i <= session /\ PerformanceDates[i] = day
      BY DEF RunInv, DiagnosticsInv
    <2>3. session \in Int /\ i \in Int
      BY <2>2, Calendar DEF RunInv
    <2>4. i <= session + 1
      BY <2>2, <2>3
    <2> QED
      BY <1>2, <2>1, <2>2, <2>4
  <1>6. SignalsInv'
    <2>1. /\ DOMAIN found = Evaluated(Today)
          /\ \A s \in DOMAIN found : found[s] = Disposition(BarsAsOf(s, Today), Today)
      BY <1>1 DEF RunInv, FoundInv
    <2>2. chosen = {t \in Evaluated(Today) : Disposition(BarsAsOf(t, Today), Today) = "eligible"}
      BY <2>1
    <2>3. signals' = Recorded(signals, Today, Selected(Today))
      BY <1>1, <2>2 DEF Selected
    <2>4. /\ DOMAIN signals' = DOMAIN signals \cup {Today}
          /\ \A day \in DOMAIN signals' :
                 signals'[day] = IF day = Today THEN Selected(Today) ELSE signals[day]
      BY <2>3 DEF Recorded
    <2> HIDE DEF chosen
    <2> QED
      BY <1>1, <1>2, <1>3, <2>4 DEF RunInv, SignalsInv
  <1>7. ShortInv'
    BY <1>1, <1>2, <1>3 DEF RunInv, ShortInv
  <1>8. ReportInv'
    BY <1>1 DEF ReportInv, Running
  <1> QED
    BY <1>3, <1>4, <1>5, <1>6, <1>7, <1>8 DEF RunInv

LEMMA ReportKeeps ==
    ASSUME RunInv, Report
    PROVE  RunInv'
  <1>1. /\ UNCHANGED <<inputs, signals, diagnostics, short>> /\ UNCHANGED inputs
        /\ UNCHANGED <<inputs, diagnostics, short>>
        /\ session' = session /\ todo' = todo /\ found' = found /\ short' = short
        /\ session > Len(PerformanceDates)
    BY DEF Report
  <1>2. session \in Int /\ Len(PerformanceDates) \in Nat
    BY Calendar DEF RunInv
  <1>3. DiagnosticsInv' /\ SignalsInv' /\ ShortInv'
    BY <1>1, <1>2, RecordsKept
  <1>4. PerformanceDates' = PerformanceDates /\ InputsOK' = InputsOK
    BY <1>1, InputsFixed
  <1>5. FoundInv'
    BY <1>1, <1>2, <1>4 DEF FoundInv, Running
  <1>6. /\ report'.members = Cardinality(UniverseMembers) /\ report'.available = AvailableCount
        /\ report'.missing = Cardinality(Ever("missing")) /\ report'.unusable = Cardinality(Unfit)
        /\ report'.insufficient = Cardinality(short) /\ report'.status = Status
    BY DEF Report, Status
  <1>7. ReportInv'
    BY <1>1, <1>6, SnapshotFixed DEF ReportInv
  <1> QED
    BY <1>1, <1>3, <1>4, <1>5, <1>7 DEF RunInv

LEMMA RunInvStep ==
    ASSUME RunInv, [Next]_vars
    PROVE  RunInv'
  <1>1. CASE PassSession
    BY <1>1, PassSessionKeeps
  <1>2. CASE StartRebalance
    BY <1>2, StartRebalanceKeeps
  <1>3. CASE EvaluateSymbol
    BY <1>3, EvaluateSymbolKeeps
  <1>4. CASE FinishRebalance
    BY <1>4, FinishRebalanceKeeps
  <1>5. CASE Report
    BY <1>5, ReportKeeps
  <1>6. CASE UNCHANGED vars
    <2>1. /\ UNCHANGED <<inputs, signals, diagnostics, short>> /\ UNCHANGED inputs
          /\ UNCHANGED <<inputs, diagnostics, short>>
          /\ session' = session /\ todo' = todo /\ found' = found /\ short' = short
          /\ report' = report /\ diagnostics' = diagnostics
      BY <1>6 DEF vars
    <2>2. session \in Int
      BY Calendar DEF RunInv
    <2>3. DiagnosticsInv' /\ SignalsInv' /\ ShortInv'
      BY <2>1, <2>2, RecordsKept
    <2>4. /\ PerformanceDates' = PerformanceDates /\ InputsOK' = InputsOK
          /\ \A day : Evaluated(day)' = Evaluated(day)
          /\ \A s, day : BarsAsOf(s, day)' = BarsAsOf(s, day)
      BY <2>1, InputsFixed
    <2>5. Today' = Today /\ Running' = Running
      BY <2>1, <2>4 DEF Today, Running
    <2>6. FoundInv'
      BY <2>1, <2>4, <2>5 DEF RunInv, FoundInv
    <2>7. ReportInv'
      BY <2>1, SnapshotFixed DEF RunInv, ReportInv
    <2> QED
      BY <2>1, <2>3, <2>4, <2>6, <2>7 DEF RunInv
  <1> QED
    BY <1>1, <1>2, <1>3, <1>4, <1>5, <1>6 DEF Next

\* At every step of the loop in engine.py the diagnostics and signals recorded are
\* those of the rebalances due so far, computed for their own day's members and bars,
\* and a report is about all of them.
THEOREM RunInvHolds == Spec => []RunInv
  <1>1. Init => RunInv
    BY RunInvInit
  <1>2. RunInv /\ [Next]_vars => RunInv'
    BY RunInvStep
  <1> QED
    BY <1>1, <1>2, PTL DEF Spec

------------------------------------------------------------------------------
(* What the invariant says of the signals, the warm-up and the coverage.   *)

LEMMA RunInvBest ==
    ASSUME RunInv
    PROVE  SignalsAreTheBest
  <1> SUFFICES ASSUME NEW day \in DOMAIN signals
               PROVE  LET able == {s \in Evaluated(day) : Qualifies(s, day)}
                          place(s) == 1 + Cardinality({other \in able : Beats(other, s, day)})
                          best == {s \in able : place(s) <= TopN}
                      IN /\ Len(signals[day]) = Cardinality(best)
                         /\ \A s \in best : signals[day][place(s)].symbol = s
    BY DEF SignalsAreTheBest
  <1> DEFINE able == {s \in Evaluated(day) : Qualifies(s, day)}
             place(s) == 1 + Cardinality({other \in able : Beats(other, s, day)})
             best == {s \in able : place(s) <= TopN}
             cand == [s \in able |-> Candidate(s, BarsAsOf(s, day), day)]
             placed == [s \in able |-> place(s)]
  <1>1. InputsOK /\ day \in RebalanceDates /\ signals[day] = Selected(day)
    BY DEF RunInv, DiagnosticsInv, SignalsInv
  <1>2. day \in Start .. End /\ day \in Int /\ day <= End /\ Evaluated(day) \subseteq Symbols
    <2>1. day \in Start .. End
      BY <1>1, RebalanceCalendar
    <2>2. Evaluated(day) \subseteq Symbols
      BY <1>1, <2>1, MembersAreSymbols
    <2> QED
      BY <2>1, <2>2, RunAssumption
  <1>3. IsFiniteSet(able)
    BY <1>2, FS_Subset, RunAssumption
  <1>4. {t \in Evaluated(day) : Disposition(BarsAsOf(t, day), day) = "eligible"} = able
    BY <1>1, <1>2, EligibleQualifies
  <1>5. \A s \in able :
            /\ s \in Symbols
            /\ NthBack(s, day, Skip) = {Back(Slice(s, day), Skip)}
            /\ NthBack(s, day, Lookback) = {Back(Slice(s, day), Lookback)}
            /\ SkipPrice(Slice(s, day)) \in Nat /\ LookbackPrice(Slice(s, day)) \in Nat \ {0}
    BY <1>1, <1>2, EligibleQualifies
  <1>6. \A s \in able : cand[s] = [symbol |-> s, skip |-> SkipPrice(Slice(s, day)),
                                   lookback |-> LookbackPrice(Slice(s, day))]
    BY DEF Candidate, Slice
  <1>7. cand \in [able -> Candidates] /\ \A s \in able : cand[s].symbol = s
    <2>1. \A s \in able : cand[s] \in Candidates /\ cand[s].symbol = s
      <3> HIDE DEF able, cand
      <3> SUFFICES ASSUME NEW s \in able PROVE cand[s] \in Candidates /\ cand[s].symbol = s
        OBVIOUS
      <3>1. s \in Nat
        BY <1>5, RunAssumption
      <3>2. PICK a \in Nat : a = SkipPrice(Slice(s, day))
        BY <1>5
      <3>3. PICK b \in Nat \ {0} : b = LookbackPrice(Slice(s, day))
        BY <1>5
      <3>4. cand[s] = [symbol |-> s, skip |-> a, lookback |-> b]
        BY <1>6, <3>2, <3>3
      <3> QED
        BY <3>1, <3>2, <3>3, <3>4 DEF Candidates
    <2> HIDE DEF able
    <2> QED
      BY <2>1
  <1>8. ASSUME NEW s \in able, NEW o \in able
        PROVE  Beats(o, s, day) <=> Ahead(cand[o], cand[s])
    <2>1. /\ NthBack(s, day, Skip) = {Back(Slice(s, day), Skip)}
          /\ NthBack(s, day, Lookback) = {Back(Slice(s, day), Lookback)}
          /\ NthBack(o, day, Skip) = {Back(Slice(o, day), Skip)}
          /\ NthBack(o, day, Lookback) = {Back(Slice(o, day), Lookback)}
      BY <1>5
    <2>2. /\ cand[s] = [symbol |-> s, skip |-> Back(Slice(s, day), Skip).adjusted,
                        lookback |-> Back(Slice(s, day), Lookback).adjusted]
          /\ cand[o] = [symbol |-> o, skip |-> Back(Slice(o, day), Skip).adjusted,
                        lookback |-> Back(Slice(o, day), Lookback).adjusted]
      BY <1>6 DEF SkipPrice, LookbackPrice
    <2> HIDE DEF able, cand
    <2> QED
      BY <2>1, <2>2 DEF Beats, Ahead
  <1>9. placed = [s \in able |-> 1 + Cardinality({o \in able : Ahead(cand[o], cand[s])})]
    <2>1. \A s \in able : {other \in able : Beats(other, s, day)} = {o \in able : Ahead(cand[o], cand[s])}
      <3> HIDE DEF able, cand
      <3> QED
        BY <1>8
    <2> HIDE DEF able, cand
    <2> QED
      BY <2>1
  <1>10. best = {s \in able : placed[s] <= TopN}
    <2> HIDE DEF able
    <2> QED
      OBVIOUS
  <1>11. {cand[s] : s \in able} = {Candidate(s, BarsAsOf(s, day), day) : s \in able}
    <2> HIDE DEF able
    <2> QED
      OBVIOUS
  <1>12. signals[day] = SelectTopN(RankCandidates({cand[s] : s \in able}))
    <2> HIDE DEF able, cand
    <2> QED
      BY <1>1, <1>4, <1>11 DEF Selected
  <1>13. /\ Len(signals[day]) = Cardinality(best)
         /\ \A s \in best : signals[day][placed[s]].symbol = s
    <2> HIDE DEF able, cand, placed, best
    <2>1. BestFirst(able, cand)
      BY <1>3, <1>7, RankedSelection
    <2>2. placed = Placed(able, cand)
      BY <1>9 DEF Placed
    <2> QED
      BY <1>10, <1>12, <2>1, <2>2 DEF BestFirst
  <1>14. \A s \in best : placed[s] = place(s)
    <2> HIDE DEF able
    <2> QED
      OBVIOUS
  <1> QED
    <2> HIDE DEF able, cand, placed, best
    <2>1. \A s \in best : signals[day][place(s)].symbol = s
      BY <1>13, <1>14
    <2> QED
      BY <1>13, <2>1 DEF best, able

LEMMA RunInvWarmup ==
    ASSUME RunInv
    PROVE  WarmupSuffices
  <1> SUFFICES ASSUME DOMAIN diagnostics # {}
               PROVE  LET sessions == {day \in TradingDays : day <= Max(DOMAIN diagnostics)}
                      IN /\ \A day \in DOMAIN diagnostics : day >= Bounds.performance
                         /\ signalStart = None => \A s \in short : ~ sessions \subseteq Days(Loaded(s))
    BY DEF WarmupSuffices
  <1> DEFINE sessions == {day \in TradingDays : day <= Max(DOMAIN diagnostics)}
  <1>1. InputsOK
    BY DEF RunInv
  <1>2. \A day \in DOMAIN diagnostics : day \in RebalanceDates /\ day \in Sessions
    BY <1>1, Calendar DEF RunInv, DiagnosticsInv
  <1>3. \A day \in DOMAIN diagnostics : day >= Bounds.performance
    BY <1>2 DEF Sessions
  <1>4. ASSUME signalStart = None, NEW s \in short, sessions \subseteq Days(Loaded(s))
        PROVE  FALSE
    <2>1. PICK day \in DOMAIN diagnostics :
             s \in Evaluated(day) /\ Insufficient(BarsAsOf(s, day))
      BY DEF RunInv, ShortInv
    <2> DEFINE upTo == {d \in TradingDays : d <= day}
               L == Loaded(s)
               asOf == {i \in 1 .. Len(L) : L[i].day <= day}
               days == {L[i].day : i \in asOf}
               f == [i \in asOf |-> L[i].day]
    <2>2. /\ day \in Start .. End /\ day \in Int /\ day <= End
          /\ IsFiniteSet(upTo) /\ Cardinality(upTo) \in Nat
          /\ Cardinality(upTo) >= Bounds.sessions
      <3>1. day \in RebalanceDates
        BY <1>2, <2>1
      <3>2. /\ day \in Start .. End
            /\ IsFiniteSet(upTo) /\ Cardinality(upTo) \in Nat
            /\ Cardinality(upTo) >= Bounds.sessions
        BY <1>1, <3>1, RebalanceCalendar
      <3> QED
        BY <3>2, RunAssumption
    <2>3. Bounds.sessions = Lookback + 1
      BY <1>1, <1>4, BoundsType
    <2>4. s \in Symbols
      BY <1>1, <2>1, <2>2, MembersAreSymbols
    <2>5. IsFiniteSet(asOf) /\ Len(BarsAsOf(s, day)) = Cardinality(asOf)
      BY <1>1, <2>2, <2>4, BarsAsOfSeries
    <2>6. upTo \subseteq sessions
      <3>1. DOMAIN diagnostics \in SUBSET Int /\ IsFiniteSet(DOMAIN diagnostics)
        <4>1. DOMAIN diagnostics \in SUBSET TradingDays
          BY <1>2 DEF Sessions
        <4>2. TradingDays \subseteq Int /\ IsFiniteSet(TradingDays)
          BY <1>1, Calendar
        <4> QED
          BY <4>1, <4>2, FS_Subset
      <3>2. Max(DOMAIN diagnostics) \in DOMAIN diagnostics /\ day <= Max(DOMAIN diagnostics)
        BY <2>1, <3>1, GreatestExists
      <3>3. PICK max \in Int : max = Max(DOMAIN diagnostics) /\ day <= max
        BY <3>1, <3>2
      <3>4. \A d \in TradingDays : d \in Int
        BY <1>1, Calendar
      <3>5. \A d \in TradingDays : d <= day => d <= max
        BY <2>2, <3>3, <3>4
      <3> QED
        BY <3>3, <3>5
    <2>7. upTo \subseteq days
      <3> SUFFICES ASSUME NEW d \in upTo PROVE d \in days
        OBVIOUS
      <3>1. d \in Days(L) /\ d <= day
        BY <1>4, <2>6
      <3>2. PICK i \in DOMAIN L : L[i].day = d
        BY <3>1 DEF Days
      <3>3. DOMAIN L = 1 .. Len(L)
        BY <1>1, <2>4, LoadedSeries
      <3> HIDE DEF L
      <3> QED
        BY <3>1, <3>2, <3>3
    <2>8. f \in Surjection(asOf, days)
      <3> HIDE DEF L
      <3> QED
        BY DEF Surjection
    <2> HIDE DEF f, asOf, days, upTo
    <2>9. IsFiniteSet(days) /\ Cardinality(days) <= Cardinality(asOf)
      BY <2>5, <2>8, FS_Surjection
    <2>10. Cardinality(upTo) <= Cardinality(days)
      BY <2>7, <2>9, FS_Subset
    <2>11. Cardinality(asOf) \in Nat /\ Cardinality(days) \in Nat
      BY <2>5, <2>9, FS_CardinalityType
    <2>12. ~ (Cardinality(asOf) < Lookback + 1)
      BY <2>2, <2>3, <2>9, <2>10, <2>11, ConfigAssumption
    <2> QED
      BY <2>1, <2>5, <2>12 DEF Insufficient
  <1> QED
    BY <1>3, <1>4

LEMMA RunInvCoverage ==
    ASSUME RunInv
    PROVE  CoverageAddsUp
  <1> SUFFICES ASSUME report # None
               PROVE  /\ Ever("members") # {} =>
                            report.members = report.available + report.missing + report.unusable
                                               + report.insufficient
                      /\ report.status = "COMPLETE" =>
                            \A day \in DOMAIN diagnostics : Evaluated(day) = diagnostics[day].members
    BY DEF CoverageAddsUp
  <1>1. InputsOK
    BY DEF RunInv
  <1>2. \A day \in DOMAIN diagnostics : /\ diagnostics[day].members = Members(day)
                                        /\ diagnostics[day].missing = Unpriced(day)
                                        /\ Members(day) \subseteq Symbols
    BY <1>1, RebalanceCalendar, MembersAreSymbols DEF RunInv, DiagnosticsInv
  <1>3. Ever("members") = UNION {Members(day) : day \in DOMAIN diagnostics}
    BY <1>2 DEF Ever
  <1>4. Ever("missing") = {s \in Ever("members") : Loaded(s) = <<>>}
    <2>1. Ever("missing") = UNION {Unpriced(day) : day \in DOMAIN diagnostics}
      BY <1>2 DEF Ever
    <2> QED
      BY <1>3, <2>1 DEF Unpriced
  <1>5. ASSUME Ever("members") # {}
        PROVE  report.members = report.available + report.missing + report.unusable
                                  + report.insufficient
    <2> DEFINE U == Ever("members")
               M == {s \in U : Loaded(s) = <<>>}
               A == (U \ M) \ (short \cup Unfit)
    <2>1. UniverseMembers = U
      BY <1>5 DEF UniverseMembers
    <2>2. Unfit = {s \in U : s \in unusable /\ Loaded(s) # <<>>}
      BY <2>1 DEF Unfit
    <2>3. \A s \in short : s \in U /\ s \notin M /\ s \notin unusable
      <3> SUFFICES ASSUME NEW s \in short PROVE s \in U /\ s \notin M /\ s \notin unusable
        OBVIOUS
      <3>1. PICK day \in DOMAIN diagnostics : s \in Evaluated(day)
        BY DEF RunInv, ShortInv
      <3> QED
        BY <1>3, <3>1 DEF Evaluated, Unpriced
    <2>4. AvailableCount = Cardinality(A)
      <3>1. Available \ (short \cup Unfit) = A
        BY <2>1 DEF Available
      <3> QED
        BY <3>1 DEF AvailableCount
    <2>5. IsFiniteSet(U)
      BY <1>2, <1>3, FS_Subset, RunAssumption
    <2> HIDE DEF U
    <2>6. /\ U = M \cup (Unfit \cup (short \cup A)) /\ short \cap A = {}
          /\ Unfit \cap (short \cup A) = {} /\ M \cap (Unfit \cup (short \cup A)) = {}
      BY <2>2, <2>3
    <2>7. IsFiniteSet(M) /\ IsFiniteSet(Unfit) /\ IsFiniteSet(short) /\ IsFiniteSet(A)
      <3>1. M \subseteq U /\ Unfit \subseteq U /\ short \subseteq U /\ A \subseteq U
        BY <2>6
      <3> HIDE DEF M, A
      <3> QED
        BY <2>5, <3>1, FS_Subset
    <2> HIDE DEF M, A
    <2>8. Cardinality({}) = 0
      BY FS_EmptySet
    <2>9. /\ IsFiniteSet(short \cup A)
          /\ Cardinality(short \cup A) = Cardinality(short) + Cardinality(A) - 0
      BY <2>6, <2>7, <2>8, FS_Union
    <2>10. /\ IsFiniteSet(Unfit \cup (short \cup A))
           /\ Cardinality(Unfit \cup (short \cup A)) = Cardinality(Unfit) + Cardinality(short \cup A) - 0
      BY <2>6, <2>7, <2>8, <2>9, FS_Union
    <2>11. Cardinality(U) = Cardinality(M) + Cardinality(Unfit \cup (short \cup A)) - 0
      BY <2>6, <2>7, <2>8, <2>10, FS_Union
    <2>12. /\ Cardinality(M) \in Nat /\ Cardinality(Unfit) \in Nat
           /\ Cardinality(short) \in Nat /\ Cardinality(A) \in Nat
      BY <2>7, FS_CardinalityType
    <2>13. Cardinality(U) = Cardinality(A) + Cardinality(M) + Cardinality(Unfit) + Cardinality(short)
      BY <2>9, <2>10, <2>11, <2>12
    <2>14. /\ report.members = Cardinality(U) /\ report.available = Cardinality(A)
           /\ report.missing = Cardinality(M) /\ report.unusable = Cardinality(Unfit)
           /\ report.insufficient = Cardinality(short)
      BY <1>4, <2>1, <2>4 DEF RunInv, ReportInv, U, M
    <2> QED
      BY <2>13, <2>14
  <1>6. ASSUME report.status = "COMPLETE", NEW day \in DOMAIN diagnostics
        PROVE  Evaluated(day) = diagnostics[day].members
    <2>1. Ever("missing") = {} /\ Unfit = {}
      BY <1>6 DEF RunInv, ReportInv, Status
    <2>2. Unpriced(day) = {}
      BY <1>2, <2>1 DEF Ever
    <2>3. Members(day) \cap unusable = {}
      <3> SUFFICES ASSUME NEW s \in Members(day), s \in unusable PROVE FALSE
        OBVIOUS
      <3>1. Loaded(s) # <<>>
        BY <2>2 DEF Unpriced
      <3>2. s \in Ever("members")
        BY <1>3
      <3>3. s \in UniverseMembers
        BY <3>2 DEF UniverseMembers
      <3> QED
        BY <2>1, <3>1, <3>3 DEF Unfit
    <2>4. Evaluated(day) = Members(day)
      BY <2>2, <2>3 DEF Evaluated
    <2> QED
      BY <1>2, <2>4
  <1> QED
    BY <1>5, <1>6

\* The signals of a rebalance are the top_n best of the usable members, in order and
\* with no bar of a later day, in whatever order a provider returned the bars
\* (_slice_as_of, _evaluate_symbol and ranking.py).
THEOREM SignalsHold == Spec => []SignalsAreTheBest
  <1>1. RunInv => SignalsAreTheBest
    BY RunInvBest
  <1> QED
    BY <1>1, RunInvHolds, PTL

\* Without a signal start the lookback + 1 sessions of resolve_warmup_bounds are enough
\* for every member with a bar on each of them; with one, nothing is rebalanced early.
THEOREM WarmupHolds == Spec => []WarmupSuffices
  <1>1. RunInv => WarmupSuffices
    BY RunInvWarmup
  <1> QED
    BY <1>1, RunInvHolds, PTL

\* The coverage snapshot of engine.py counts each member of any rebalance once, and a
\* COMPLETE run left none of them out.
THEOREM CoverageHolds == Spec => []CoverageAddsUp
  <1>1. RunInv => CoverageAddsUp
    BY RunInvCoverage
  <1> QED
    BY <1>1, RunInvHolds, PTL
=============================================================================
